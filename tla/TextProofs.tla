------------------------------ MODULE TextProofs ------------------------------
(***************************************************************************)
(* What texts and bytes are made of, for every size of a byte, a group, a  *)
(* number or a key: varints, base58 and the did:key that names a key, each *)
(* read as it is written and written as it is read; and DAG-JSON texts,    *)
(* which tell values apart.                                                *)
(***************************************************************************)
EXTENDS Codec, FiniteSetTheorems, WellFoundedInduction, TLAPS

----------------------------------------------------------------------------
(* Induction and recursion on numbers, stated of sets and functions, so    *)
(* that a proof can use them for the case it has.                          *)

LEMMA Least ==
  ASSUME NEW T, T \subseteq Nat, T # {}
  PROVE  \E x \in T : \A y \in T : x <= y
<1>. DEFINE R == OpToRel(<, Nat)
<1>1. IsWellFoundedOn(R, Nat)
  BY NatLessThanWellFounded
<1>2. \A x, y \in Nat : <<y, x>> \in R <=> y < x
  BY DEF OpToRel
<1>. HIDE DEF R
<1>3. PICK x \in T : \A y \in T : <<y, x>> \notin R
  BY <1>1, WFMin
<1>4. ASSUME NEW y \in T PROVE x <= y
  <2>1. x \in Nat /\ y \in Nat
    OBVIOUS
  <2>2. <<y, x>> \notin R
    BY <1>3
  <2>3. ~(y < x)
    BY <1>2, <2>1, <2>2
  <2>. QED  BY <2>1, <2>3
<1>. QED  BY <1>4

\* What holds of 0 and, when of n, of n + 1, holds of every number up to m.
LEMMA InductionUpTo ==
  ASSUME NEW m \in Nat, NEW S, 0 \in S,
         \A n \in 0 .. m - 1 : n \in S => n + 1 \in S
  PROVE  0 .. m \subseteq S
<1>. SUFFICES ASSUME ~(0 .. m \subseteq S) PROVE FALSE
  OBVIOUS
<1>. DEFINE Missing == {n \in 0 .. m : n \notin S}
<1>1. Missing \subseteq Nat /\ Missing # {}
  OBVIOUS
<1>2. PICK n \in Missing : \A k \in Missing : n <= k
  BY <1>1, Least
<1>3. n # 0 /\ n - 1 \in 0 .. m - 1
  BY <1>2
<1>4. n - 1 \in S
  BY <1>2, <1>3
<1>. QED  BY <1>2, <1>3, <1>4

LEMMA Induction ==
  ASSUME NEW S, 0 \in S, \A n \in Nat : n \in S => n + 1 \in S
  PROVE  Nat \subseteq S
<1>. SUFFICES ASSUME NEW m \in Nat PROVE m \in S
  OBVIOUS
<1>1. 0 .. m \subseteq S
  BY InductionUpTo
<1>. QED  BY <1>1

\* f is m steps of step, in T, from first.
Iterates(f, m, T, first, step) ==
  /\ f \in [0 .. m -> T]
  /\ f[0] = first
  /\ \A k \in 1 .. m : f[k] = step[k][f[k - 1]]

\* A first value and a step from each value to the next determine a sequence.
LEMMA Iteration ==
  ASSUME NEW m \in Nat, NEW T, NEW first \in T, NEW step \in [1 .. m -> [T -> T]]
  PROVE  \E f : Iterates(f, m, T, first, step)
<1>. DEFINE Upto(n) ==
       {f \in [0 .. n -> T] : f[0] = first /\ \A k \in 1 .. n : f[k] = step[k][f[k - 1]]}
            Reached == {n \in 0 .. m : Upto(n) # {}}
<1>1. 0 \in Reached
  <2>1. [k \in 0 .. 0 |-> first] \in Upto(0)
    OBVIOUS
  <2>. QED  BY <2>1
<1>2. ASSUME NEW n \in 0 .. m - 1, n \in Reached PROVE n + 1 \in Reached
  <2>1. PICK f \in [0 .. n -> T] :
          f[0] = first /\ \A k \in 1 .. n : f[k] = step[k][f[k - 1]]
    BY <1>2
  <2>. DEFINE g == [k \in 0 .. n + 1 |-> IF k = n + 1 THEN step[n + 1][f[n]] ELSE f[k]]
  <2>2. f[n] \in T /\ n + 1 \in 1 .. m
    OBVIOUS
  <2>3. step[n + 1][f[n]] \in T
    BY <2>2
  <2>4. g \in [0 .. n + 1 -> T]
    BY <2>3
  <2>5. g[0] = first
    BY <2>1
  <2>6. ASSUME NEW k \in 1 .. n + 1 PROVE g[k] = step[k][g[k - 1]]
    <3>1. CASE k = n + 1
      <4>1. k - 1 = n /\ g[k - 1] = f[n]
        BY <3>1
      <4>. QED  BY <3>1, <4>1
    <3>2. CASE k # n + 1
      <4>1. k \in 1 .. n /\ g[k] = f[k] /\ g[k - 1] = f[k - 1]
        BY <3>2
      <4>. QED  BY <2>1, <4>1
    <3>. QED  BY <3>1, <3>2
  <2>. HIDE DEF g
  <2>7. g \in Upto(n + 1)
    BY <2>4, <2>5, <2>6
  <2>. QED  BY <2>7
<1>. HIDE DEF Reached
<1>3. m \in Reached
  <2>1. 0 .. m \subseteq Reached
    BY <1>1, <1>2, InductionUpTo
  <2>. QED  BY <2>1
<1>. QED  BY <1>3 DEF Reached, Iterates

\* ... all of it of the type that the steps keep.
LEMMA IterationType ==
  ASSUME NEW m \in Nat, NEW T, NEW f, f[0] \in T,
         \A n \in 0 .. m - 1 : f[n] \in T => f[n + 1] \in T
  PROVE  \A k \in 0 .. m : f[k] \in T
<1>. DEFINE S == {k \in 0 .. m : f[k] \in T}
<1>1. 0 \in S
  OBVIOUS
<1>2. ASSUME NEW n \in 0 .. m - 1, n \in S PROVE n + 1 \in S
  BY <1>2
<1>. HIDE DEF S
<1>3. 0 .. m \subseteq S
  BY <1>1, <1>2, InductionUpTo
<1>. QED  BY <1>3 DEF S

----------------------------------------------------------------------------
\* A number has one quotient and one rest.
LEMMA DivideUnique ==
  ASSUME NEW b \in Nat, b > 0, NEW q \in Nat, NEW r \in 0 .. b - 1
  PROVE  (b * q + r) \div b = q /\ (b * q + r) % b = r
<1>. DEFINE n == b * q + r
<1>1. n \in Nat
  OBVIOUS
<1>. DEFINE p == n \div b  t == n % b
<1>2. p \in Nat /\ t \in 0 .. b - 1 /\ n = b * p + t
  BY <1>1
<1>3. b * q + r = b * p + t
  BY <1>2
<1>. HIDE DEF p, t, n
<1>4. b * (q - p) = t - r
  BY <1>2, <1>3
<1>5. q - p >= 1 => b * (q - p) >= b
  BY <1>2
<1>6. q - p <= -1 => b * (q - p) <= -b
  BY <1>2
<1>7. q - p = 0
  BY <1>2, <1>4, <1>5, <1>6
<1>8. p = q /\ t = r
  BY <1>2, <1>4, <1>7
<1>. QED  BY <1>8 DEF p, t, n

\* c is a, then b.
IsConcat(c, a, b) ==
  /\ Len(c) = Len(a) + Len(b) /\ Len(a) \in Nat /\ Len(b) \in Nat
  /\ \A k \in 1 .. Len(a) : c[k] = a[k]
  /\ \A k \in 1 .. Len(b) : c[Len(a) + k] = b[k]

LEMMA ConcatType ==
  ASSUME NEW S, NEW a \in Seq(S), NEW b \in Seq(S)
  PROVE  a \o b \in Seq(S) /\ IsConcat(a \o b, a, b)
  BY DEF IsConcat

LEMMA GroupType == Group \in Nat /\ Group >= 2 /\ MaxTop \in 1 .. Group - 1
  BY VarintAssumption

LEMMA GroupsOf ==
  ASSUME NEW n \in Nat
  PROVE  /\ n \div Group \in Nat /\ n % Group \in 0 .. Group - 1
         /\ n = Group * (n \div Group) + (n % Group)
         /\ n >= Group => n \div Group \in 1 .. n - 1
<1>1. n \div Group \in Nat /\ n % Group \in 0 .. Group - 1 /\ n = Group * (n \div Group) + (n % Group)
  BY GroupType
<1>. DEFINE q == n \div Group
<1>2. ASSUME n >= Group PROVE q >= 1 /\ q < n
  <2>. HIDE DEF q
  <2>1. q \in Nat /\ n < Group * q + Group
    BY <1>1, GroupType DEF q
  <2>2. q # 0
    BY <1>2, <2>1, GroupType
  <2>3. Group * q >= 2 * q
    BY <2>1, GroupType
  <2>. QED  BY <1>1, <2>1, <2>2, <2>3, GroupType DEF q
<1>. QED  BY <1>1, <1>2

\* A number has one quotient and one rest.
LEMMA GroupsUnique ==
  ASSUME NEW q \in Nat, NEW r \in 0 .. Group - 1
  PROVE  (Group * q + r) \div Group = q /\ (Group * q + r) % Group = r
<1>. DEFINE n == Group * q + r
<1>1. n \in Nat
  BY GroupType
<1>. DEFINE p == n \div Group  s == n % Group
<1>2. p \in Nat /\ s \in 0 .. Group - 1 /\ Group * q + r = Group * p + s
  BY <1>1, GroupsOf
<1>. HIDE DEF p, s
<1>3. Group * (q - p) = s - r
  BY <1>2, GroupType
<1>4. q - p = 0
  <2>1. q - p >= 1 => Group * (q - p) >= Group
    BY <1>2, GroupType
  <2>2. q - p <= -1 => Group * (q - p) <= -Group
    BY <1>2, GroupType
  <2>3. s - r < Group /\ s - r > -Group
    BY <1>2, GroupType
  <2>. QED  BY <1>2, <1>3, <2>1, <2>2, <2>3, GroupType
<1>5. p = q /\ s = r
  BY <1>2, <1>3, <1>4, GroupType
<1>. QED  BY <1>5 DEF p, s

\* Prefixes, element by element.
LEMMA PrefixIsPointwise ==
  ASSUME NEW S, NEW s \in Seq(S), NEW t \in Seq(S)
  PROVE  IsPrefix(s, t) <=> Len(s) <= Len(t) /\ \A i \in 1 .. Len(s) : s[i] = t[i]
<1>1. ASSUME Len(s) <= Len(t)
      PROVE  /\ SubSeq(s, 1, Len(s)) = s
             /\ SubSeq(t, 1, Len(s)) \in Seq(S)
             /\ Len(SubSeq(t, 1, Len(s))) = Len(s)
             /\ \A i \in 1 .. Len(s) : SubSeq(t, 1, Len(s))[i] = t[i]
  BY <1>1
<1>2. ASSUME Len(s) <= Len(t)
      PROVE  s = SubSeq(t, 1, Len(s)) <=> \A i \in 1 .. Len(s) : s[i] = t[i]
  BY <1>1, <1>2
<1>. QED  BY <1>1, <1>2 DEF IsPrefix

\* Sequences are the same when their elements are.
LEMMA SameSequence ==
  ASSUME NEW S, NEW s \in Seq(S), NEW t \in Seq(S), Len(s) = Len(t),
         \A i \in 1 .. Len(s) : s[i] = t[i]
  PROVE  s = t
  OBVIOUS

LEMMA OneOrMore ==
  ASSUME NEW S, NEW s \in Seq(S), Len(s) > 0
  PROVE  Len(s) > 1 \/ Len(s) = 1
<1>. DEFINE l == Len(s)
<1>1. l \in Nat /\ l > 0
  OBVIOUS
<1>. HIDE DEF l
<1>2. l > 1 \/ l = 1
  BY <1>1
<1>. QED  BY <1>2 DEF l

LEMMA OnlyZero ==
  ASSUME NEW s \in Seq(Nat), Len(s) = 1, s[1] = 0
  PROVE  s = << 0 >>
<1>1. << 0 >> \in Seq(Nat) /\ Len(<< 0 >>) = 1 /\ << 0 >>[1] = 0
  OBVIOUS
<1>. QED  BY <1>1, SameSequence

----------------------------------------------------------------------------
PutStep(m, f) == IF m < Group THEN << m >> ELSE << Group + (m % Group) >> \o f[m \div Group]
IsPut(f, n) == f = [m \in 0 .. n |-> PutStep(m, f)]

LEMMA PutAt ==
  ASSUME NEW n, NEW f, IsPut(f, n), NEW m \in 0 .. n
  PROVE  f[m] = PutStep(m, f)
<1>. DEFINE g == [k \in 0 .. n |-> PutStep(k, f)]
<1>1. g[m] = PutStep(m, f)
  BY Zenon
<1>2. f = g
  BY DEF IsPut
<1>. QED  BY <1>1, <1>2, Zenon

LEMMA PutExists == \A n \in Nat : \E f : IsPut(f, n)
<1>. DEFINE S == {n \in Nat : \E f : IsPut(f, n)}
<1>1. 0 \in S
  <2>1. IsPut([m \in 0 .. 0 |-> << m >>], 0)
    BY GroupType DEF IsPut, PutStep
  <2>. QED  BY <2>1
<1>2. ASSUME NEW n \in Nat, n \in S PROVE n + 1 \in S
  <2>1. PICK f : IsPut(f, n)
    BY <1>2
  <2>. DEFINE g == [m \in 0 .. n + 1 |-> PutStep(m, f)]
  <2>2. \A m \in 0 .. n : g[m] = f[m]
    BY <2>1, PutAt
  <2>3. \A m \in 0 .. n + 1 : m >= Group => m \div Group \in 0 .. n
    BY GroupsOf
  <2>4. \A m \in 0 .. n + 1 : g[m] = PutStep(m, g)
    <3>1. ASSUME NEW m \in 0 .. n + 1 PROVE g[m] = PutStep(m, f)
      BY <3>1, Zenon
    <3>. HIDE DEF g
    <3>2. ASSUME NEW m \in 0 .. n + 1 PROVE PutStep(m, f) = PutStep(m, g)
      <4>1. CASE m < Group
        BY <4>1 DEF PutStep
      <4>2. CASE ~(m < Group)
        <5>1. m \div Group \in 0 .. n
          BY <2>3, <4>2, GroupType
        <5>2. g[m \div Group] = f[m \div Group]
          BY <2>2, <5>1
        <5>. QED  BY <5>2 DEF PutStep
      <4>. QED  BY <4>1, <4>2
    <3>. QED  BY <3>1, <3>2
  <2>5. IsPut(g, n + 1)
    <3>. DEFINE h == [m \in 0 .. n + 1 |-> PutStep(m, g)]
    <3>1. \A m \in 0 .. n + 1 : g[m] = h[m]
      BY <2>4
    <3>2. g = h
      BY <3>1
    <3>. QED  BY <3>2 DEF IsPut
  <2>. QED  BY <2>5
<1>. HIDE DEF S
<1>3. Nat \subseteq S
  BY <1>1, <1>2, Induction
<1>. QED  BY <1>3 DEF S

LEMMA PutsAgree ==
  ASSUME NEW n \in Nat, NEW k \in Nat, NEW f, IsPut(f, n), NEW g, IsPut(g, k),
         NEW m \in 0 .. n, m <= k
  PROVE  f[m] = g[m]
<1>. DEFINE Bad == {j \in 0 .. n : j <= k /\ f[j] # g[j]}
<1>1. Bad = {}
  <2>. SUFFICES ASSUME Bad # {} PROVE FALSE
    OBVIOUS
  <2>1. PICK j \in Bad : \A i \in Bad : j <= i
    BY Least, Bad \subseteq Nat
  <2>2. j \in 0 .. n /\ j \in 0 .. k /\ j \in Nat
    OBVIOUS
  <2>3. f[j] = PutStep(j, f) /\ g[j] = PutStep(j, g)
    BY <2>2, PutAt
  <2>4. j >= Group => f[j \div Group] = g[j \div Group]
    BY <2>1, <2>2, GroupsOf
  <2>5. PutStep(j, f) = PutStep(j, g)
    BY <2>2, <2>4, GroupType DEF PutStep
  <2>. QED  BY <2>3, <2>5
<1>. QED  BY <1>1

\* put_uvarint, group by group.
LEMMA PutRule ==
  ASSUME NEW n \in Nat
  PROVE  PutUvarint(n) =
           IF n < Group THEN << n >> ELSE << Group + (n % Group) >> \o PutUvarint(n \div Group)
<1>. DEFINE F(k) == CHOOSE f : IsPut(f, k)
<1>1. \A k \in Nat : PutUvarint(k) = F(k)[k]
  BY Zenon DEF PutUvarint, IsPut, PutStep
<1>2. \A k \in Nat : IsPut(F(k), k)
  BY PutExists
<1>. HIDE DEF F
<1>3. F(n)[n] = PutStep(n, F(n))
  BY <1>2, PutAt
<1>4. ASSUME n >= Group PROVE F(n)[n \div Group] = F(n \div Group)[n \div Group]
  <2>. DEFINE q == n \div Group
  <2>1. q \in 1 .. n - 1
    BY <1>4, GroupsOf
  <2>. HIDE DEF q
  <2>2. q \in Nat /\ q \in 0 .. n /\ q <= q /\ IsPut(F(n), n) /\ IsPut(F(q), q)
    BY <1>2, <2>1
  <2>3. F(n)[q] = F(q)[q]
    BY <2>2, PutsAgree
  <2>. QED  BY <2>3 DEF q
<1>5. n < Group \/ n >= Group
  BY GroupType
<1>6. n >= Group => n \div Group \in Nat /\ ~(n < Group)
  BY GroupType, GroupsOf
<1>. QED  BY <1>1, <1>3, <1>4, <1>5, <1>6 DEF PutStep

\* A form: all groups but the last say that another follows, and the last is
\* not empty unless it is the first.
WellFormed(s) ==
  /\ s \in Seq(0 .. 2 * Group - 1) /\ Len(s) > 0
  /\ \A k \in 1 .. Len(s) - 1 : s[k] >= Group
  /\ s[Len(s)] < Group
  /\ Len(s) > 1 => s[Len(s)] # 0

LEMMA PutIsWellFormed == \A n \in Nat : WellFormed(PutUvarint(n)) /\ (n > 0 => PutUvarint(n) # << 0 >>)
<1>. DEFINE Good(n) == WellFormed(PutUvarint(n)) /\ (n > 0 => PutUvarint(n) # << 0 >>)
            Bad == {n \in Nat : ~Good(n)}
<1>1. Bad = {}
  <2>. SUFFICES ASSUME Bad # {} PROVE FALSE
    OBVIOUS
  <2>1. PICK n \in Bad : \A i \in Bad : n <= i
    BY Least, Bad \subseteq Nat
  <2>. DEFINE v == PutUvarint(n)  q == n \div Group  t == PutUvarint(q)
  <2>2. CASE n < Group
    <3>1. v = << n >>
      <4>. HIDE DEF v
      <4>1. n \in Nat
        OBVIOUS
      <4>. QED  BY <2>2, <4>1, PutRule, Zenon DEF v
    <3>2. WellFormed(<< n >>) /\ (n > 0 => << n >> # << 0 >>)
      BY <2>2, GroupType DEF WellFormed
    <3>. QED  BY <3>1, <3>2
  <2>3. CASE n >= Group
    <3>1. q \in 1 .. n - 1 /\ n % Group \in 0 .. Group - 1
      BY <2>3, GroupsOf
    <3>2. Good(q)
      BY <2>1, <3>1
    <3>3. v = << Group + (n % Group) >> \o t
      <4>. HIDE DEF v, t
      <4>1. n \in Nat /\ ~(n < Group)
        BY <2>3, GroupType
      <4>. QED  BY <4>1, PutRule, Zenon DEF v, t, q
    <3>4. t # << 0 >> /\ WellFormed(t)
      BY <3>1, <3>2
    <3>. DEFINE x == Group + (n % Group)
    <3>5. x \in 0 .. 2 * Group - 1 /\ x >= Group
      BY <3>1, GroupType
    <3>. HIDE DEF v, t, x, q
    <3>6. /\ v \in Seq(0 .. 2 * Group - 1) /\ Len(v) = Len(t) + 1 /\ Len(t) \in Nat /\ Len(t) > 0
          /\ v[1] = x /\ \A k \in 1 .. Len(t) : v[k + 1] = t[k]
      BY <3>3, <3>4, <3>5 DEF WellFormed, x
    <3>7. \A k \in 1 .. Len(v) - 1 : v[k] >= Group
      <4>1. ASSUME NEW k \in 1 .. Len(v) - 1 PROVE v[k] >= Group
        <5>1. CASE k = 1
          BY <3>5, <3>6, <5>1
        <5>2. CASE k # 1
          <6>1. k - 1 \in 1 .. Len(t) - 1 /\ k - 1 + 1 = k /\ k - 1 \in 1 .. Len(t)
            BY <3>6, <5>2
          <6>2. v[k] = t[k - 1]
            BY <3>6, <6>1
          <6>. QED  BY <3>4, <6>1, <6>2 DEF WellFormed
        <5>. QED  BY <5>1, <5>2
      <4>. QED  BY <4>1
    <3>8. v[Len(v)] = t[Len(t)]
      BY <3>6
    <3>9. t[Len(t)] # 0
      <4>1. CASE Len(t) > 1
        BY <3>4, <4>1 DEF WellFormed
      <4>2. CASE Len(t) = 1
        <5>1. ASSUME t[1] = 0 PROVE FALSE
          <6>1. t \in Seq(Nat)
            BY <3>4, GroupType DEF WellFormed
          <6>2. t = << 0 >>
            BY <4>2, <5>1, <6>1, OnlyZero, Zenon
          <6>. QED  BY <3>4, <6>2
        <5>. QED  BY <4>2, <5>1
      <4>3. Len(t) > 1 \/ Len(t) = 1
        <5>1. t \in Seq(0 .. 2 * Group - 1) /\ Len(t) > 0
          BY <3>4 DEF WellFormed
        <5>. QED  BY <5>1, OneOrMore, Zenon
      <4>. QED  BY <4>1, <4>2, <4>3
    <3>10. WellFormed(v)
      BY <3>4, <3>6, <3>7, <3>8, <3>9 DEF WellFormed
    <3>11. v # << 0 >>
      BY <3>6
    <3>. QED  BY <3>10, <3>11 DEF v
  <2>. QED  BY <2>2, <2>3, GroupType
<1>. QED  BY <1>1

----------------------------------------------------------------------------
FromStep(s, k, f) == IF k > Len(s) THEN 0 ELSE (s[k] % Group) + Group * f[k + 1]
IsFrom(f, s) == f = [k \in 1 .. Len(s) + 1 |-> FromStep(s, k, f)]

LEMMA FromAt ==
  ASSUME NEW s, NEW f, IsFrom(f, s), NEW k \in 1 .. Len(s) + 1
  PROVE  f[k] = FromStep(s, k, f)
<1>. DEFINE g == [j \in 1 .. Len(s) + 1 |-> FromStep(s, j, f)]
<1>1. g[k] = FromStep(s, k, f)
  BY Zenon
<1>2. f = g
  BY DEF IsFrom
<1>. QED  BY <1>1, <1>2, Zenon

\* A byte more before s.
Before(x, s, t) == t = << x >> \o s

LEMMA BeforeIsShift ==
  ASSUME NEW x \in Nat, NEW s \in Seq(Nat), NEW t, Before(x, s, t)
  PROVE  /\ t \in Seq(Nat) /\ Len(t) = Len(s) + 1 /\ Len(s) \in Nat
         /\ t[1] = x
         /\ \A k \in 1 .. Len(s) : t[k + 1] = s[k]
  BY DEF Before

LEMMA FromBefore ==
  ASSUME NEW x \in Nat, NEW s \in Seq(Nat), NEW t, Before(x, s, t), NEW f, IsFrom(f, s)
  PROVE  \E g : IsFrom(g, t) /\ g[1] = (x % Group) + Group * f[1]
<1>1. /\ t \in Seq(Nat) /\ Len(t) = Len(s) + 1 /\ Len(s) \in Nat /\ t[1] = x
      /\ \A k \in 1 .. Len(s) : t[k + 1] = s[k]
  BY BeforeIsShift
<1>. DEFINE first == (x % Group) + Group * f[1]
            g == [k \in 1 .. Len(t) + 1 |-> IF k = 1 THEN first ELSE f[k - 1]]
<1>2. \A k \in 1 .. Len(t) + 1 : g[k] = IF k = 1 THEN first ELSE f[k - 1]
  BY Zenon
<1>3. g[1] = first
  BY <1>1, <1>2
<1>. HIDE DEF g, first
<1>4. ASSUME NEW k \in 1 .. Len(t) + 1 PROVE g[k] = FromStep(t, k, g)
  <2>1. CASE k = 1
    <3>1. 2 \in 1 .. Len(t) + 1 /\ 2 - 1 = 1
      BY <1>1
    <3>2. g[2] = f[1]
      BY <1>2, <3>1
    <3>3. ~(1 > Len(t)) /\ 1 + 1 = 2
      BY <1>1
    <3>. QED  BY <1>1, <1>3, <2>1, <3>2, <3>3 DEF FromStep, first
  <2>2. CASE k # 1
    <3>. DEFINE j == k - 1
    <3>1. j \in 1 .. Len(s) + 1 /\ k = j + 1 /\ g[k] = f[j]
      BY <1>1, <1>2, <2>2
    <3>. HIDE DEF j
    <3>2. f[j] = FromStep(s, j, f)
      BY <3>1, FromAt
    <3>3. CASE j > Len(s)
      <4>1. k > Len(t)
        BY <1>1, <3>1, <3>3
      <4>. QED  BY <3>1, <3>2, <3>3, <4>1 DEF FromStep
    <3>4. CASE ~(j > Len(s))
      <4>1. j \in 1 .. Len(s) /\ ~(k > Len(t)) /\ k + 1 \in 1 .. Len(t) + 1 /\ k + 1 # 1 /\ k + 1 - 1 = j + 1
        BY <1>1, <3>1, <3>4
      <4>2. t[k] = s[j]
        BY <1>1, <3>1, <4>1
      <4>3. g[k + 1] = f[j + 1]
        BY <1>2, <4>1
      <4>. QED  BY <3>1, <3>2, <3>4, <4>1, <4>2, <4>3 DEF FromStep
    <3>. QED  BY <3>3, <3>4
  <2>. QED  BY <2>1, <2>2
<1>5. IsFrom(g, t)
  <2>. DEFINE h == [k \in 1 .. Len(t) + 1 |-> FromStep(t, k, g)]
  <2>1. \A k \in 1 .. Len(t) + 1 : g[k] = h[k]
    BY <1>4
  <2>2. g = h
    BY <2>1 DEF g
  <2>. QED  BY <2>2 DEF IsFrom
<1>. QED  BY <1>3, <1>5 DEF first

LEMMA Unfolded ==
  ASSUME NEW s \in Seq(Nat), s # << >>
  PROVE  Head(s) \in Nat /\ Tail(s) \in Seq(Nat) /\ Len(Tail(s)) = Len(s) - 1 /\ Before(Head(s), Tail(s), s)
<1>1. Len(s) \in Nat \ {0} /\ Head(s) \in Nat /\ Tail(s) \in Seq(Nat) /\ Len(Tail(s)) = Len(s) - 1
  OBVIOUS
<1>. DEFINE t == << Head(s) >> \o Tail(s)
<1>2. t \in Seq(Nat) /\ Len(t) = Len(s) /\ \A i \in 1 .. Len(s) : s[i] = t[i]
  BY <1>1
<1>. HIDE DEF t
<1>3. s = t
  BY <1>2, SameSequence
<1>. QED  BY <1>1, <1>3 DEF t, Before

LEMMA FromExists == \A s \in Seq(Nat) : \E f : IsFrom(f, s)
<1>. DEFINE S == {n \in Nat : \A s \in Seq(Nat) : Len(s) = n => \E f : IsFrom(f, s)}
<1>1. 0 \in S
  <2>1. ASSUME NEW s \in Seq(Nat), Len(s) = 0 PROVE IsFrom([k \in 1 .. 1 |-> 0], s)
    BY <2>1 DEF IsFrom, FromStep
  <2>. QED  BY <2>1
<1>2. ASSUME NEW n \in Nat, n \in S PROVE n + 1 \in S
  <2>1. ASSUME NEW s \in Seq(Nat), Len(s) = n + 1 PROVE \E f : IsFrom(f, s)
    <3>1. s # << >>
      BY <2>1
    <3>2. Head(s) \in Nat /\ Tail(s) \in Seq(Nat) /\ Len(Tail(s)) = n /\ Before(Head(s), Tail(s), s)
      BY <2>1, <3>1, Unfolded
    <3>3. PICK f : IsFrom(f, Tail(s))
      BY <1>2, <3>2
    <3>. QED  BY <3>2, <3>3, FromBefore
  <2>. QED  BY <2>1
<1>. HIDE DEF S
<1>3. Nat \subseteq S
  BY <1>1, <1>2, Induction
<1>4. \A s \in Seq(Nat) : Len(s) \in Nat
  OBVIOUS
<1>. QED  BY <1>3, <1>4 DEF S

LEMMA FromsAgree ==
  ASSUME NEW s \in Seq(Nat), NEW f, IsFrom(f, s), NEW g, IsFrom(g, s)
  PROVE  f[1] = g[1]
<1>. DEFINE l == Len(s) + 1
            Bad == {j \in 0 .. l - 1 : f[l - j] # g[l - j]}
<1>0. l \in Nat /\ l >= 1
  OBVIOUS
<1>1. Bad = {}
  <2>. SUFFICES ASSUME Bad # {} PROVE FALSE
    OBVIOUS
  <2>1. PICK j \in Bad : \A i \in Bad : j <= i
    <3>1. Bad \subseteq Nat
      OBVIOUS
    <3>. QED  BY <3>1, Least
  <2>. DEFINE k == l - j
  <2>2. k \in 1 .. Len(s) + 1 /\ j \in Nat
    BY <1>0
  <2>3. f[k] = FromStep(s, k, f) /\ g[k] = FromStep(s, k, g)
    BY <2>2, FromAt
  <2>4. ~(k > Len(s)) => f[k + 1] = g[k + 1]
    <3>1. CASE ~(k > Len(s))
      <4>1. j - 1 \in 0 .. l - 1 /\ ~(j <= j - 1) /\ l - (j - 1) = k + 1
        BY <2>2, <3>1
      <4>2. j - 1 \notin Bad
        BY <2>1, <4>1
      <4>. QED  BY <4>1, <4>2
    <3>. QED  BY <3>1
  <2>5. f[k] # g[k]
    BY <2>1
  <2>. HIDE DEF k
  <2>. QED  BY <2>3, <2>4, <2>5 DEF FromStep
<1>2. 1 = l - (l - 1) /\ l - 1 \in 0 .. l - 1
  BY <1>0
<1>. HIDE DEF l
<1>. QED  BY <1>1, <1>2

\* The groups of a sequence are those of what follows its first byte, and one.
LEMMA GroupsRule ==
  /\ GroupsValue(<< >>) = 0
  /\ \A x \in Nat : \A s \in Seq(Nat) :
       GroupsValue(<< x >> \o s) = (x % Group) + Group * GroupsValue(s)
<1>. DEFINE F(s) == CHOOSE f : IsFrom(f, s)
<1>1. \A s : GroupsValue(s) = F(s)[1]
  BY Zenon DEF GroupsValue, IsFrom, FromStep
<1>2. \A s \in Seq(Nat) : IsFrom(F(s), s)
  BY FromExists
<1>. HIDE DEF F
<1>3. GroupsValue(<< >>) = 0
  <2>1. << >> \in Seq(Nat) /\ Len(<< >>) = 0 /\ 1 \in 1 .. Len(<< >>) + 1
    OBVIOUS
  <2>2. F(<< >>)[1] = FromStep(<< >>, 1, F(<< >>))
    BY <1>2, <2>1, FromAt
  <2>. QED  BY <1>1, <2>1, <2>2 DEF FromStep
<1>4. ASSUME NEW x \in Nat, NEW s \in Seq(Nat)
      PROVE  GroupsValue(<< x >> \o s) = (x % Group) + Group * GroupsValue(s)
  <2>. DEFINE t == << x >> \o s
  <2>1. Before(x, s, t) /\ t \in Seq(Nat)
    BY DEF Before
  <2>. HIDE DEF t
  <2>2. PICK g : IsFrom(g, t) /\ g[1] = (x % Group) + Group * F(s)[1]
    BY <1>2, <2>1, FromBefore
  <2>3. F(t)[1] = g[1]
    BY <1>2, <2>1, <2>2, FromsAgree
  <2>4. GroupsValue(t) = (x % Group) + Group * GroupsValue(s)
    BY <1>1, <2>2, <2>3
  <2>. QED  BY <2>4 DEF t
<1>. QED  BY <1>3, <1>4

LEMMA WellFormedText == \A s : WellFormed(s) => s \in Seq(Nat) /\ Len(s) \in Nat \ {0} /\ s # << >>
<1>. SUFFICES ASSUME NEW s, WellFormed(s) PROVE s \in Seq(Nat) /\ Len(s) \in Nat \ {0} /\ s # << >>
  OBVIOUS
<1>1. s \in Seq(Nat) /\ Len(s) > 0
  BY GroupType DEF WellFormed
<1>. QED  BY <1>1

\* What follows the first byte of a form is a form, of a number that is not 0.
LEMMA RestIsWellFormed ==
  ASSUME NEW s, WellFormed(s), Len(s) > 1
  PROVE  WellFormed(Tail(s)) /\ Tail(s) # << 0 >> /\ Head(s) \in Group .. 2 * Group - 1
<1>. DEFINE t == Tail(s)
<1>1. /\ s \in Seq(0 .. 2 * Group - 1) /\ Len(s) \in Nat
      /\ t \in Seq(0 .. 2 * Group - 1) /\ Len(t) = Len(s) - 1
      /\ \A k \in 1 .. Len(s) - 1 : t[k] = s[k + 1]
      /\ Head(s) = s[1] /\ s[1] \in 0 .. 2 * Group - 1
  <2>. DEFINE S == 0 .. 2 * Group - 1
  <2>1. s \in Seq(S) /\ Len(s) > 1
    BY DEF WellFormed
  <2>. HIDE DEF S
  <2>2. Len(s) \in Nat /\ s[1] \in S /\ t \in Seq(S) /\ Len(t) = Len(s) - 1 /\ Head(s) = s[1]
    BY <2>1
  <2>3. \A k \in 1 .. Len(s) - 1 : t[k] = s[k + 1]
    BY <2>1
  <2>. QED  BY <2>1, <2>2, <2>3 DEF S
<1>. HIDE DEF t
<1>2. \A k \in 1 .. Len(s) - 1 : s[k] >= Group
  BY DEF WellFormed
<1>3. ASSUME NEW k \in 1 .. Len(t) - 1 PROVE t[k] >= Group
  <2>1. k \in 1 .. Len(s) - 1 /\ k + 1 \in 1 .. Len(s) - 1
    BY <1>1
  <2>. QED  BY <1>1, <1>2, <2>1
<1>4. t[Len(t)] = s[Len(s)]
  <2>1. Len(t) \in 1 .. Len(s) - 1 /\ Len(t) + 1 = Len(s)
    BY <1>1
  <2>. QED  BY <1>1, <2>1
<1>5. s[Len(s)] < Group /\ s[Len(s)] # 0
  BY DEF WellFormed
<1>6. WellFormed(t)
  BY <1>1, <1>3, <1>4, <1>5 DEF WellFormed
<1>7. t # << 0 >>
  <2>. SUFFICES ASSUME t = << 0 >> PROVE FALSE
    OBVIOUS
  <2>1. Len(t) = 1 /\ t[1] = 0
    OBVIOUS
  <2>. QED  BY <1>4, <1>5, <2>1
<1>8. s[1] >= Group
  BY <1>1, <1>2
<1>9. Head(s) \in Group .. 2 * Group - 1
  <2>. DEFINE y == s[1]
  <2>1. y \in 0 .. 2 * Group - 1 /\ y >= Group /\ Head(s) = y
    BY <1>1, <1>8
  <2>. HIDE DEF y
  <2>2. y \in Group .. 2 * Group - 1
    BY <2>1, GroupType
  <2>. QED  BY <2>1, <2>2, Zenon
<1>. QED  BY <1>6, <1>7, <1>9 DEF t

LEMMA GroupsWritten == \A n \in Nat : GroupsValue(PutUvarint(n)) = n
<1>. DEFINE Bad == {n \in Nat : GroupsValue(PutUvarint(n)) # n}
<1>1. Bad = {}
  <2>. SUFFICES ASSUME Bad # {} PROVE FALSE
    OBVIOUS
  <2>1. PICK n \in Bad : \A i \in Bad : n <= i
    BY Least, Bad \subseteq Nat
  <2>. DEFINE q == n \div Group  r == n % Group
  <2>0. n \in Nat /\ q \in Nat /\ r \in 0 .. Group - 1 /\ n = Group * q + r /\ (n >= Group => q \in 1 .. n - 1)
    BY GroupsOf
  <2>2. CASE n < Group
    <3>1. PutUvarint(n) = << n >>
      BY <2>0, <2>2, PutRule, Zenon
    <3>2. << n >> = << n >> \o << >> /\ << >> \in Seq(Nat)
      OBVIOUS
    <3>3. GroupsValue(<< n >>) = (n % Group) + Group * 0
      BY <2>0, <3>2, GroupsRule
    <3>4. (n % Group) + Group * 0 = n
      BY <2>0, <2>2, GroupType, GroupsUnique, Group * 0 + n = n
    <3>. QED  BY <2>1, <3>1, <3>3, <3>4
  <2>3. CASE n >= Group
    <3>. DEFINE t == PutUvarint(q)  x == Group + r
    <3>1. PutUvarint(n) = << x >> \o t
      <4>1. ~(n < Group)
        BY <2>0, <2>3, GroupType
      <4>. QED  BY <2>0, <4>1, PutRule, Zenon
    <3>2. t \in Seq(Nat)
      BY <2>0, PutIsWellFormed, WellFormedText
    <3>3. GroupsValue(t) = q
      <4>1. q \in Nat /\ ~(n <= q)
        BY <2>0, <2>3
      <4>2. q \notin Bad
        BY <2>1, <4>1
      <4>. QED  BY <4>1, <4>2
    <3>4. x \in Nat /\ x = Group * 1 + r
      BY <2>0, GroupType
    <3>5. x % Group = r
      BY <2>0, <3>4, GroupsUnique
    <3>. HIDE DEF t, x
    <3>6. GroupsValue(<< x >> \o t) = (x % Group) + Group * GroupsValue(t)
      BY <3>2, <3>4, GroupsRule
    <3>7. GroupsValue(PutUvarint(n)) = r + Group * q
      BY <3>1, <3>3, <3>5, <3>6
    <3>8. r + Group * q = n
      BY <2>0, GroupType
    <3>. QED  BY <2>1, <3>7, <3>8
  <2>. QED  BY <2>0, <2>2, <2>3, GroupType
<1>. QED  BY <1>1

\* A form is the only one of its number.
LEMMA FormIsWritten ==
  \A s : WellFormed(s) => /\ GroupsValue(s) \in Nat /\ PutUvarint(GroupsValue(s)) = s
                          /\ s # << 0 >> => GroupsValue(s) > 0
<1>. DEFINE Good(s) == /\ GroupsValue(s) \in Nat /\ PutUvarint(GroupsValue(s)) = s
                       /\ s # << 0 >> => GroupsValue(s) > 0
            S == {n \in Nat : \A s : WellFormed(s) /\ Len(s) = n => Good(s)}
<1>1. 0 \in S
  BY WellFormedText
<1>2. ASSUME NEW n \in Nat, n \in S PROVE n + 1 \in S
  <2>1. ASSUME NEW s, WellFormed(s), Len(s) = n + 1 PROVE Good(s)
    <3>. DEFINE x == Head(s)  t == Tail(s)
    <3>1. s \in Seq(Nat) /\ s # << >>
      BY <2>1, WellFormedText
    <3>2. x \in Nat /\ t \in Seq(Nat) /\ Len(t) = n /\ s = << x >> \o t
      BY <2>1, <3>1, Unfolded DEF Before
    <3>3. GroupsValue(s) = (x % Group) + Group * GroupsValue(t)
      BY <3>2, GroupsRule
    <3>4. CASE n = 0
      <4>1. s[1] < Group /\ x = s[1] /\ t = << >>
        BY <2>1, <3>1, <3>2, <3>4 DEF WellFormed
      <4>2. Group * 0 + x = x /\ x \in 0 .. Group - 1 /\ Group * 0 = 0
        BY <3>2, <4>1, GroupType
      <4>3. x % Group = x
        BY <4>2, GroupsUnique, 0 \in Nat
      <4>. HIDE DEF x, t
      <4>4. GroupsValue(s) = x
        <5>1. GroupsValue(t) = 0
          BY <4>1, GroupsRule
        <5>. QED  BY <3>2, <3>3, <4>2, <4>3, <5>1
      <4>5. PutUvarint(x) = << x >>
        BY <3>2, <4>1, PutRule, Zenon
      <4>6. s = << x >>
        BY <3>2, <4>1
      <4>7. s # << 0 >> => x > 0
        <5>1. s # << 0 >> => x # 0
          BY <4>6
        <5>. QED  BY <3>2, <5>1
      <4>. QED  BY <3>2, <4>4, <4>5, <4>6, <4>7
    <3>5. CASE n # 0
      <4>1. WellFormed(t) /\ t # << 0 >> /\ x \in Group .. 2 * Group - 1
        BY <2>1, <3>5, RestIsWellFormed
      <4>. DEFINE q == GroupsValue(t)  r == x - Group
      <4>2. q \in Nat /\ PutUvarint(q) = t /\ q > 0
        BY <1>2, <3>2, <4>1
      <4>3. r \in 0 .. Group - 1 /\ x = Group * 1 + r /\ 1 \in Nat
        BY <4>1, GroupType
      <4>4. x % Group = r
        BY <4>3, GroupsUnique
      <4>. DEFINE m == Group * q + r
      <4>. HIDE DEF q, r, t, x
      <4>5. GroupsValue(s) = m
        BY <3>3, <4>2, <4>3, <4>4, GroupType DEF q
      <4>6. m \div Group = q /\ m % Group = r
        BY <4>2, <4>3, GroupsUnique
      <4>7. m \in Nat /\ m >= Group
        <5>1. Group * q >= Group
          BY <4>2, GroupType
        <5>2. Group * q \in Nat
          BY <4>2, GroupType
        <5>. QED  BY <4>3, <5>1, <5>2, GroupType
      <4>. HIDE DEF m
      <4>8. PutUvarint(m) = << Group + (m % Group) >> \o PutUvarint(m \div Group)
        <5>1. ~(m < Group)
          BY <4>7, GroupType
        <5>. QED  BY <4>7, <5>1, PutRule, Zenon
      <4>9. Group + r = x
        BY <4>3, GroupType
      <4>10. PutUvarint(m) = s
        BY <3>2, <4>2, <4>6, <4>8, <4>9
      <4>. QED  BY <4>5, <4>7, <4>10, GroupType
    <3>. QED  BY <3>4, <3>5
  <2>. QED  BY <2>1
<1>. HIDE DEF S
<1>3. Nat \subseteq S
  BY <1>1, <1>2, Induction
<1>. QED  BY <1>3, WellFormedText DEF S

----------------------------------------------------------------------------
Grouping(k, before) == Group * before
IsGroupings(f) == f = [n \in 0 .. MaxGroups |-> IF n = 0 THEN 1 ELSE Group * f[n - 1]]

LEMMA GroupingsRule ==
  /\ Groupings[0] = 1
  /\ \A j \in 0 .. MaxGroups : Groupings[j] \in Nat \ {0}
  /\ \A j \in 1 .. MaxGroups : Groupings[j] = Group * Groupings[j - 1]
<1>. DEFINE step == [k \in 1 .. MaxGroups |-> [x \in Nat |-> Group * x]]
<1>1. MaxGroups \in Nat
  BY VarintAssumption
<1>2. step \in [1 .. MaxGroups -> [Nat -> Nat]]
  BY GroupType
<1>3. \A k \in 1 .. MaxGroups : \A x \in Nat : step[k][x] = Group * x
  OBVIOUS
<1>. HIDE DEF step
<1>4. PICK f : Iterates(f, MaxGroups, Nat, 1, step)
  BY <1>1, <1>2, Iteration, 1 \in Nat
<1>5. f \in [0 .. MaxGroups -> Nat] /\ f[0] = 1 /\ \A k \in 1 .. MaxGroups : f[k] = Group * f[k - 1]
  <2>1. f \in [0 .. MaxGroups -> Nat] /\ f[0] = 1 /\ \A k \in 1 .. MaxGroups : f[k] = step[k][f[k - 1]]
    BY <1>4 DEF Iterates
  <2>2. \A k \in 1 .. MaxGroups : f[k - 1] \in Nat
    BY <1>1, <2>1
  <2>. QED  BY <1>3, <2>1, <2>2
<1>6. IsGroupings(f)
  <2>. DEFINE g == [n \in 0 .. MaxGroups |-> IF n = 0 THEN 1 ELSE Group * f[n - 1]]
  <2>1. \A n \in 0 .. MaxGroups : f[n] = g[n]
    BY <1>1, <1>5
  <2>2. f = g
    BY <1>5, <2>1
  <2>. QED  BY <2>2 DEF IsGroupings
<1>7. IsGroupings(Groupings)
  BY <1>6, Zenon DEF Groupings, IsGroupings
<1>. DEFINE G == Groupings
<1>. HIDE DEF G
<1>8. \A n \in 0 .. MaxGroups : G[n] = IF n = 0 THEN 1 ELSE Group * G[n - 1]
  <2>. DEFINE g == [n \in 0 .. MaxGroups |-> IF n = 0 THEN 1 ELSE Group * G[n - 1]]
  <2>1. G = g
    BY <1>7 DEF IsGroupings, G
  <2>2. \A n \in 0 .. MaxGroups : g[n] = IF n = 0 THEN 1 ELSE Group * G[n - 1]
    BY Zenon
  <2>. QED  BY <2>1, <2>2, Zenon
<1>9. G[0] = 1 /\ \A j \in 1 .. MaxGroups : G[j] = Group * G[j - 1]
  BY <1>1, <1>8
<1>. DEFINE S == {j \in 0 .. MaxGroups : G[j] \in Nat \ {0}}
<1>10. 0 \in S
  BY <1>1, <1>9
<1>11. ASSUME NEW j \in 0 .. MaxGroups - 1, j \in S PROVE j + 1 \in S
  <2>1. j + 1 \in 1 .. MaxGroups /\ j + 1 - 1 = j
    BY <1>1
  <2>2. G[j + 1] = Group * G[j] /\ G[j] \in Nat \ {0}
    BY <1>9, <1>11, <2>1
  <2>3. \A x \in Nat \ {0} : Group * x \in Nat \ {0}
    <3>1. ASSUME NEW x \in Nat \ {0} PROVE Group * x >= x
      BY GroupType
    <3>. QED  BY <3>1, GroupType
  <2>. QED  BY <2>1, <2>2, <2>3
<1>12. 0 .. MaxGroups \subseteq S
  <2>. HIDE DEF S
  <2>. QED  BY <1>1, <1>10, <1>11, InductionUpTo
<1>. QED  BY <1>9, <1>12 DEF G

LEMMA DivideBelow ==
  ASSUME NEW n \in Nat, NEW p \in Nat, n < Group * p
  PROVE  n \div Group < p
<1>. DEFINE q == n \div Group
<1>1. q \in Nat /\ Group * q <= n
  <2>1. n \div Group \in Nat /\ n % Group \in 0 .. Group - 1 /\ n = Group * (n \div Group) + (n % Group)
    BY GroupsOf
  <2>. DEFINE r == n % Group
  <2>2. q \in Nat /\ r \in 0 .. Group - 1 /\ n = Group * q + r
    BY <2>1
  <2>. HIDE DEF q, r
  <2>. QED  BY <2>2, GroupType
<1>. HIDE DEF q
<1>2. ~(q >= p)
  <2>. SUFFICES ASSUME q >= p PROVE FALSE
    OBVIOUS
  <2>1. PICK d \in Nat : q = p + d
    BY <1>1, q - p \in Nat /\ q = p + (q - p)
  <2>2. Group * q = Group * p + Group * d /\ Group * d >= 0
    BY <2>1, GroupType
  <2>3. Group * q \in Int /\ Group * p \in Int /\ Group * d \in Int
    BY <1>1, <2>1, GroupType
  <2>. QED  BY <1>1, <2>2, <2>3
<1>3. q < p
  BY <1>1, <1>2
<1>. QED  BY <1>3 DEF q

\* A number with few groups has a short form.
Fits(n, j) ==
  LET s == PutUvarint(n)
  IN  Len(s) <= j + 1 /\ (Len(s) = j + 1 => s[j + 1] <= MaxTop)

LEMMA NumbersFit ==
  \A j \in 0 .. MaxGroups - 1 : \A n \in Nat : n < (MaxTop + 1) * Groupings[j] => Fits(n, j)
<1>. DEFINE S == {j \in Nat : j <= MaxGroups - 1 => \A n \in Nat : n < (MaxTop + 1) * Groupings[j] => Fits(n, j)}
<1>0. MaxGroups \in Nat \ {0} /\ MaxTop + 1 \in Nat /\ MaxTop < Group /\ MaxTop \in Nat
  BY GroupType, VarintAssumption
<1>1. 0 \in S
  <2>1. ASSUME NEW n \in Nat, n < (MaxTop + 1) * Groupings[0] PROVE Fits(n, 0)
    <3>1. (MaxTop + 1) * Groupings[0] = MaxTop + 1
      BY <1>0, GroupingsRule
    <3>2. n <= MaxTop /\ n < Group
      BY <1>0, <2>1, <3>1, GroupType
    <3>3. PutUvarint(n) = << n >>
      BY <3>2, PutRule, Zenon
    <3>. QED  BY <3>2, <3>3 DEF Fits
  <2>. QED  BY <2>1
<1>2. ASSUME NEW j \in Nat, j \in S PROVE j + 1 \in S
  <2>1. ASSUME j + 1 <= MaxGroups - 1, NEW n \in Nat, n < (MaxTop + 1) * Groupings[j + 1] PROVE Fits(n, j + 1)
    <3>1. CASE n < Group
      <4>1. PutUvarint(n) = << n >>
        BY <3>1, PutRule, Zenon
      <4>2. Len(<< n >>) = 1 /\ 1 <= j + 1 + 1 /\ 1 # j + 1 + 1
        OBVIOUS
      <4>. QED  BY <4>1, <4>2 DEF Fits
    <3>2. CASE ~(n < Group)
      <4>. DEFINE q == n \div Group  t == PutUvarint(q)  x == Group + (n % Group)  P == (MaxTop + 1) * Groupings[j]
      <4>1. PutUvarint(n) = << x >> \o t
        BY <3>2, PutRule, Zenon
      <4>2. q \in Nat /\ n % Group \in 0 .. Group - 1
        BY GroupsOf
      <4>3. j + 1 \in 1 .. MaxGroups /\ j \in 0 .. MaxGroups /\ j + 1 - 1 = j /\ j <= MaxGroups - 1
        BY <1>0, <2>1
      <4>4. P \in Nat /\ n < Group * P
        <5>1. Groupings[j + 1] = Group * Groupings[j] /\ Groupings[j] \in Nat
          BY <4>3, GroupingsRule
        <5>2. P \in Nat
          BY <1>0, <5>1
        <5>3. ASSUME NEW a \in Nat, NEW b \in Nat PROVE a * (Group * b) = Group * (a * b)
          BY GroupType
        <5>4. (MaxTop + 1) * (Group * Groupings[j]) = Group * P
          BY <1>0, <5>1, <5>3
        <5>. QED  BY <2>1, <5>1, <5>2, <5>4
      <4>. HIDE DEF P
      <4>5. q < P
        BY <4>4, DivideBelow
      <4>. HIDE DEF q
      <4>6. Fits(q, j)
        BY <1>2, <4>2, <4>3, <4>5 DEF P
      <4>7. t \in Seq(Nat) /\ x \in Nat
        BY <4>2, PutIsWellFormed, WellFormedText, GroupType
      <4>. HIDE DEF t, x
      <4>8. Before(x, t, PutUvarint(n))
        BY <4>1 DEF Before
      <4>. DEFINE v == PutUvarint(n)
      <4>. HIDE DEF v
      <4>9. Len(v) = Len(t) + 1 /\ Len(t) \in Nat /\ \A k \in 1 .. Len(t) : v[k + 1] = t[k]
        BY <4>7, <4>8, BeforeIsShift DEF v
      <4>10. Len(t) <= j + 1 /\ (Len(t) = j + 1 => t[j + 1] <= MaxTop)
        BY <4>6 DEF Fits, t
      <4>11. Len(v) <= j + 1 + 1
        BY <4>9, <4>10
      <4>12. ASSUME Len(v) = j + 1 + 1 PROVE v[j + 1 + 1] <= MaxTop
        <5>1. Len(t) = j + 1 /\ j + 1 \in 1 .. Len(t)
          BY <4>9, <4>12
        <5>. QED  BY <4>9, <4>10, <5>1
      <4>. QED  BY <4>11, <4>12 DEF Fits, v
    <3>. QED  BY <3>1, <3>2
  <2>. QED  BY <2>1
<1>. HIDE DEF S
<1>3. Nat \subseteq S
  BY <1>1, <1>2, Induction
<1>4. \A j \in 0 .. MaxGroups - 1 : j \in Nat /\ j <= MaxGroups - 1
  BY <1>0
<1>. QED  BY <1>3, <1>4 DEF S

Ends(s) == {k \in (1 .. MaxGroups) \cap DOMAIN s : s[k] < Group}

\* The first byte that ends a number.
IsEnd(s, e) == e \in Ends(s) /\ \A k \in Ends(s) : e <= k

LEMMA EndIsMin ==
  ASSUME NEW s, NEW e, IsEnd(s, e)
  PROVE  Min(Ends(s)) = e
<1>1. Ends(s) \subseteq Nat
  BY DEF Ends
<1>2. Min(Ends(s)) \in Ends(s) /\ \A k \in Ends(s) : Min(Ends(s)) <= k
  BY DEF Min, IsEnd
<1>. QED  BY <1>1, <1>2 DEF IsEnd

LEMMA EndExists ==
  ASSUME NEW s, Ends(s) # {}
  PROVE  \E e : IsEnd(s, e)
<1>1. Ends(s) \subseteq Nat
  BY DEF Ends
<1>. QED  BY <1>1, Least DEF IsEnd

LEMMA ReadsTo ==
  ASSUME NEW s, NEW e, IsEnd(s, e)
  PROVE  ReadUvarint(s) = IF IsMinimal(s, e) /\ (e = MaxGroups => s[e] <= MaxTop)
                          THEN [error |-> "Ok", value |-> GroupsValue(SubSeq(s, 1, e)), length |-> e]
                          ELSE InvalidVarint
<1>1. Ends(s) # {} /\ Min(Ends(s)) = e
  BY EndIsMin DEF IsEnd
<1>. QED  BY <1>1, Zenon DEF ReadUvarint, Ends

\* What is read is the form of the number that it is read as.
LEMMA ReadIsWritten ==
  ASSUME NEW s \in Seq(Byte), ReadUvarint(s).error = "Ok"
  PROVE  /\ PutUvarint(ReadUvarint(s).value) = SubSeq(s, 1, ReadUvarint(s).length)
         /\ ReadUvarint(s).length \in 1 .. Len(s)
<1>1. Ends(s) # {}
  <2>1. InvalidVarint.error # "Ok" /\ [InvalidVarint EXCEPT !.error = "UnexpectedEnd"].error # "Ok"
    BY DEF InvalidVarint
  <2>2. Ends(s) = {} => ReadUvarint(s) = InvalidVarint \/ ReadUvarint(s) = [InvalidVarint EXCEPT !.error = "UnexpectedEnd"]
    BY Zenon DEF ReadUvarint, Ends
  <2>. QED  BY <2>1, <2>2
<1>2. PICK e : IsEnd(s, e)
  BY <1>1, EndExists
<1>3. IsMinimal(s, e) /\ ReadUvarint(s).value = GroupsValue(SubSeq(s, 1, e)) /\ ReadUvarint(s).length = e
  <2>1. InvalidVarint.error # "Ok"
    BY DEF InvalidVarint
  <2>. QED  BY <1>2, <2>1, ReadsTo
<1>. DEFINE t == SubSeq(s, 1, e)
<1>4. /\ e \in 1 .. Len(s) /\ Len(s) \in Nat /\ e <= MaxGroups /\ s[e] < Group
      /\ \A k \in 1 .. e - 1 : ~(s[k] < Group)
  <2>1. DOMAIN s = 1 .. Len(s) /\ Len(s) \in Nat /\ MaxGroups \in Nat
    BY VarintAssumption
  <2>2. e \in 1 .. Len(s) /\ e <= MaxGroups /\ s[e] < Group
    BY <1>2, <2>1 DEF IsEnd, Ends
  <2>3. ASSUME NEW k \in 1 .. e - 1 PROVE ~(s[k] < Group)
    <3>1. k \in (1 .. MaxGroups) \cap DOMAIN s /\ ~(e <= k)
      BY <2>1, <2>2
    <3>. QED  BY <1>2, <3>1 DEF IsEnd, Ends
  <2>. QED  BY <2>1, <2>2, <2>3
<1>5. t \in Seq(Byte) /\ Len(t) = e /\ \A k \in 1 .. e : t[k] = s[k] /\ s[k] \in Byte
  BY <1>4
<1>6. Byte = 0 .. 2 * Group - 1
  BY WireAssumption DEF Byte
<1>. HIDE DEF t
<1>7. WellFormed(t)
  <2>1. \A k \in 1 .. Len(t) - 1 : t[k] >= Group
    <3>1. ASSUME NEW k \in 1 .. Len(t) - 1 PROVE t[k] >= Group
      <4>1. k \in 1 .. e - 1 /\ k \in 1 .. e
        BY <1>4, <1>5
      <4>2. t[k] \in 0 .. 2 * Group - 1 /\ ~(t[k] < Group)
        BY <1>4, <1>5, <1>6, <4>1
      <4>. QED  BY <4>2, GroupType
    <3>. QED  BY <3>1
  <2>2. t[Len(t)] = s[e] /\ t[Len(t)] < Group
    BY <1>4, <1>5
  <2>3. Len(t) > 1 => t[Len(t)] # 0
    BY <1>3, <1>4, <1>5, <2>2 DEF IsMinimal
  <2>4. t \in Seq(0 .. 2 * Group - 1) /\ Len(t) > 0
    BY <1>4, <1>5, <1>6
  <2>. QED  BY <2>1, <2>2, <2>3, <2>4 DEF WellFormed
<1>8. PutUvarint(ReadUvarint(s).value) = SubSeq(s, 1, ReadUvarint(s).length)
  BY <1>3, <1>7, FormIsWritten DEF t
<1>. QED  BY <1>3, <1>4, <1>8

\* What is written is read for what it is.
LEMMA WrittenIsRead ==
  ASSUME NEW n \in 0 .. LargestVarint, NEW s \in Seq(Byte)
  PROVE  ReadUvarint(PutUvarint(n) \o s) = [error |-> "Ok", value |-> n, length |-> Len(PutUvarint(n))]
<1>. DEFINE v == PutUvarint(n)  t == v \o s  e == Len(v)
<1>1. LargestVarint \in Int /\ n \in Nat /\ n < (MaxTop + 1) * Groupings[MaxGroups - 1] /\ MaxGroups - 1 \in 0 .. MaxGroups - 1
  <2>1. MaxGroups - 1 \in 0 .. MaxGroups /\ MaxGroups - 1 \in 0 .. MaxGroups - 1
    BY VarintAssumption
  <2>. DEFINE P == (MaxTop + 1) * Groupings[MaxGroups - 1]
  <2>2. P \in Nat
    <3>1. Groupings[MaxGroups - 1] \in Nat /\ MaxTop + 1 \in Nat
      BY <2>1, GroupingsRule, GroupType
    <3>. QED  BY <3>1
  <2>3. LargestVarint = P - 1
    BY DEF LargestVarint
  <2>. HIDE DEF P
  <2>4. LargestVarint \in Int /\ n \in Nat /\ n < P
    BY <2>2, <2>3
  <2>. QED  BY <2>1, <2>4 DEF P
<1>2. Fits(n, MaxGroups - 1)
  BY <1>1, NumbersFit
<1>3. WellFormed(v) /\ GroupsValue(v) = n
  BY <1>1, PutIsWellFormed, GroupsWritten
<1>4. v \in Seq(Nat) /\ e \in Nat \ {0} /\ v \in Seq(Byte)
  <2>1. Byte = 0 .. 2 * Group - 1
    BY WireAssumption DEF Byte
  <2>. QED  BY <1>3, <2>1, WellFormedText DEF WellFormed
<1>5. e <= MaxGroups /\ (e = MaxGroups => v[e] <= MaxTop)
  <2>1. MaxGroups - 1 + 1 = MaxGroups
    BY VarintAssumption
  <2>2. Len(v) <= MaxGroups /\ (Len(v) = MaxGroups => v[MaxGroups] <= MaxTop)
    BY <1>2, <2>1 DEF Fits
  <2>. QED  BY <2>2
<1>6. v[e] < Group /\ (\A k \in 1 .. e - 1 : v[k] >= Group) /\ (e > 1 => v[e] # 0)
  BY <1>3 DEF WellFormed
<1>. HIDE DEF v
<1>7. /\ t \in Seq(Byte) /\ Len(t) = e + Len(s) /\ Len(s) \in Nat /\ SubSeq(t, 1, e) = v
      /\ \A k \in 1 .. e : t[k] = v[k]
  <2>1. t \in Seq(Byte) /\ Len(t) = e + Len(s) /\ Len(s) \in Nat /\ \A k \in 1 .. e : t[k] = v[k]
    BY <1>4
  <2>. DEFINE b == SubSeq(t, 1, e)
  <2>2. b \in Seq(Byte) /\ Len(b) = e /\ \A k \in 1 .. e : b[k] = t[k]
    BY <1>4, <2>1
  <2>3. b = v
    BY <1>4, <2>1, <2>2, SameSequence
  <2>. QED  BY <2>1, <2>3
<1>. HIDE DEF t
<1>8. IsEnd(t, e)
  <2>1. e \in Ends(t)
    <3>1. e \in 1 .. MaxGroups /\ e \in DOMAIN t /\ t[e] = v[e]
      <4>1. DOMAIN t = 1 .. Len(t) /\ MaxGroups \in Nat
        BY <1>7, VarintAssumption
      <4>. HIDE DEF e
      <4>2. e \in 1 .. Len(t) /\ e \in 1 .. e /\ e \in 1 .. MaxGroups
        BY <1>4, <1>5, <1>7, <4>1
      <4>. QED  BY <1>7, <4>1, <4>2
    <3>. QED  BY <1>6, <3>1 DEF Ends
  <2>2. ASSUME NEW k \in Ends(t) PROVE e <= k
    <3>1. k \in 1 .. MaxGroups /\ t[k] < Group
      BY <2>2 DEF Ends
    <3>2. ASSUME ~(e <= k) PROVE FALSE
      <4>1. k \in 1 .. e - 1 /\ k \in 1 .. e
        BY <1>4, <3>1, <3>2
      <4>2. v[k] < Group /\ v[k] >= Group /\ v[k] \in Nat
        BY <1>4, <1>6, <1>7, <3>1, <4>1
      <4>. QED  BY <4>2, GroupType
    <3>. QED  BY <3>2
  <2>. QED  BY <2>1, <2>2 DEF IsEnd
<1>9. IsMinimal(t, e) /\ (e = MaxGroups => t[e] <= MaxTop)
  <2>1. t[e] = v[e]
    BY <1>4, <1>7
  <2>. QED  BY <1>5, <1>6, <2>1 DEF IsMinimal
<1>. HIDE DEF e
<1>10. ReadUvarint(t) = [error |-> "Ok", value |-> GroupsValue(SubSeq(t, 1, e)), length |-> e]
  BY <1>8, <1>9, ReadsTo
<1>. QED  BY <1>3, <1>7, <1>10 DEF t, v, e

----------------------------------------------------------------------------
(* The digits of a number.                                                 *)

\* n is q times b and r.
IsDivided(n, b, q, r) ==
  q \in Nat /\ r \in 0 .. b - 1 /\ n = b * q + r /\ q <= n /\ (n > 0 => q < n)

LEMMA DivideBy ==
  ASSUME NEW b \in Nat, b >= 2, NEW n \in Nat
  PROVE  IsDivided(n, b, n \div b, n % b)
<1>. DEFINE q == n \div b  r == n % b
<1>1. q \in Nat /\ r \in 0 .. b - 1 /\ n = b * q + r
  OBVIOUS
<1>. HIDE DEF q, r
<1>2. b * q >= 2 * q
  BY <1>1
<1>3. q <= n /\ (n > 0 => q < n)
  BY <1>1, <1>2
<1>. QED  BY <1>1, <1>3 DEF q, r, IsDivided

DigitStep(b, m, f) == IF m = 0 THEN << >> ELSE Append(f[m \div b], m % b)
AreDigits(f, b, n) == f = [m \in 0 .. n |-> DigitStep(b, m, f)]

LEMMA DigitsAt ==
  ASSUME NEW b, NEW n, NEW f, AreDigits(f, b, n), NEW m \in 0 .. n
  PROVE  f[m] = DigitStep(b, m, f)
<1>. DEFINE g == [k \in 0 .. n |-> DigitStep(b, k, f)]
<1>1. g[m] = DigitStep(b, m, f)
  BY Zenon
<1>2. f = g
  BY DEF AreDigits
<1>. QED  BY <1>1, <1>2, Zenon

LEMMA DigitsExist ==
  ASSUME NEW b \in Nat, b >= 2
  PROVE  \A n \in Nat : \E f : AreDigits(f, b, n)
<1>. DEFINE S == {n \in Nat : \E f : AreDigits(f, b, n)}
<1>1. 0 \in S
  <2>. DEFINE f == [m \in 0 .. 0 |-> << >>]  g == [m \in 0 .. 0 |-> DigitStep(b, m, f)]
  <2>1. \A m \in 0 .. 0 : f[m] = g[m]
    BY DEF DigitStep
  <2>2. f = g
    BY <2>1
  <2>. QED  BY <2>2 DEF AreDigits
<1>2. ASSUME NEW n \in Nat, n \in S PROVE n + 1 \in S
  <2>1. PICK f : AreDigits(f, b, n)
    BY <1>2
  <2>. DEFINE g == [m \in 0 .. n + 1 |-> DigitStep(b, m, f)]
  <2>2. \A m \in 0 .. n : g[m] = f[m]
    BY <2>1, DigitsAt
  <2>3. ASSUME NEW m \in 0 .. n + 1, m # 0 PROVE m \div b \in 0 .. n
    BY <2>3, DivideBy DEF IsDivided
  <2>4. ASSUME NEW m \in 0 .. n + 1 PROVE g[m] = DigitStep(b, m, g)
    <3>1. g[m] = DigitStep(b, m, f)
      BY Zenon
    <3>. HIDE DEF g
    <3>2. m # 0 => g[m \div b] = f[m \div b]
      BY <2>2, <2>3
    <3>. QED  BY <3>1, <3>2 DEF DigitStep
  <2>5. AreDigits(g, b, n + 1)
    <3>. DEFINE h == [m \in 0 .. n + 1 |-> DigitStep(b, m, g)]
    <3>1. \A m \in 0 .. n + 1 : g[m] = h[m]
      BY <2>4
    <3>2. g = h
      BY <3>1
    <3>. QED  BY <3>2 DEF AreDigits
  <2>. QED  BY <2>5
<1>. HIDE DEF S
<1>3. Nat \subseteq S
  BY <1>1, <1>2, Induction
<1>. QED  BY <1>3 DEF S

LEMMA DigitsAgree ==
  ASSUME NEW b \in Nat, b >= 2, NEW n \in Nat, NEW k \in Nat, NEW f, AreDigits(f, b, n),
         NEW g, AreDigits(g, b, k), NEW m \in 0 .. n, m <= k
  PROVE  f[m] = g[m]
<1>. DEFINE Bad == {j \in 0 .. n : j <= k /\ f[j] # g[j]}
<1>1. Bad = {}
  <2>. SUFFICES ASSUME Bad # {} PROVE FALSE
    OBVIOUS
  <2>1. PICK j \in Bad : \A i \in Bad : j <= i
    BY Least, Bad \subseteq Nat
  <2>2. j \in 0 .. n /\ j \in 0 .. k /\ j \in Nat
    OBVIOUS
  <2>3. f[j] = DigitStep(b, j, f) /\ g[j] = DigitStep(b, j, g)
    BY <2>2, DigitsAt
  <2>4. j # 0 => f[j \div b] = g[j \div b]
    <3>1. j # 0 => j \div b \in 0 .. n /\ j \div b <= k /\ ~(j <= j \div b)
      BY <2>2, DivideBy DEF IsDivided
    <3>. QED  BY <2>1, <3>1
  <2>5. DigitStep(b, j, f) = DigitStep(b, j, g)
    BY <2>4 DEF DigitStep
  <2>. QED  BY <2>3, <2>5
<1>. QED  BY <1>1

LEMMA DigitsRule ==
  ASSUME NEW b \in Nat, b >= 2, NEW n \in Nat
  PROVE  DigitsIn(b, n) = IF n = 0 THEN << >> ELSE Append(DigitsIn(b, n \div b), n % b)
<1>. DEFINE F(k) == CHOOSE f : AreDigits(f, b, k)
<1>1. \A k \in Nat : DigitsIn(b, k) = F(k)[k]
  BY Zenon DEF DigitsIn, AreDigits, DigitStep
<1>2. \A k \in Nat : AreDigits(F(k), b, k)
  BY DigitsExist
<1>. HIDE DEF F
<1>3. F(n)[n] = DigitStep(b, n, F(n))
  BY <1>2, DigitsAt
<1>4. ASSUME n # 0 PROVE F(n)[n \div b] = F(n \div b)[n \div b]
  <2>. DEFINE q == n \div b
  <2>1. q \in Nat /\ q \in 0 .. n /\ q <= q
    BY DivideBy DEF IsDivided
  <2>. HIDE DEF q
  <2>2. F(n)[q] = F(q)[q]
    BY <1>2, <2>1, DigitsAgree
  <2>. QED  BY <2>2 DEF q
<1>5. n \div b \in Nat
  BY DivideBy DEF IsDivided
<1>. QED  BY <1>1, <1>3, <1>4, <1>5 DEF DigitStep

\* Digits without a zero before them.
IsBare(d, b) == d \in Seq(0 .. b - 1) /\ (Len(d) > 0 => d[1] # 0)

LEMMA BareGrows ==
  ASSUME NEW b \in Nat, NEW d, IsBare(d, b), NEW x \in 0 .. b - 1, Len(d) > 0 \/ x # 0
  PROVE  IsBare(Append(d, x), b) /\ Len(Append(d, x)) > 0
<1>1. /\ d \in Seq(0 .. b - 1) /\ Append(d, x) \in Seq(0 .. b - 1) /\ Len(Append(d, x)) = Len(d) + 1
      /\ Len(d) \in Nat
  BY DEF IsBare
<1>2. Append(d, x)[1] = IF Len(d) > 0 THEN d[1] ELSE x
  BY <1>1
<1>. QED  BY <1>1, <1>2 DEF IsBare

LEMMA DigitsType ==
  ASSUME NEW b \in Nat, b >= 2
  PROVE  \A n \in Nat : IsBare(DigitsIn(b, n), b) /\ (n > 0 => Len(DigitsIn(b, n)) > 0)
<1>. DEFINE Good(n) == IsBare(DigitsIn(b, n), b) /\ (n > 0 => Len(DigitsIn(b, n)) > 0)
            Bad == {n \in Nat : ~Good(n)}
<1>1. Bad = {}
  <2>. SUFFICES ASSUME Bad # {} PROVE FALSE
    OBVIOUS
  <2>1. PICK n \in Bad : \A i \in Bad : n <= i
    BY Least, Bad \subseteq Nat
  <2>. DEFINE q == n \div b  r == n % b
  <2>2. n # 0
    <3>1. DigitsIn(b, 0) = << >>
      BY DigitsRule
    <3>2. << >> \in Seq(0 .. b - 1) /\ Len(<< >>) = 0
      OBVIOUS
    <3>3. IsBare(<< >>, b)
      BY <3>2 DEF IsBare
    <3>4. Good(0)
      BY <3>1, <3>3
    <3>. QED  BY <3>4
  <2>3. q \in Nat /\ r \in 0 .. b - 1 /\ n = b * q + r /\ q < n
    <3>1. n \in Nat /\ n > 0
      BY <2>2
    <3>2. IsDivided(n, b, q, r)
      BY <3>1, DivideBy
    <3>. HIDE DEF q, r
    <3>. QED  BY <3>1, <3>2 DEF IsDivided
  <2>4. Good(q)
    BY <2>1, <2>3
  <2>5. DigitsIn(b, n) = Append(DigitsIn(b, q), r)
    BY <2>2, DigitsRule
  <2>6. q > 0 \/ r # 0
    <3>. HIDE DEF q, r
    <3>. QED  BY <2>2, <2>3
  <2>. HIDE DEF q, r
  <2>7. IsBare(Append(DigitsIn(b, q), r), b) /\ Len(Append(DigitsIn(b, q), r)) > 0
    BY <2>3, <2>4, <2>6, BareGrows
  <2>. QED  BY <2>5, <2>7
<1>. QED  BY <1>1

LEMMA AppendedSame ==
  ASSUME NEW S, NEW s \in Seq(S), NEW t \in Seq(S), NEW x \in S, NEW y \in S, Append(s, x) = Append(t, y)
  PROVE  s = t /\ x = y
<1>. DEFINE u == Append(s, x)  v == Append(t, y)
<1>1. /\ Len(u) = Len(s) + 1 /\ Len(v) = Len(t) + 1 /\ u[Len(s) + 1] = x /\ v[Len(t) + 1] = y
      /\ \A i \in 1 .. Len(s) : u[i] = s[i]
      /\ \A i \in 1 .. Len(t) : v[i] = t[i]
  OBVIOUS
<1>2. u = v
  OBVIOUS
<1>. HIDE DEF u, v
<1>3. Len(s) = Len(t) /\ Len(s) \in Nat
  BY <1>1, <1>2
<1>4. \A i \in 1 .. Len(s) : s[i] = t[i]
  BY <1>1, <1>2, <1>3
<1>. QED  BY <1>1, <1>2, <1>3, <1>4, SameSequence

\* No two numbers have the same digits.
LEMMA DigitsTell ==
  ASSUME NEW b \in Nat, b >= 2, NEW m \in Nat, NEW n \in Nat, DigitsIn(b, m) = DigitsIn(b, n)
  PROVE  m = n
<1>. DEFINE Good(j) == \A k \in Nat : DigitsIn(b, j) = DigitsIn(b, k) => j = k
            Bad == {j \in Nat : ~Good(j)}
<1>1. Bad = {}
  <2>. SUFFICES ASSUME Bad # {} PROVE FALSE
    OBVIOUS
  <2>1. PICK j \in Bad : \A i \in Bad : j <= i
    BY Least, Bad \subseteq Nat
  <2>2. PICK k \in Nat : DigitsIn(b, j) = DigitsIn(b, k) /\ j # k
    OBVIOUS
  <2>3. Len(DigitsIn(b, 0)) = 0
    <3>1. DigitsIn(b, 0) = << >>
      BY DigitsRule
    <3>. QED  BY <3>1
  <2>4. j # 0 /\ k # 0
    <3>. DEFINE L(i) == Len(DigitsIn(b, i))
    <3>1. L(0) = 0 /\ L(j) = L(k) /\ j \in Nat
      BY <2>2, <2>3
    <3>2. \A i \in Nat : i > 0 => L(i) > 0
      BY DigitsType
    <3>. HIDE DEF L
    <3>3. j = 0 => k > 0
      BY <2>2, <3>1
    <3>4. k = 0 => j > 0
      BY <2>2, <3>1
    <3>. QED  BY <3>1, <3>2, <3>3, <3>4
  <2>. DEFINE p == j \div b  x == j % b  q == k \div b  y == k % b
  <2>5. /\ p \in Nat /\ x \in 0 .. b - 1 /\ j = b * p + x /\ p < j
        /\ q \in Nat /\ y \in 0 .. b - 1 /\ k = b * q + y
    <3>1. j \in Nat /\ j > 0
      BY <2>4
    <3>2. IsDivided(j, b, p, x) /\ IsDivided(k, b, q, y)
      BY <3>1, DivideBy
    <3>. HIDE DEF p, x, q, y
    <3>. QED  BY <3>1, <3>2 DEF IsDivided
  <2>6. Append(DigitsIn(b, p), x) = Append(DigitsIn(b, q), y)
    <3>1. DigitsIn(b, j) = Append(DigitsIn(b, p), x) /\ DigitsIn(b, k) = Append(DigitsIn(b, q), y)
      BY <2>4, DigitsRule
    <3>. QED  BY <2>2, <3>1
  <2>. HIDE DEF p, q, x, y
  <2>7. DigitsIn(b, p) \in Seq(0 .. b - 1) /\ DigitsIn(b, q) \in Seq(0 .. b - 1)
    BY <2>5, DigitsType DEF IsBare
  <2>8. DigitsIn(b, p) = DigitsIn(b, q) /\ x = y
    <3>. DEFINE S == 0 .. b - 1  s == DigitsIn(b, p)  t == DigitsIn(b, q)
    <3>1. s \in Seq(S) /\ t \in Seq(S) /\ x \in S /\ y \in S /\ Append(s, x) = Append(t, y)
      BY <2>5, <2>6, <2>7
    <3>. HIDE DEF S, s, t
    <3>2. s = t /\ x = y
      BY <3>1, AppendedSame
    <3>. QED  BY <3>2 DEF s, t
  <2>9. p = q
    BY <2>1, <2>5, <2>8
  <2>. QED  BY <2>2, <2>5, <2>8, <2>9
<1>. QED  BY <1>1

----------------------------------------------------------------------------
(* The digits of a number times another, and in another base.              *)

\* What is in the last place, and what is carried to the place before.
Total(x, by, carry) == x * by + carry
Rest(g, b, t) == Append(g[t \div b], t % b)
\* What a digit does to what is made of those before it.
ScaleStep(g, b, by, x) == [carry \in Nat |-> Rest(g, b, Total(x, by, carry))]
Ones(b) == [carry \in Nat |-> DigitsIn(b, carry)]
IsScaling(f, d, b, by) ==
  f = [k \in 0 .. Len(d) |->
        [carry \in Nat |-> IF k = 0 THEN DigitsIn(b, carry) ELSE Rest(f[k - 1], b, Total(d[k], by, carry))]]

\* ... the same for a number of them, those of d.
Scales(f, d, len, b, by) ==
  /\ \A carry \in Nat : f[0][carry] = DigitsIn(b, carry)
  /\ \A k \in 1 .. len : \A carry \in Nat : f[k][carry] = Rest(f[k - 1], b, Total(d[k], by, carry))

LEMMA TimesIsNat ==
  ASSUME NEW a \in Nat, NEW b \in Nat
  PROVE  a * b \in Nat
  OBVIOUS

LEMMA TotalType ==
  ASSUME NEW x \in Nat, NEW by \in Nat, NEW carry \in Nat
  PROVE  Total(x, by, carry) \in Nat
<1>1. x * by \in Nat
  BY TimesIsNat
<1>. QED  BY <1>1 DEF Total

LEMMA ScalingExists ==
  ASSUME NEW b \in Nat, b >= 2, NEW by \in Nat, NEW d \in Seq(Nat)
  PROVE  \E f : IsScaling(f, d, b, by) /\ f \in [0 .. Len(d) -> [Nat -> Seq(0 .. b - 1)]]
<1>. DEFINE S == Seq(0 .. b - 1)  T == [Nat -> S]  len == Len(d)
            step == [k \in 1 .. len |-> [g \in T |-> ScaleStep(g, b, by, d[k])]]
<1>1. len \in Nat /\ \A k \in 1 .. len : d[k] \in Nat
  OBVIOUS
<1>2. Ones(b) \in T
  BY DigitsType DEF Ones, IsBare
<1>3. ASSUME NEW g \in T, NEW x \in Nat PROVE ScaleStep(g, b, by, x) \in T
  <2>1. ASSUME NEW carry \in Nat PROVE Rest(g, b, Total(x, by, carry)) \in S
    <3>. DEFINE t == Total(x, by, carry)
    <3>1. t \in Nat
      BY TotalType
    <3>. HIDE DEF t
    <3>2. t \div b \in Nat /\ t % b \in 0 .. b - 1
      BY <3>1, DivideBy DEF IsDivided
    <3>3. g[t \div b] \in S
      BY <3>2
    <3>4. Rest(g, b, t) \in S
      BY <3>2, <3>3 DEF Rest
    <3>. QED  BY <3>4 DEF t
  <2>. QED  BY <2>1 DEF ScaleStep
<1>4. step \in [1 .. len -> [T -> T]]
  BY <1>1, <1>3
<1>. HIDE DEF T
<1>5. PICK f : Iterates(f, len, T, Ones(b), step)
  BY <1>1, <1>2, <1>4, Iteration
<1>6. /\ f \in [0 .. len -> T] /\ f[0] = Ones(b)
      /\ \A k \in 1 .. len : f[k] = ScaleStep(f[k - 1], b, by, d[k])
  <2>1. f \in [0 .. len -> T] /\ f[0] = Ones(b) /\ \A k \in 1 .. len : f[k] = step[k][f[k - 1]]
    BY <1>5 DEF Iterates
  <2>2. \A k \in 1 .. len : f[k - 1] \in T
    BY <1>1, <2>1
  <2>. QED  BY <2>1, <2>2
<1>. DEFINE h == [k \in 0 .. len |->
                   [carry \in Nat |-> IF k = 0 THEN DigitsIn(b, carry)
                                      ELSE Rest(f[k - 1], b, Total(d[k], by, carry))]]
<1>7. ASSUME NEW k \in 0 .. len PROVE f[k] = h[k]
  <2>1. CASE k = 0
    <3>1. h[0] = [carry \in Nat |-> DigitsIn(b, carry)]
      BY <1>1
    <3>. QED  BY <1>6, <2>1, <3>1 DEF Ones
  <2>2. CASE k # 0
    <3>1. h[k] = [carry \in Nat |-> Rest(f[k - 1], b, Total(d[k], by, carry))]
      BY <2>2
    <3>2. k \in 1 .. len
      BY <1>1, <2>2
    <3>. QED  BY <1>6, <3>1, <3>2 DEF ScaleStep
  <2>. QED  BY <2>1, <2>2
<1>8. f = h
  <2>1. DOMAIN f = 0 .. len /\ DOMAIN h = 0 .. len /\ f = [k \in 0 .. len |-> f[k]] /\ h = [k \in 0 .. len |-> h[k]]
    BY <1>6
  <2>. HIDE DEF h
  <2>. QED  BY <1>7, <2>1
<1>. QED  BY <1>6, <1>8, Zenon DEF IsScaling, T, S

LEMMA ScalingScales ==
  ASSUME NEW b, NEW by, NEW d, Len(d) \in Nat, NEW f, IsScaling(f, d, b, by)
  PROVE  Scales(f, d, Len(d), b, by)
<1>. DEFINE len == Len(d)
            h == [k \in 0 .. len |->
                   [carry \in Nat |-> IF k = 0 THEN DigitsIn(b, carry)
                                      ELSE Rest(f[k - 1], b, Total(d[k], by, carry))]]
<1>1. f = h
  BY DEF IsScaling
<1>2. ASSUME NEW k \in 0 .. len, NEW carry \in Nat
      PROVE  h[k][carry] = IF k = 0 THEN DigitsIn(b, carry) ELSE Rest(f[k - 1], b, Total(d[k], by, carry))
  OBVIOUS
<1>3. 0 \in 0 .. len /\ \A k \in 1 .. len : k \in 0 .. len /\ k # 0
  OBVIOUS
<1>. HIDE DEF h
<1>. QED  BY <1>1, <1>2, <1>3 DEF Scales

\* From the digits of a number, those of the number times by and plus what is
\* carried.
ScalesWell(m, b, by) ==
  \A d, f : \A carry \in Nat :
    Scales(f, d, Len(DigitsIn(b, m)), b, by)
      /\ (\A k \in 1 .. Len(DigitsIn(b, m)) : d[k] = DigitsIn(b, m)[k]) =>
      f[Len(DigitsIn(b, m))][carry] = DigitsIn(b, Total(m, by, carry))

LEMMA ScalingCounts ==
  ASSUME NEW b \in Nat, b >= 2, NEW by \in Nat, by > 0
  PROVE  \A m \in Nat : ScalesWell(m, b, by)
<1>. DEFINE Good(m) == ScalesWell(m, b, by)
            Bad == {m \in Nat : ~Good(m)}
<1>1. Bad = {}
  <2>. SUFFICES ASSUME Bad # {} PROVE FALSE
    OBVIOUS
  <2>1. PICK m \in Bad : \A i \in Bad : m <= i
    BY Least, Bad \subseteq Nat
  <2>. DEFINE D == DigitsIn(b, m)
  <2>2. PICK d, f : \E c \in Nat :
          /\ Scales(f, d, Len(D), b, by) /\ (\A k \in 1 .. Len(D) : d[k] = D[k])
          /\ f[Len(D)][c] # DigitsIn(b, Total(m, by, c))
    BY DEF ScalesWell
  <2>3. PICK carry \in Nat : f[Len(D)][carry] # DigitsIn(b, Total(m, by, carry))
    BY <2>2
  <2>4. Scales(f, d, Len(D), b, by) /\ \A k \in 1 .. Len(D) : d[k] = D[k]
    BY <2>2
  <2>5. CASE m = 0
    <3>1. D = << >>
      BY <2>5, DigitsRule
    <3>2. Len(D) = 0
      BY <3>1
    <3>3. f[0][carry] = DigitsIn(b, carry)
      BY <2>4 DEF Scales
    <3>4. Total(0, by, carry) = carry
      BY DEF Total
    <3>. QED  BY <2>3, <2>5, <3>2, <3>3, <3>4
  <2>6. CASE m # 0
    <3>. DEFINE q == m \div b  x == m % b  E == DigitsIn(b, q)  t == Total(x, by, carry)
                u == t \div b  r == t % b
    <3>1. q \in Nat /\ x \in 0 .. b - 1 /\ m = b * q + x /\ q < m
      <4>1. IsDivided(m, b, q, x)
        BY DivideBy
      <4>. HIDE DEF q, x
      <4>. QED  BY <2>6, <4>1 DEF IsDivided
    <3>2. D = Append(E, x)
      BY <2>6, DigitsRule
    <3>3. t \in Nat /\ Total(m, by, carry) = b * (q * by) + t
      <4>. HIDE DEF q, x
      <4>1. x \in Nat
        BY <3>1
      <4>2. t \in Nat
        BY <4>1, TotalType
      <4>3. (b * q + x) * by + carry = b * (q * by) + (x * by + carry)
        BY <3>1, <4>1
      <4>4. Total(b * q + x, by, carry) = b * (q * by) + t
        BY <4>3 DEF Total
      <4>. QED  BY <3>1, <4>2, <4>4
    <3>4. Good(q)
      <4>. HIDE DEF Bad, Good, q
      <4>1. q \notin Bad
        BY <2>1, <3>1
      <4>. QED  BY <3>1, <4>1 DEF Bad
    <3>. HIDE DEF q, x, t, D
    <3>5. u \in Nat /\ r \in 0 .. b - 1 /\ t = b * u + r
      <4>1. IsDivided(t, b, u, r)
        BY <3>3, DivideBy
      <4>. HIDE DEF u, r
      <4>. QED  BY <4>1 DEF IsDivided
    <3>. HIDE DEF u, r
    <3>6. E \in Seq(0 .. b - 1)
      BY <3>1, DigitsType DEF IsBare
    <3>. HIDE DEF E
    <3>7. /\ Len(D) = Len(E) + 1 /\ Len(E) \in Nat /\ D[Len(E) + 1] = x
          /\ \A k \in 1 .. Len(E) : D[k] = E[k]
      BY <3>1, <3>2, <3>6
    <3>8. Scales(f, d, Len(E), b, by) /\ \A k \in 1 .. Len(E) : d[k] = E[k]
      <4>1. \A k \in 1 .. Len(E) : k \in 1 .. Len(D)
        BY <3>7
      <4>. QED  BY <2>4, <3>7, <4>1 DEF Scales
    <3>9. f[Len(E)][u] = DigitsIn(b, Total(q, by, u))
      BY <3>4, <3>5, <3>8 DEF E, ScalesWell
    <3>10. f[Len(D)][carry] = Append(f[Len(E)][u], r)
      <4>1. Len(D) \in 1 .. Len(D) /\ Len(D) - 1 = Len(E)
        BY <3>7
      <4>2. f[Len(D)][carry] = Rest(f[Len(E)], b, Total(d[Len(D)], by, carry))
        BY <2>4, <4>1 DEF Scales
      <4>3. d[Len(D)] = x
        BY <2>4, <3>7, <4>1
      <4>. QED  BY <4>2, <4>3 DEF Rest, t, u, r
    <3>11. Total(m, by, carry) = b * Total(q, by, u) + r /\ Total(q, by, u) \in Nat
      <4>. DEFINE p == q * by
      <4>1. p \in Nat
        BY <3>1
      <4>. HIDE DEF p
      <4>2. b * p + (b * u + r) = b * (p + u) + r
        BY <3>5, <4>1
      <4>. QED  BY <3>3, <3>5, <4>1, <4>2 DEF Total, p
    <3>12. Total(m, by, carry) # 0 /\ Total(m, by, carry) \in Nat
      <4>1. m * by >= m
        <5>1. \E e \in Nat : by = e + 1
          BY by - 1 \in Nat /\ by = (by - 1) + 1
        <5>2. PICK e \in Nat : by = e + 1
          BY <5>1
        <5>3. m * by = m * e + m /\ m * e \in Nat
          BY <5>2
        <5>. QED  BY <5>3
      <4>. QED  BY <2>6, <4>1 DEF Total
    <3>13. DigitsIn(b, Total(m, by, carry)) = Append(DigitsIn(b, Total(q, by, u)), r)
      <4>. DEFINE w == Total(m, by, carry)  v == Total(q, by, u)
      <4>1. w = b * v + r /\ v \in Nat /\ w # 0 /\ w \in Nat
        BY <3>11, <3>12
      <4>. HIDE DEF w, v
      <4>2. w \div b = v /\ w % b = r
        BY <3>5, <4>1, DivideUnique
      <4>3. DigitsIn(b, w) = Append(DigitsIn(b, v), r)
        BY <4>1, <4>2, DigitsRule
      <4>. QED  BY <4>3 DEF w, v
    <3>. QED  BY <2>3, <3>9, <3>10, <3>13
  <2>. QED  BY <2>5, <2>6
<1>. QED  BY <1>1, Zenon

LEMMA ScaledDigits ==
  ASSUME NEW b \in Nat, b >= 2, NEW by \in Nat, by > 0, NEW m \in Nat, NEW n \in Nat
  PROVE  Scaled(DigitsIn(b, m), b, by, n) = DigitsIn(b, Total(m, by, n))
<1>. DEFINE d == DigitsIn(b, m)  f == CHOOSE g : IsScaling(g, d, b, by)
<1>1. Scaled(d, b, by, n) = f[Len(d)][n]
  BY Zenon DEF Scaled, IsScaling, Rest, Total
<1>2. d \in Seq(0 .. b - 1)
  BY DigitsType DEF IsBare
<1>. HIDE DEF d
<1>3. d \in Seq(Nat) /\ Len(d) \in Nat
  BY <1>2
<1>4. IsScaling(f, d, b, by)
  BY <1>3, ScalingExists
<1>. HIDE DEF f
<1>5. Scales(f, d, Len(d), b, by)
  BY <1>3, <1>4, ScalingScales
<1>6. f[Len(d)][n] = DigitsIn(b, Total(m, by, n))
  <2>1. ScalesWell(m, b, by)
    BY ScalingCounts
  <2>. QED  BY <1>5, <2>1 DEF ScalesWell, d
<1>. QED  BY <1>1, <1>6 DEF d

----------------------------------------------------------------------------
(* A number in another base, and back.                                     *)

\* z zeros come first in d.
IsZeros(d, z) ==
  z \in 0 .. Len(d) /\ (\A i \in 1 .. z : d[i] = 0) /\ (z < Len(d) => d[z + 1] # 0)

LEMMA ZerosExist ==
  ASSUME NEW d \in Seq(Nat)
  PROVE  \E z : IsZeros(d, z)
<1>. DEFINE S == {p \in 0 .. Len(d) : p < Len(d) => d[p + 1] # 0}
<1>1. Len(d) \in Nat /\ Len(d) \in S
  OBVIOUS
<1>2. PICK z \in S : \A p \in S : z <= p
  BY <1>1, S \subseteq Nat, Least
<1>3. ASSUME NEW i \in 1 .. z PROVE d[i] = 0
  <2>1. z \in 0 .. Len(d)
    OBVIOUS
  <2>2. i - 1 \in 0 .. Len(d) /\ i - 1 < Len(d) /\ i - 1 + 1 = i /\ ~(z <= i - 1)
    BY <1>1, <2>1
  <2>3. i - 1 \notin S
    BY <1>2, <2>2
  <2>. QED  BY <2>2, <2>3
<1>. QED  BY <1>2, <1>3 DEF IsZeros

LEMMA LeadingZerosAre ==
  ASSUME NEW d \in Seq(Nat), NEW z, IsZeros(d, z)
  PROVE  LeadingZeros(d) = SubSeq(d, 1, z)
<1>. DEFINE StopsAt(p) == At(d, p) \notin {0} /\ \A q \in 0 .. p - 1 : At(d, q) \in {0}
<1>1. /\ Len(d) \in Nat /\ z \in 0 .. Len(d) /\ (\A i \in 1 .. z : d[i] = 0)
      /\ (z < Len(d) => d[z + 1] # 0)
  BY DEF IsZeros
<1>2. \A p \in 0 .. Len(d) : At(d, p) = IF p < Len(d) THEN d[p + 1] ELSE -1
  BY DEF At, End
<1>3. StopsAt(z)
  <2>1. At(d, z) # 0
    BY <1>1, <1>2
  <2>2. ASSUME NEW q \in 0 .. z - 1 PROVE At(d, q) = 0
    <3>1. q \in 0 .. Len(d) /\ q < Len(d) /\ q + 1 \in 1 .. z
      BY <1>1
    <3>. QED  BY <1>1, <1>2, <3>1
  <2>. QED  BY <2>1, <2>2
<1>4. ASSUME NEW p \in 0 .. Len(d), StopsAt(p) PROVE p = z
  <2>1. ~(p < z)
    <3>1. p < z => p \in 0 .. z - 1
      BY <1>1
    <3>. QED  BY <1>3, <1>4, <3>1
  <2>2. ~(z < p)
    <3>1. z < p => z \in 0 .. p - 1
      BY <1>1
    <3>. QED  BY <1>3, <1>4, <3>1
  <2>. QED  BY <1>1, <2>1, <2>2
<1>5. PastAll(d, 0, {0}) = CHOOSE p \in 0 .. Len(d) : StopsAt(p)
  BY Zenon DEF PastAll
<1>. HIDE DEF StopsAt
<1>6. PastAll(d, 0, {0}) = z
  BY <1>1, <1>3, <1>4, <1>5
<1>. QED  BY <1>6 DEF LeadingZeros

\* V[k] is the number that the first k digits of d write.
IsValuing(V, d, b) ==
  /\ V \in [0 .. Len(d) -> Nat]
  /\ V[0] = 0
  /\ \A k \in 1 .. Len(d) : V[k] = Total(V[k - 1], b, d[k])

LEMMA ValuingExists ==
  ASSUME NEW b \in Nat, NEW d \in Seq(Nat)
  PROVE  \E V : IsValuing(V, d, b)
<1>. DEFINE len == Len(d)  step == [k \in 1 .. len |-> [n \in Nat |-> Total(n, b, d[k])]]
<1>1. len \in Nat /\ \A k \in 1 .. len : d[k] \in Nat
  OBVIOUS
<1>2. step \in [1 .. len -> [Nat -> Nat]]
  <2>1. \A k \in 1 .. len : \A n \in Nat : Total(n, b, d[k]) \in Nat
    BY <1>1, TotalType
  <2>. QED  BY <2>1
<1>3. PICK V : Iterates(V, len, Nat, 0, step)
  <2>. HIDE DEF step, len
  <2>. QED  BY <1>1, <1>2, Iteration
<1>4. V \in [0 .. len -> Nat] /\ V[0] = 0 /\ \A k \in 1 .. len : V[k] = step[k][V[k - 1]]
  BY <1>3 DEF Iterates
<1>5. \A k \in 1 .. len : V[k] = Total(V[k - 1], b, d[k])
  <2>1. \A k \in 1 .. len : V[k - 1] \in Nat
    BY <1>1, <1>4
  <2>. QED  BY <1>4, <2>1
<1>. QED  BY <1>4, <1>5 DEF IsValuing

LEMMA SubSeqGrows ==
  ASSUME NEW T, NEW d \in Seq(T), NEW z \in Nat, NEW k \in Nat, z <= k, k < Len(d)
  PROVE  SubSeq(d, z + 1, k + 1) = Append(SubSeq(d, z + 1, k), d[k + 1])
<1>. DEFINE s == SubSeq(d, z + 1, k + 1)  t == SubSeq(d, z + 1, k)  u == Append(t, d[k + 1])
<1>1. Len(d) \in Nat /\ d[k + 1] \in T
  OBVIOUS
<1>2. /\ t \in Seq(T) /\ Len(t) = k - z /\ \A i \in 1 .. k - z : t[i] = d[z + i]
      /\ s \in Seq(T) /\ Len(s) = k + 1 - z /\ \A i \in 1 .. k + 1 - z : s[i] = d[z + i]
  OBVIOUS
<1>. HIDE DEF t
<1>3. u \in Seq(T) /\ Len(u) = k + 1 - z /\ u[k + 1 - z] = d[k + 1] /\ \A i \in 1 .. k - z : u[i] = t[i]
  BY <1>1, <1>2
<1>. HIDE DEF s, u
<1>4. ASSUME NEW i \in 1 .. Len(s) PROVE s[i] = u[i]
  <2>1. CASE i = k + 1 - z
    <3>1. z + i = k + 1
      BY <2>1
    <3>. QED  BY <1>2, <1>3, <2>1, <3>1
  <2>2. CASE i # k + 1 - z
    <3>1. i \in 1 .. k - z
      BY <1>2, <2>2
    <3>. QED  BY <1>2, <1>3, <3>1
  <2>. QED  BY <2>1, <2>2
<1>5. s = u
  BY <1>2, <1>3, <1>4, SameSequence
<1>. QED  BY <1>5 DEF s, u, t

\* The digits of what digits write are those digits from the first that is not
\* a zero.
LEMMA ValueTells ==
  ASSUME NEW b \in Nat, b >= 2, NEW d \in Seq(0 .. b - 1), NEW z, IsZeros(d, z), NEW V, IsValuing(V, d, b)
  PROVE  DigitsIn(b, V[Len(d)]) = SubSeq(d, z + 1, Len(d)) /\ V[Len(d)] \in Nat
<1>. DEFINE P(k) == DigitsIn(b, V[k]) = SubSeq(d, z + 1, k) /\ (k <= z <=> V[k] = 0)
            S == {k \in 0 .. Len(d) : P(k)}
<1>1. /\ Len(d) \in Nat /\ z \in 0 .. Len(d) /\ (\A i \in 1 .. z : d[i] = 0)
      /\ (z < Len(d) => d[z + 1] # 0)
  BY DEF IsZeros
<1>2. /\ \A k \in 0 .. Len(d) : V[k] \in Nat
      /\ V[0] = 0 /\ \A k \in 1 .. Len(d) : V[k] = Total(V[k - 1], b, d[k])
  BY DEF IsValuing
<1>3. \A k \in 1 .. Len(d) : d[k] \in 0 .. b - 1
  OBVIOUS
<1>4. DigitsIn(b, 0) = << >>
  BY DigitsRule
<1>5. \A k \in 0 .. z : SubSeq(d, z + 1, k) = << >>
  BY <1>1
<1>6. 0 \in S
  <2>1. P(0)
    <3>1. 0 \in 0 .. z /\ 0 <= z
      BY <1>1
    <3>2. SubSeq(d, z + 1, 0) = << >>
      BY <1>5, <3>1
    <3>3. DigitsIn(b, V[0]) = DigitsIn(b, 0)
      BY <1>2
    <3>. QED  BY <1>2, <1>4, <3>1, <3>2, <3>3
  <2>. QED  BY <1>1, <2>1
<1>7. ASSUME NEW k \in 0 .. Len(d) - 1, k \in S PROVE k + 1 \in S
  <2>. DEFINE v == V[k]  w == V[k + 1]  x == d[k + 1]
  <2>1. k \in 0 .. Len(d) /\ k + 1 \in 1 .. Len(d) /\ k + 1 \in 0 .. Len(d) /\ k + 1 - 1 = k /\ k < Len(d)
    BY <1>1
  <2>2. w = Total(v, b, x) /\ v \in Nat /\ w \in Nat /\ x \in 0 .. b - 1
    BY <1>2, <1>3, <2>1
  <2>3. DigitsIn(b, v) = SubSeq(d, z + 1, k) /\ (k <= z <=> v = 0)
    BY <1>7
  <2>4. CASE k + 1 <= z
    <3>1. v = 0 /\ x = 0
      BY <1>1, <2>1, <2>3, <2>4
    <3>2. Total(0, b, 0) = 0
      BY DEF Total
    <3>3. w = 0
      BY <2>2, <3>1, <3>2
    <3>4. P(k + 1)
      <4>1. k + 1 \in 0 .. z
        BY <1>1, <2>1, <2>4
      <4>2. SubSeq(d, z + 1, k + 1) = << >>
        BY <1>5, <4>1
      <4>3. DigitsIn(b, V[k + 1]) = DigitsIn(b, 0) /\ V[k + 1] = 0
        BY <3>3
      <4>. QED  BY <1>4, <2>4, <4>2, <4>3
    <3>. QED  BY <2>1, <3>4
  <2>5. CASE ~(k + 1 <= z)
    <3>. HIDE DEF v, w, x
    <3>1. z <= k
      BY <1>1, <2>1, <2>5
    <3>2. w = b * v + x
      BY <2>2 DEF Total
    <3>3. w # 0
      <4>1. CASE k = z
        <5>1. v = 0 /\ x # 0
          BY <1>1, <2>1, <2>3, <4>1 DEF x
        <5>2. b * 0 + x = x
          BY <2>2
        <5>. QED  BY <3>2, <5>1, <5>2
      <4>2. CASE k # z
        <5>1. v > 0
          BY <1>1, <2>1, <2>2, <2>3, <3>1, <4>2
        <5>2. b * v >= v
          BY <2>2
        <5>. QED  BY <2>2, <3>2, <5>1, <5>2
      <4>. QED  BY <4>1, <4>2
    <3>4. w \div b = v /\ w % b = x
      BY <2>2, <3>2, DivideUnique
    <3>5. DigitsIn(b, w) = Append(DigitsIn(b, v), x)
      BY <2>2, <3>3, <3>4, DigitsRule
    <3>6. SubSeq(d, z + 1, k + 1) = Append(SubSeq(d, z + 1, k), x)
      BY <1>1, <2>1, <3>1, SubSeqGrows DEF x
    <3>7. P(k + 1)
      BY <2>1, <2>3, <2>5, <3>3, <3>5, <3>6 DEF w
    <3>. QED  BY <2>1, <3>7
  <2>. QED  BY <2>4, <2>5
<1>. HIDE DEF S
<1>8. Len(d) \in S
  <2>1. 0 .. Len(d) \subseteq S
    BY <1>1, <1>6, <1>7, InductionUpTo
  <2>. QED  BY <1>1, <2>1
<1>. QED  BY <1>1, <1>2, <1>8 DEF S

RebaseStep(g, b, by, x) == Scaled(g, b, by, x)
IsRebasing(f, d, from, to) ==
  f = [k \in 0 .. Len(d) |-> IF k = 0 THEN << >> ELSE RebaseStep(f[k - 1], to, from, d[k])]

LEMMA RebasingAt ==
  ASSUME NEW d, Len(d) \in Nat, NEW from, NEW to, NEW f, IsRebasing(f, d, from, to)
  PROVE  f[0] = << >> /\ \A k \in 1 .. Len(d) : f[k] = RebaseStep(f[k - 1], to, from, d[k])
<1>. DEFINE h == [k \in 0 .. Len(d) |-> IF k = 0 THEN << >> ELSE RebaseStep(f[k - 1], to, from, d[k])]
<1>1. f = h
  BY DEF IsRebasing
<1>2. \A k \in 0 .. Len(d) : h[k] = IF k = 0 THEN << >> ELSE RebaseStep(f[k - 1], to, from, d[k])
  OBVIOUS
<1>3. 0 \in 0 .. Len(d) /\ \A k \in 1 .. Len(d) : k \in 0 .. Len(d) /\ k # 0
  OBVIOUS
<1>. HIDE DEF h
<1>. QED  BY <1>1, <1>2, <1>3

\* What digits write, in another base.
LEMMA RebasedIs ==
  ASSUME NEW from \in Nat, from >= 2, NEW to \in Nat, to >= 2, NEW d \in Seq(0 .. from - 1),
         NEW V, IsValuing(V, d, from)
  PROVE  Rebased(d, from, to) = LeadingZeros(d) \o DigitsIn(to, V[Len(d)])
<1>. DEFINE len == Len(d)  F == CHOOSE f : IsRebasing(f, d, from, to)  T(k) == DigitsIn(to, V[k])
<1>1. len \in Nat /\ \A k \in 1 .. len : d[k] \in Nat
  OBVIOUS
<1>2. /\ \A k \in 0 .. len : V[k] \in Nat
      /\ V[0] = 0 /\ \A k \in 1 .. len : V[k] = Total(V[k - 1], from, d[k])
  BY DEF IsValuing
<1>3. T(0) = << >>
  BY <1>2, DigitsRule
<1>4. ASSUME NEW k \in 1 .. len PROVE T(k) = RebaseStep(T(k - 1), to, from, d[k])
  <2>1. k - 1 \in 0 .. len
    BY <1>1
  <2>2. V[k - 1] \in Nat /\ d[k] \in Nat /\ V[k] = Total(V[k - 1], from, d[k])
    BY <1>1, <1>2, <2>1
  <2>3. Scaled(DigitsIn(to, V[k - 1]), to, from, d[k]) = DigitsIn(to, Total(V[k - 1], from, d[k]))
    BY <2>2, ScaledDigits
  <2>. QED  BY <2>2, <2>3 DEF RebaseStep
<1>. HIDE DEF T
<1>5. \E f : IsRebasing(f, d, from, to)
  <2>. DEFINE g == [k \in 0 .. len |-> T(k)]
              h == [k \in 0 .. len |-> IF k = 0 THEN << >> ELSE RebaseStep(g[k - 1], to, from, d[k])]
  <2>1. ASSUME NEW k \in 0 .. len PROVE g[k] = h[k]
    <3>1. CASE k = 0
      BY <1>1, <1>3, <3>1
    <3>2. CASE k # 0
      <4>1. k \in 1 .. len /\ k - 1 \in 0 .. len
        BY <1>1, <3>2
      <4>2. g[k] = T(k) /\ g[k - 1] = T(k - 1)
        BY <4>1
      <4>3. h[k] = RebaseStep(g[k - 1], to, from, d[k])
        BY <3>2
      <4>. QED  BY <1>4, <4>1, <4>2, <4>3
    <3>. QED  BY <3>1, <3>2
  <2>2. g = h
    <3>1. g = [k \in 0 .. len |-> g[k]] /\ h = [k \in 0 .. len |-> h[k]]
      OBVIOUS
    <3>. HIDE DEF g, h
    <3>. QED  BY <2>1, <3>1
  <2>3. IsRebasing(g, d, from, to)
    BY <2>2, Zenon DEF IsRebasing
  <2>. QED  BY <2>3
<1>6. IsRebasing(F, d, from, to)
  BY <1>5
<1>7. Rebased(d, from, to) = LeadingZeros(d) \o F[len]
  BY Zenon DEF Rebased, IsRebasing, RebaseStep
<1>. HIDE DEF F
<1>8. F[0] = << >> /\ \A k \in 1 .. len : F[k] = RebaseStep(F[k - 1], to, from, d[k])
  <2>. HIDE DEF len
  <2>. QED  BY <1>1, <1>6, RebasingAt DEF len
<1>. DEFINE S == {k \in 0 .. len : F[k] = T(k)}
<1>9. 0 \in S
  BY <1>1, <1>3, <1>8
<1>10. ASSUME NEW k \in 0 .. len - 1, k \in S PROVE k + 1 \in S
  <2>1. k + 1 \in 1 .. len /\ k + 1 \in 0 .. len /\ k + 1 - 1 = k
    BY <1>1
  <2>2. F[k + 1] = RebaseStep(F[k], to, from, d[k + 1])
    BY <1>8, <2>1
  <2>3. T(k + 1) = RebaseStep(T(k), to, from, d[k + 1])
    BY <1>4, <2>1
  <2>4. F[k] = T(k)
    BY <1>10
  <2>. QED  BY <2>1, <2>2, <2>3, <2>4
<1>. HIDE DEF S
<1>11. len \in S
  <2>1. 0 .. len \subseteq S
    BY <1>1, <1>9, <1>10, InductionUpTo
  <2>. QED  BY <1>1, <2>1
<1>12. F[len] = DigitsIn(to, V[len])
  BY <1>11 DEF S, T
<1>. QED  BY <1>7, <1>12

\* e is the z zeros of d, and then the digits D without a zero before them.
IsWith(e, b, d, z, D) ==
  /\ e \in Seq(0 .. b - 1) /\ IsZeros(e, z)
  /\ SubSeq(e, 1, z) = SubSeq(d, 1, z) /\ SubSeq(e, z + 1, Len(e)) = D

LEMMA ZerosThenDigits ==
  ASSUME NEW b \in Nat, b >= 2, NEW d \in Seq(Nat), NEW z, IsZeros(d, z), NEW D, IsBare(D, b)
  PROVE  IsWith(SubSeq(d, 1, z) \o D, b, d, z, D)
<1>. DEFINE e == SubSeq(d, 1, z) \o D
<1>. DEFINE Z == SubSeq(d, 1, z)  B == 0 .. b - 1
<1>1. Len(d) \in Nat /\ z \in 0 .. Len(d) /\ \A i \in 1 .. z : d[i] = 0
  BY DEF IsZeros
<1>2. Len(Z) = z /\ \A i \in 1 .. z : Z[i] = d[i]
  BY <1>1
<1>3. Z \in Seq(B)
  <2>1. Z = [i \in 1 .. z |-> d[i]]
    BY <1>1
  <2>2. \A i \in 1 .. z : d[i] \in B
    BY <1>1
  <2>3. [i \in 1 .. z |-> d[i]] \in [1 .. z -> B] /\ z \in Nat
    BY <1>1, <2>2
  <2>. QED  BY <2>1, <2>3
<1>4. D \in Seq(B) /\ Len(D) \in Nat /\ (Len(D) > 0 => D[1] # 0)
  BY DEF IsBare
<1>5. e = Z \o D
  OBVIOUS
<1>. HIDE DEF Z, B, e
<1>6. /\ e \in Seq(B) /\ Len(e) = z + Len(D)
      /\ \A i \in 1 .. z : e[i] = Z[i]
      /\ \A i \in 1 .. Len(D) : e[z + i] = D[i]
  <2>1. Z \o D \in Seq(B) /\ IsConcat(Z \o D, Z, D)
    BY <1>3, <1>4, ConcatType
  <2>. QED  BY <1>2, <1>5, <2>1 DEF IsConcat
<1>7. IsZeros(e, z)
  <2>1. z \in 0 .. Len(e) /\ (z < Len(e) => Len(D) > 0 /\ 1 \in 1 .. Len(D))
    BY <1>1, <1>4, <1>6
  <2>2. z < Len(e) => e[z + 1] # 0
    BY <1>4, <1>6, <2>1
  <2>3. \A i \in 1 .. z : e[i] = 0
    BY <1>1, <1>2, <1>6
  <2>. QED  BY <2>1, <2>2, <2>3 DEF IsZeros
<1>8. SubSeq(e, 1, z) = Z
  <2>. DEFINE s == SubSeq(e, 1, z)
  <2>1. s \in Seq(B) /\ Len(s) = z /\ \A i \in 1 .. z : s[i] = e[i]
    BY <1>1, <1>4, <1>6
  <2>. HIDE DEF s
  <2>2. s = Z
    BY <1>2, <1>3, <1>6, <2>1, SameSequence
  <2>. QED  BY <2>2 DEF s
<1>9. SubSeq(e, z + 1, Len(e)) = D
  <2>. DEFINE s == SubSeq(e, z + 1, Len(e))
  <2>1. s \in Seq(B) /\ Len(s) = Len(D) /\ \A i \in 1 .. Len(D) : s[i] = e[z + i]
    BY <1>1, <1>4, <1>6
  <2>. HIDE DEF s
  <2>2. \A i \in 1 .. Len(s) : s[i] = D[i]
    BY <1>6, <2>1
  <2>3. Len(s) = Len(D)
    BY <2>1
  <2>4. s = D
    BY <1>4, <2>1, <2>2, <2>3, SameSequence
  <2>. QED  BY <2>4 DEF s
<1>. QED  BY <1>6, <1>7, <1>8, <1>9 DEF Z, B, IsWith, e

LEMMA TwoParts ==
  ASSUME NEW T, NEW d \in Seq(T), NEW z \in 0 .. Len(d)
  PROVE  SubSeq(d, 1, z) \o SubSeq(d, z + 1, Len(d)) = d
<1>. DEFINE a == SubSeq(d, 1, z)  b == SubSeq(d, z + 1, Len(d))  c == a \o b
<1>1. /\ Len(d) \in Nat
      /\ a \in Seq(T) /\ Len(a) = z /\ \A i \in 1 .. z : a[i] = d[i]
      /\ b \in Seq(T) /\ Len(b) = Len(d) - z /\ \A i \in 1 .. Len(d) - z : b[i] = d[z + i]
  OBVIOUS
<1>. HIDE DEF a, b
<1>2. /\ c \in Seq(T) /\ Len(c) = Len(d) /\ \A i \in 1 .. z : c[i] = a[i]
      /\ \A i \in 1 .. Len(d) - z : c[z + i] = b[i]
  BY <1>1
<1>. HIDE DEF c
<1>3. ASSUME NEW i \in 1 .. Len(c) PROVE c[i] = d[i]
  <2>1. CASE i <= z
    BY <1>1, <1>2, <2>1
  <2>2. CASE ~(i <= z)
    <3>1. i - z \in 1 .. Len(d) - z /\ z + (i - z) = i
      BY <1>1, <1>2, <2>2
    <3>2. c[z + (i - z)] = d[z + (i - z)]
      BY <1>1, <1>2, <3>1
    <3>. QED  BY <3>1, <3>2
  <2>. QED  BY <2>1, <2>2
<1>4. c = d
  BY <1>2, <1>3, SameSequence
<1>. QED  BY <1>4 DEF c, a, b

\* Digits in another base write the same in the base they were in.
LEMMA RebasedBack ==
  ASSUME NEW from \in Nat, from >= 2, NEW to \in Nat, to >= 2, NEW d \in Seq(0 .. from - 1)
  PROVE  /\ Rebased(d, from, to) \in Seq(0 .. to - 1)
         /\ Rebased(Rebased(d, from, to), to, from) = d
<1>. DEFINE e == Rebased(d, from, to)
<1>1. d \in Seq(Nat) /\ Len(d) \in Nat
  OBVIOUS
<1>2. PICK z : IsZeros(d, z)
  BY <1>1, ZerosExist
<1>3. PICK V : IsValuing(V, d, from)
  BY <1>1, ValuingExists
<1>. DEFINE n == V[Len(d)]
<1>4. DigitsIn(from, n) = SubSeq(d, z + 1, Len(d)) /\ n \in Nat
  BY <1>2, <1>3, ValueTells
<1>5. e = SubSeq(d, 1, z) \o DigitsIn(to, n)
  <2>1. e = LeadingZeros(d) \o DigitsIn(to, n)
    BY <1>3, RebasedIs
  <2>2. LeadingZeros(d) = SubSeq(d, 1, z)
    BY <1>1, <1>2, LeadingZerosAre
  <2>. QED  BY <2>1, <2>2
<1>. HIDE DEF e, n
<1>6. /\ e \in Seq(0 .. to - 1) /\ IsZeros(e, z)
      /\ SubSeq(e, 1, z) = SubSeq(d, 1, z) /\ SubSeq(e, z + 1, Len(e)) = DigitsIn(to, n)
  <2>1. IsBare(DigitsIn(to, n), to)
    BY <1>4, DigitsType
  <2>2. IsWith(SubSeq(d, 1, z) \o DigitsIn(to, n), to, d, z, DigitsIn(to, n))
    BY <1>1, <1>2, <2>1, ZerosThenDigits
  <2>. QED  BY <1>5, <2>2 DEF IsWith
<1>7. e \in Seq(Nat)
  BY <1>6
<1>8. PICK W : IsValuing(W, e, to)
  BY <1>7, ValuingExists
<1>. DEFINE m == W[Len(e)]
<1>9. DigitsIn(to, m) = SubSeq(e, z + 1, Len(e)) /\ m \in Nat
  BY <1>6, <1>8, ValueTells
<1>10. Rebased(e, to, from) = LeadingZeros(e) \o DigitsIn(from, m)
  BY <1>6, <1>8, RebasedIs
<1>11. LeadingZeros(e) = SubSeq(e, 1, z)
  BY <1>6, <1>7, LeadingZerosAre
<1>. HIDE DEF m
<1>12. m = n
  BY <1>4, <1>6, <1>9, DigitsTell
<1>13. Rebased(e, to, from) = SubSeq(d, 1, z) \o SubSeq(d, z + 1, Len(d))
  BY <1>4, <1>6, <1>10, <1>11, <1>12
<1>14. z \in 0 .. Len(d)
  BY <1>2 DEF IsZeros
<1>15. SubSeq(d, 1, z) \o SubSeq(d, z + 1, Len(d)) = d
  BY <1>14, TwoParts
<1>16. e \in Seq(0 .. to - 1) /\ Rebased(e, to, from) = d
  BY <1>6, <1>13, <1>15
<1>. QED  BY <1>16 DEF e

----------------------------------------------------------------------------
(* Base58, and the keys in it.                                             *)

LEMMA SizeType ==
  /\ ByteSize \in Nat /\ ByteSize >= 2 /\ Byte = 0 .. ByteSize - 1
  /\ 58 \in Nat /\ 58 >= 2
<1>1. Group \in Nat /\ Group >= 2
  BY VarintAssumption
<1>. QED  BY <1>1, WireAssumption DEF ByteSize, Byte

LEMMA SeqFacts ==
  ASSUME NEW T, NEW s \in Seq(T)
  PROVE  Len(s) \in Nat /\ DOMAIN s = 1 .. Len(s) /\ \A k \in 1 .. Len(s) : s[k] \in T
  OBVIOUS

LEMMA MakesSeq ==
  ASSUME NEW T, NEW n \in Nat, NEW s \in [1 .. n -> T]
  PROVE  s \in Seq(T)
  OBVIOUS

LEMMA AlphabetType ==
  /\ DOMAIN Base58Alphabet = 1 .. 58 /\ \A k \in 1 .. 58 : Base58Alphabet[k] \in Nat
  /\ \A j, k \in 1 .. 58 : Base58Alphabet[j] = Base58Alphabet[k] => j = k
<1>. DEFINE A == Base58Alphabet
<1>1. A \in Seq(Nat) /\ Len(A) = 58 /\ \A j, k \in 1 .. 58 : A[j] = A[k] => j = k
  BY Zenon, KeyTextAssumption
<1>. HIDE DEF A
<1>2. Len(A) \in Nat /\ DOMAIN A = 1 .. Len(A) /\ \A k \in 1 .. Len(A) : A[k] \in Nat
  BY <1>1, SeqFacts
<1>. QED  BY <1>1, <1>2 DEF A

\* A digit has one character, and a character of the alphabet is one digit.
LEMMA DigitHasCharacter ==
  ASSUME NEW x \in 0 .. 57
  PROVE  /\ DigitOf(Base58Alphabet[x + 1]) = x /\ Base58Alphabet[x + 1] \in ToSet(Base58Alphabet)
         /\ Base58Alphabet[x + 1] \in Nat
<1>. DEFINE A == Base58Alphabet  c == A[x + 1]  k == CHOOSE i \in 1 .. 58 : A[i] = c
<1>1. x + 1 \in 1 .. 58 /\ DOMAIN A = 1 .. 58 /\ c \in Nat
  BY AlphabetType
<1>2. \A i \in 1 .. 58 : A[i] = c => i = x + 1
  BY <1>1, AlphabetType
<1>3. DigitOf(c) = k - 1
  BY DEF DigitOf
<1>. HIDE DEF A
<1>4. k = x + 1
  BY <1>1, <1>2
<1>. HIDE DEF k
<1>5. c \in ToSet(A)
  BY <1>1 DEF ToSet
<1>6. DigitOf(c) = x
  BY <1>3, <1>4
<1>. QED  BY <1>1, <1>5, <1>6 DEF A

LEMMA CharacterIsDigit ==
  ASSUME NEW c \in ToSet(Base58Alphabet)
  PROVE  DigitOf(c) \in 0 .. 57 /\ Base58Alphabet[DigitOf(c) + 1] = c
<1>. DEFINE A == Base58Alphabet  k == CHOOSE i \in 1 .. 58 : A[i] = c
<1>1. DOMAIN A = 1 .. 58
  BY AlphabetType
<1>2. DigitOf(c) = k - 1
  BY DEF DigitOf
<1>3. \E i \in 1 .. 58 : A[i] = c
  BY <1>1 DEF ToSet
<1>. HIDE DEF A
<1>4. k \in 1 .. 58 /\ A[k] = c
  BY <1>3
<1>. HIDE DEF k
<1>5. DigitOf(c) \in 0 .. 57 /\ DigitOf(c) + 1 = k
  BY <1>2, <1>4
<1>. QED  BY <1>4, <1>5 DEF A

\* The characters of digits, and the digits of characters.
Spelled(d) == [k \in DOMAIN d |-> Base58Alphabet[d[k] + 1]]
Unspelled(text) == [k \in DOMAIN text |-> DigitOf(text[k])]

LEMMA SpelledIs ==
  ASSUME NEW d \in Seq(0 .. 57)
  PROVE  Spelled(d) \in Seq(Nat) /\ IsBase58(Spelled(d)) /\ Unspelled(Spelled(d)) = d
<1>. DEFINE t == Spelled(d)  u == Unspelled(t)
<1>1. Len(d) \in Nat /\ DOMAIN d = 1 .. Len(d) /\ \A k \in 1 .. Len(d) : d[k] \in 0 .. 57
  <2>. DEFINE T == 0 .. 57
  <2>1. d \in Seq(T)
    OBVIOUS
  <2>. HIDE DEF T
  <2>2. Len(d) \in Nat /\ DOMAIN d = 1 .. Len(d) /\ \A k \in 1 .. Len(d) : d[k] \in T
    BY <2>1, SeqFacts
  <2>. QED  BY <2>2 DEF T
<1>2. t = [k \in 1 .. Len(d) |-> Base58Alphabet[d[k] + 1]]
  BY <1>1 DEF Spelled
<1>. HIDE DEF t
<1>3. \A k \in 1 .. Len(d) : t[k] = Base58Alphabet[d[k] + 1]
  BY <1>2
<1>4. ASSUME NEW k \in 1 .. Len(d)
      PROVE  t[k] \in Nat /\ t[k] \in ToSet(Base58Alphabet) /\ DigitOf(t[k]) = d[k]
  BY <1>1, <1>3, DigitHasCharacter
<1>5. DOMAIN t = 1 .. Len(d)
  BY <1>2
<1>6. t \in Seq(Nat)
  <2>1. t \in [1 .. Len(d) -> Nat]
    BY <1>2, <1>3, <1>4
  <2>. QED  BY <1>1, <2>1
<1>7. IsBase58(t)
  BY <1>4, <1>5 DEF IsBase58, ToSet
<1>8. u = d
  <2>1. u = [k \in 1 .. Len(d) |-> DigitOf(t[k])]
    BY <1>5 DEF Unspelled
  <2>2. d = [k \in 1 .. Len(d) |-> d[k]]
    BY <1>1
  <2>3. [k \in 1 .. Len(d) |-> DigitOf(t[k])] = [k \in 1 .. Len(d) |-> d[k]]
    BY <1>4
  <2>. QED  BY <2>1, <2>2, <2>3
<1>. QED  BY <1>6, <1>7, <1>8 DEF t

LEMMA UnspelledIs ==
  ASSUME NEW text \in Seq(Nat), IsBase58(text)
  PROVE  Unspelled(text) \in Seq(0 .. 57) /\ Spelled(Unspelled(text)) = text
<1>. DEFINE d == Unspelled(text)
<1>1. Len(text) \in Nat /\ DOMAIN text = 1 .. Len(text)
  OBVIOUS
<1>2. ASSUME NEW k \in 1 .. Len(text)
      PROVE  DigitOf(text[k]) \in 0 .. 57 /\ Base58Alphabet[DigitOf(text[k]) + 1] = text[k]
  <2>1. text[k] \in ToSet(Base58Alphabet)
    BY <1>1 DEF IsBase58, ToSet
  <2>. QED  BY <2>1, CharacterIsDigit
<1>3. d = [k \in 1 .. Len(text) |-> DigitOf(text[k])]
  BY <1>1 DEF Unspelled
<1>. HIDE DEF d
<1>4. DOMAIN d = 1 .. Len(text) /\ \A k \in 1 .. Len(text) : d[k] = DigitOf(text[k])
  BY <1>3
<1>5. d \in Seq(0 .. 57)
  <2>. DEFINE T == 0 .. 57
  <2>1. d \in [1 .. Len(text) -> T]
    BY <1>2, <1>3
  <2>. HIDE DEF T
  <2>2. d \in Seq(T)
    BY <1>1, <2>1, MakesSeq
  <2>. QED  BY <2>2 DEF T
<1>6. Spelled(d) = [k \in 1 .. Len(text) |-> Base58Alphabet[d[k] + 1]]
  BY <1>4 DEF Spelled
<1>7. text = [k \in 1 .. Len(text) |-> text[k]]
  BY <1>1
<1>8. [k \in 1 .. Len(text) |-> Base58Alphabet[d[k] + 1]] = [k \in 1 .. Len(text) |-> text[k]]
  BY <1>2, <1>4
<1>. QED  BY <1>5, <1>6, <1>7, <1>8 DEF d

\* Bytes are read back from their text in base58, and a text is the one of the
\* bytes it is read as.
LEMMA BytesFromBase58 ==
  ASSUME NEW raw \in Seq(Byte)
  PROVE  Base58(raw) \in Seq(Nat) /\ IsBase58(Base58(raw)) /\ FromBase58(Base58(raw)) = raw
<1>. DEFINE d == Rebased(raw, ByteSize, 58)
<1>1. d \in Seq(0 .. 57) /\ Rebased(d, 58, ByteSize) = raw
  <2>1. d \in Seq(0 .. 58 - 1) /\ Rebased(d, 58, ByteSize) = raw
    BY SizeType, RebasedBack
  <2>2. 0 .. 58 - 1 = 0 .. 57
    OBVIOUS
  <2>. QED  BY <2>1, <2>2, Zenon
<1>2. Base58(raw) = Spelled(d)
  BY Zenon DEF Base58, Spelled
<1>3. FromBase58(Spelled(d)) = Rebased(Unspelled(Spelled(d)), 58, ByteSize)
  BY Zenon DEF FromBase58, Unspelled
<1>. HIDE DEF d
<1>. QED  BY <1>1, <1>2, <1>3, SpelledIs

LEMMA Base58FromBytes ==
  ASSUME NEW text \in Seq(Nat), IsBase58(text)
  PROVE  FromBase58(text) \in Seq(Byte) /\ Base58(FromBase58(text)) = text
<1>. DEFINE d == Unspelled(text)  raw == Rebased(d, 58, ByteSize)
<1>1. d \in Seq(0 .. 57) /\ Spelled(d) = text
  BY UnspelledIs
<1>2. FromBase58(text) = raw
  BY Zenon DEF FromBase58, Unspelled
<1>3. Base58(raw) = Spelled(Rebased(raw, ByteSize, 58))
  BY Zenon DEF Base58, Spelled
<1>. HIDE DEF d
<1>4. raw \in Seq(Byte) /\ Rebased(raw, ByteSize, 58) = d
  <2>1. 0 .. 58 - 1 = 0 .. 57
    OBVIOUS
  <2>2. d \in Seq(0 .. 58 - 1)
    BY <1>1, <2>1, Zenon
  <2>. QED  BY <2>2, SizeType, RebasedBack
<1>. HIDE DEF raw
<1>. QED  BY <1>1, <1>2, <1>3, <1>4

----------------------------------------------------------------------------
(* The parts of a DID.                                                     *)

\* p is the first position from pos on of one of chars, or the end.
IsUpTo(s, pos, chars, p) ==
  /\ p \in pos .. Len(s)
  /\ p < Len(s) => s[p + 1] \in chars
  /\ \A q \in pos .. p - 1 : s[q + 1] \notin chars

LEMMA UpToIs ==
  ASSUME NEW s \in Seq(Nat), NEW pos \in 0 .. Len(s), NEW chars \in SUBSET Nat
  PROVE  IsUpTo(s, pos, chars, UpTo(s, pos, chars))
<1>. DEFINE StopsAt(p) == (At(s, p) = End \/ At(s, p) \in chars) /\ \A q \in pos .. p - 1 : At(s, q) \notin chars
            S == {p \in pos .. Len(s) : p < Len(s) => s[p + 1] \in chars}
            E == CHOOSE p \in pos .. Len(s) : StopsAt(p)
<1>1. Len(s) \in Nat /\ \A k \in 1 .. Len(s) : s[k] \in Nat
  BY SeqFacts
<1>2. \A p \in 0 .. Len(s) : At(s, p) = IF p < Len(s) THEN s[p + 1] ELSE -1
  BY DEF At, End
<1>3. ASSUME NEW p \in pos .. Len(s) PROVE StopsAt(p) <=> IsUpTo(s, pos, chars, p)
  <2>1. p \in 0 .. Len(s)
    BY <1>1
  <2>2. (At(s, p) = End \/ At(s, p) \in chars) <=> (p < Len(s) => s[p + 1] \in chars)
    <3>1. CASE p < Len(s)
      <4>1. p + 1 \in 1 .. Len(s)
        BY <1>1, <2>1, <3>1
      <4>2. At(s, p) = s[p + 1] /\ s[p + 1] # -1
        BY <1>1, <1>2, <2>1, <3>1, <4>1
      <4>. QED  BY <3>1, <4>2 DEF End
    <3>2. CASE ~(p < Len(s))
      BY <1>2, <2>1, <3>2 DEF End
    <3>. QED  BY <3>1, <3>2
  <2>3. ASSUME NEW q \in pos .. p - 1 PROVE At(s, q) = s[q + 1]
    <3>1. q \in 0 .. Len(s) /\ q < Len(s)
      BY <1>1, <2>1
    <3>. QED  BY <1>2, <3>1
  <2>. QED  BY <2>2, <2>3 DEF IsUpTo
<1>4. \E p \in pos .. Len(s) : IsUpTo(s, pos, chars, p)
  <2>1. Len(s) \in S /\ S \subseteq Nat
    BY <1>1
  <2>2. PICK p \in S : \A q \in S : p <= q
    BY <2>1, Least
  <2>3. ASSUME NEW q \in pos .. p - 1 PROVE s[q + 1] \notin chars
    <3>1. p \in pos .. Len(s)
      OBVIOUS
    <3>2. q \in pos .. Len(s) /\ q < Len(s) /\ ~(p <= q)
      BY <1>1, <3>1
    <3>3. q \notin S
      BY <2>2, <3>2
    <3>. QED  BY <3>2, <3>3
  <2>. QED  BY <2>3 DEF IsUpTo
<1>5. UpTo(s, pos, chars) = E
  BY Zenon DEF UpTo
<1>. HIDE DEF StopsAt
<1>6. E \in pos .. Len(s) /\ StopsAt(E)
  BY <1>3, <1>4
<1>. QED  BY <1>3, <1>5, <1>6

LEMMA UpToOne ==
  ASSUME NEW s \in Seq(Nat), NEW pos \in Nat, NEW chars, NEW p, IsUpTo(s, pos, chars, p),
         NEW q, IsUpTo(s, pos, chars, q)
  PROVE  p = q
<1>1. Len(s) \in Nat
  OBVIOUS
<1>2. p \in pos .. Len(s) /\ q \in pos .. Len(s)
  BY DEF IsUpTo
<1>3. ~(p < q)
  <2>1. p < q => p \in pos .. q - 1 /\ p < Len(s)
    BY <1>1, <1>2
  <2>. QED  BY <2>1 DEF IsUpTo
<1>4. ~(q < p)
  <2>1. q < p => q \in pos .. p - 1 /\ q < Len(s)
    BY <1>1, <1>2
  <2>. QED  BY <2>1 DEF IsUpTo
<1>. QED  BY <1>1, <1>2, <1>3, <1>4

\* t is what is in s from position z to position n.
IsCut(t, s, z, n, T) ==
  t \in Seq(T) /\ Len(t) = n - z /\ \A i \in 1 .. n - z : t[i] = s[z + i]

LEMMA CutIs ==
  ASSUME NEW T, NEW s \in Seq(T), NEW z \in Nat, NEW n \in Nat, z <= n, n <= Len(s)
  PROVE  IsCut(SubSeq(s, z + 1, n), s, z, n, T)
<1>. DEFINE t == SubSeq(s, z + 1, n)
<1>1. Len(s) \in Nat
  OBVIOUS
<1>2. t \in Seq(T) /\ Len(t) = n - z /\ \A i \in 1 .. n - z : t[i] = s[z + i]
  BY <1>1
<1>. QED  BY <1>2 DEF IsCut

\* What the text of a did:key begins with, character by character.
LEMMA KeyTexts ==
  /\ KeyPrefix \in Seq(Nat) /\ Len(KeyPrefix) = 8
  /\ DidScheme \in Seq(Nat) /\ Len(DidScheme) = 4 /\ \A k \in 1 .. 4 : DidScheme[k] = KeyPrefix[k]
  /\ KeyMethod \in Seq(Nat) /\ Len(KeyMethod) = 3 /\ \A k \in 1 .. 3 : KeyMethod[k] = KeyPrefix[4 + k]
  /\ \A k \in 5 .. 7 : KeyPrefix[k] # Colon
  /\ KeyPrefix[8] = Colon /\ Colon \in Nat
  /\ \A k \in 1 .. 8 : KeyPrefix[k] \notin UrlParts
<1>. DEFINE P == KeyPrefix  S == DidScheme  M == KeyMethod
<1>1. /\ P \in Seq(Nat) /\ Len(P) = 8 /\ ToSet(P) \cap UrlParts = {} /\ S = SubSeq(P, 1, 4)
      /\ M = SubSeq(P, 5, 7) /\ Colon \notin ToSet(M) /\ P[8] = Colon
  BY Zenon, KeyTextAssumption
<1>. HIDE DEF P, S, M
<1>2. DOMAIN P = 1 .. 8 /\ \A k \in 1 .. 8 : P[k] \in Nat
  BY <1>1, SeqFacts
<1>3. S \in Seq(Nat) /\ Len(S) = 4 /\ \A k \in 1 .. 4 : S[k] = P[k]
  <2>1. 0 \in Nat /\ 4 \in Nat /\ 0 <= 4 /\ 4 <= Len(P) /\ 0 + 1 = 1
    BY <1>1
  <2>2. IsCut(SubSeq(P, 0 + 1, 4), P, 0, 4, Nat)
    BY <1>1, <2>1, CutIs, Zenon
  <2>3. IsCut(S, P, 0, 4, Nat)
    BY <1>1, <2>1, <2>2
  <2>. QED  BY <2>3 DEF IsCut
<1>4. M \in Seq(Nat) /\ Len(M) = 3 /\ \A k \in 1 .. 3 : M[k] = P[4 + k]
  <2>1. 4 \in Nat /\ 7 \in Nat /\ 4 <= 7 /\ 7 <= Len(P) /\ 4 + 1 = 5
    BY <1>1
  <2>2. IsCut(SubSeq(P, 4 + 1, 7), P, 4, 7, Nat)
    BY <1>1, <2>1, CutIs, Zenon
  <2>3. IsCut(M, P, 4, 7, Nat)
    BY <1>1, <2>1, <2>2
  <2>. QED  BY <2>3 DEF IsCut
<1>5. DOMAIN M = 1 .. 3
  BY <1>4, SeqFacts
<1>6. ASSUME NEW k \in 5 .. 7 PROVE P[k] # Colon
  <2>1. k - 4 \in 1 .. 3 /\ 4 + (k - 4) = k
    OBVIOUS
  <2>2. M[k - 4] = P[k] /\ M[k - 4] \in ToSet(M)
    BY <1>4, <1>5, <2>1 DEF ToSet
  <2>. QED  BY <1>1, <2>2
<1>7. ASSUME NEW k \in 1 .. 8 PROVE P[k] \notin UrlParts
  <2>1. P[k] \in ToSet(P)
    BY <1>2 DEF ToSet
  <2>. QED  BY <1>1, <2>1
<1>. QED  BY <1>1, <1>2, <1>3, <1>4, <1>6, <1>7 DEF P, S, M

LEMMA NoUrlParts == UrlParts \in SUBSET Nat
  BY Zenon, KeyTextAssumption

LEMMA WholeCut ==
  ASSUME NEW T, NEW s \in Seq(T), NEW n \in 0 .. Len(s)
  PROVE  IsCut(SubSeq(s, 1, n), s, 0, n, T)
<1>1. 0 \in Nat /\ n \in Nat /\ 0 <= n /\ n <= Len(s) /\ 0 + 1 = 1
  OBVIOUS
<1>2. IsCut(SubSeq(s, 0 + 1, n), s, 0, n, T)
  BY <1>1, CutIs, Zenon
<1>. QED  BY <1>1, <1>2

LEMMA UpToEight == \A n \in Nat : n >= 8 => 4 \in 0 .. n /\ 7 \in 0 .. n
OBVIOUS

\* The colon after the method is a text's eighth character if what it begins
\* with is that of a did:key.
LEMMA MethodEndIs ==
  ASSUME NEW text \in Seq(Nat), Len(text) >= 8, \A k \in 1 .. 8 : text[k] = KeyPrefix[k]
  PROVE  MethodEnd(text) = 7 /\ MethodOf(text) = KeyMethod
<1>1. Len(text) \in Nat /\ 4 \in 0 .. Len(text) /\ 7 \in 0 .. Len(text) /\ {Colon} \in SUBSET Nat
  <2>1. Len(text) \in Nat
    OBVIOUS
  <2>2. Colon \in Nat
    BY KeyTexts
  <2>3. {Colon} \in SUBSET Nat
    BY <2>2, Zenon
  <2>4. 4 \in 0 .. Len(text) /\ 7 \in 0 .. Len(text)
    BY <2>1, UpToEight, Zenon
  <2>. QED  BY <2>1, <2>3, <2>4, Zenon
<1>2. IsUpTo(text, 4, {Colon}, UpTo(text, 4, {Colon}))
  BY <1>1, UpToIs
<1>3. IsUpTo(text, 4, {Colon}, 7)
  <2>1. ASSUME NEW q \in 4 .. 7 - 1 PROVE text[q + 1] # Colon
    <3>1. q + 1 \in 5 .. 7 /\ q + 1 \in 1 .. 8
      OBVIOUS
    <3>. QED  BY <3>1, KeyTexts
  <2>2. text[7 + 1] = Colon
    <3>1. 7 + 1 = 8 /\ 8 \in 1 .. 8
      OBVIOUS
    <3>. QED  BY <3>1, KeyTexts
  <2>3. 7 \in 4 .. Len(text)
    BY <1>1
  <2>. QED  BY <2>1, <2>2, <2>3 DEF IsUpTo
<1>4. UpTo(text, 4, {Colon}) = 7
  BY <1>2, <1>3, UpToOne
<1>5. MethodEnd(text) = 7
  BY <1>4, KeyTexts DEF MethodEnd
<1>. DEFINE m == SubSeq(text, 4 + 1, 7)
<1>6. IsCut(m, text, 4, 7, Nat)
  <2>1. 4 \in Nat /\ 7 \in Nat /\ 4 <= 7 /\ 7 <= Len(text)
    OBVIOUS
  <2>. QED  BY <2>1, CutIs, Zenon
<1>7. MethodOf(text) = m
  BY <1>5, KeyTexts DEF MethodOf
<1>. HIDE DEF m
<1>8. m \in Seq(Nat) /\ Len(m) = 3 /\ \A i \in 1 .. 3 : m[i] = text[4 + i]
  BY <1>6 DEF IsCut
<1>9. ASSUME NEW i \in 1 .. Len(m) PROVE m[i] = KeyMethod[i]
  <2>1. i \in 1 .. 3 /\ 4 + i \in 1 .. 8
    BY <1>8
  <2>. QED  BY <1>8, <2>1, KeyTexts
<1>10. m = KeyMethod
  <2>1. KeyMethod \in Seq(Nat) /\ Len(KeyMethod) = 3
    BY KeyTexts
  <2>. QED  BY <1>8, <1>9, <2>1, SameSequence
<1>. QED  BY <1>5, <1>7, <1>10

LEMMA BaseIs ==
  ASSUME NEW text \in Seq(Nat)
  PROVE  \E u \in 0 .. Len(text) :
           /\ IsUpTo(text, 0, UrlParts, u)
           /\ BaseOf(text) = SubSeq(text, 1, u) /\ IsCut(BaseOf(text), text, 0, u, Nat)
<1>. DEFINE u == UpTo(text, 0, UrlParts)
<1>1. 0 \in 0 .. Len(text) /\ Len(text) \in Nat
  OBVIOUS
<1>2. IsUpTo(text, 0, UrlParts, u)
  BY <1>1, NoUrlParts, UpToIs
<1>3. BaseOf(text) = SubSeq(text, 1, u)
  BY DEF BaseOf
<1>. HIDE DEF u
<1>4. u \in 0 .. Len(text)
  BY <1>2 DEF IsUpTo
<1>5. IsCut(SubSeq(text, 1, u), text, 0, u, Nat)
  BY <1>4, WholeCut
<1>. QED  BY <1>2, <1>3, <1>4, <1>5

\* The method of a text is that of a did:key if its base begins as one.
LEMMA PrefixHasMethod ==
  ASSUME NEW text \in Seq(Nat), NEW rest \in Seq(Nat), BaseOf(text) = KeyPrefix \o rest
  PROVE  MethodOf(text) = KeyMethod
<1>1. PICK u \in 0 .. Len(text) : IsCut(BaseOf(text), text, 0, u, Nat)
  BY BaseIs
<1>2. IsConcat(KeyPrefix \o rest, KeyPrefix, rest)
  BY KeyTexts, ConcatType
<1>. DEFINE b == BaseOf(text)
<1>3. Len(b) = 8 + Len(rest) /\ Len(rest) \in Nat /\ \A k \in 1 .. 8 : b[k] = KeyPrefix[k]
  BY <1>2, KeyTexts DEF IsConcat
<1>. HIDE DEF b
<1>4. Len(b) = u /\ \A k \in 1 .. u : b[k] = text[k]
  <2>1. u \in Nat /\ u - 0 = u /\ \A k \in 1 .. u : 0 + k = k
    OBVIOUS
  <2>. QED  BY <1>1, <2>1 DEF IsCut, b
<1>5. Len(text) >= 8 /\ \A k \in 1 .. 8 : text[k] = KeyPrefix[k]
  <2>1. u >= 8 /\ u \in Nat /\ Len(text) \in Nat /\ u <= Len(text)
    BY <1>3, <1>4
  <2>. QED  BY <1>3, <1>4, <2>1
<1>. QED  BY <1>5, MethodEndIs

\* The base of a DID of that method is the prefix and its identifier, which is
\* not empty.
LEMMA DidParts ==
  ASSUME NEW text \in Seq(Nat), DidError(text) = "Ok", MethodOf(text) = KeyMethod
  PROVE  /\ BaseOf(text) = KeyPrefix \o MethodIdOf(text)
         /\ MethodIdOf(text) \in Seq(Nat) /\ Len(MethodIdOf(text)) > 0
<1>. DEFINE e == MethodEnd(text)  past == UpTo(text, e + 1, UrlParts)
<1>1. Begins(text, 0, DidScheme) /\ DidPartsError(text, e, past) = "Ok"
  BY DEF DidError
<1>2. At(text, e) # End /\ past # e + 1
  <2>. HIDE DEF e, past
  <2>. QED  BY <1>1 DEF DidPartsError
<1>3. Len(text) \in Nat /\ Len(text) >= 4 /\ \A k \in 1 .. 4 : text[k] = KeyPrefix[k]
  <2>1. 0 + Len(DidScheme) <= Len(text) /\ SubSeq(text, 0 + 1, 0 + Len(DidScheme)) = DidScheme
    BY <1>1 DEF Begins
  <2>2. Len(text) \in Nat /\ 4 \in 0 .. Len(text) /\ SubSeq(text, 1, 4) = DidScheme
    BY <2>1, KeyTexts
  <2>3. IsCut(DidScheme, text, 0, 4, Nat)
    BY <2>2, WholeCut
  <2>4. \A k \in 1 .. 4 : DidScheme[k] = text[k]
    BY <2>3 DEF IsCut
  <2>5. \A k \in 1 .. 4 : DidScheme[k] = KeyPrefix[k]
    BY KeyTexts
  <2>6. \A k \in 1 .. 4 : text[k] = KeyPrefix[k]
    BY Zenon, <2>4, <2>5
  <2>. QED  BY <2>2, <2>6
<1>4. IsUpTo(text, 4, {Colon}, e)
  <2>1. 4 \in 0 .. Len(text) /\ {Colon} \in SUBSET Nat
    BY <1>3, KeyTexts
  <2>2. IsUpTo(text, 4, {Colon}, UpTo(text, 4, {Colon}))
    BY <2>1, UpToIs
  <2>. QED  BY <2>2, KeyTexts DEF MethodEnd
<1>. HIDE DEF e
<1>5. e \in 4 .. Len(text) /\ e < Len(text) /\ text[e + 1] = Colon
  <2>1. e \in 4 .. Len(text) /\ (e < Len(text) => text[e + 1] \in {Colon})
    BY <1>4 DEF IsUpTo
  <2>. QED  BY <1>2, <1>3, <2>1 DEF At
<1>. DEFINE m == SubSeq(text, 4 + 1, e)
<1>6. IsCut(m, text, 4, e, Nat)
  <2>1. 4 \in Nat /\ e \in Nat /\ 4 <= e /\ e <= Len(text)
    BY <1>3, <1>5
  <2>. QED  BY <2>1, CutIs, Zenon
<1>7. m = KeyMethod
  BY KeyTexts DEF MethodOf, e
<1>. HIDE DEF m
<1>8. e = 7 /\ \A i \in 1 .. 3 : KeyMethod[i] = text[4 + i]
  <2>1. e - 4 = 3
    BY <1>5, <1>6, <1>7, KeyTexts DEF IsCut
  <2>2. e = 7
    BY <1>5, <2>1
  <2>. QED  BY <1>6, <1>7, <2>1, <2>2 DEF IsCut
<1>9. Len(text) >= 8 /\ \A k \in 1 .. 8 : text[k] = KeyPrefix[k]
  <2>1. text[8] = KeyPrefix[8]
    BY <1>5, <1>8, KeyTexts
  <2>2. ASSUME NEW k \in 5 .. 7 PROVE text[k] = KeyPrefix[k]
    <3>1. k - 4 \in 1 .. 3 /\ 4 + (k - 4) = k
      OBVIOUS
    <3>2. KeyMethod[k - 4] = text[4 + (k - 4)]
      BY <1>8, <3>1
    <3>3. KeyMethod[k - 4] = KeyPrefix[4 + (k - 4)]
      BY <3>1, KeyTexts
    <3>. QED  BY <3>1, <3>2, <3>3
  <2>3. Len(text) >= 8
    BY <1>3, <1>5, <1>8
  <2>4. \A k \in 1 .. 8 : k \in 1 .. 4 \/ k \in 5 .. 7 \/ k = 8
    OBVIOUS
  <2>. QED  BY <1>3, <2>1, <2>2, <2>3, <2>4
<1>10. IsUpTo(text, 8, UrlParts, past) /\ past # 8
  <2>1. e + 1 = 8 /\ 8 \in 0 .. Len(text)
    BY <1>3, <1>8, <1>9
  <2>. QED  BY <1>2, <2>1, NoUrlParts, UpToIs
<1>. HIDE DEF past
<1>11. past \in 9 .. Len(text) /\ IsUpTo(text, 0, UrlParts, past)
  <2>1. past \in 8 .. Len(text) /\ (past < Len(text) => text[past + 1] \in UrlParts)
        /\ \A q \in 8 .. past - 1 : text[q + 1] \notin UrlParts
    BY <1>10 DEF IsUpTo
  <2>2. past \in 9 .. Len(text) /\ past \in 0 .. Len(text)
    BY <1>3, <1>10, <2>1
  <2>3. ASSUME NEW q \in 0 .. past - 1 PROVE text[q + 1] \notin UrlParts
    <3>1. CASE q < 8
      <4>1. q + 1 \in 1 .. 8
        BY <3>1
      <4>. QED  BY <1>9, <4>1, KeyTexts
    <3>2. CASE ~(q < 8)
      <4>1. q \in 8 .. past - 1
        BY <2>2, <3>2
      <4>. QED  BY <2>1, <4>1
    <3>. QED  BY <3>1, <3>2
  <2>. QED  BY <2>1, <2>2, <2>3 DEF IsUpTo
<1>12. PICK u \in 0 .. Len(text) : IsUpTo(text, 0, UrlParts, u) /\ IsCut(BaseOf(text), text, 0, u, Nat)
  BY BaseIs
<1>13. u = past
  <2>1. 0 \in Nat
    OBVIOUS
  <2>. QED  BY <1>11, <1>12, <2>1, UpToOne
<1>. DEFINE b == BaseOf(text)  id == MethodIdOf(text)
<1>14. b \in Seq(Nat) /\ Len(b) = u /\ \A k \in 1 .. u : b[k] = text[k]
  <2>1. u \in Nat /\ u - 0 = u /\ \A k \in 1 .. u : 0 + k = k
    OBVIOUS
  <2>. QED  BY <1>12, <2>1 DEF IsCut
<1>15. id = SubSeq(b, 8 + 1, Len(b))
  <2>1. MethodEnd(text) + 2 = 8 + 1
    BY <1>8 DEF e
  <2>. QED  BY <2>1 DEF MethodIdOf
<1>. HIDE DEF b, id
<1>16. u \in Nat /\ u >= 9 /\ 8 \in 0 .. Len(b)
  BY <1>3, <1>11, <1>13, <1>14
<1>17. id \in Seq(Nat) /\ Len(id) = u - 8
  <2>1. 8 \in Nat /\ Len(b) \in Nat /\ 8 <= Len(b) /\ Len(b) <= Len(b)
    BY <1>14, <1>16
  <2>2. IsCut(SubSeq(b, 8 + 1, Len(b)), b, 8, Len(b), Nat)
    BY <1>14, <2>1, CutIs, Zenon
  <2>. QED  BY <1>14, <1>15, <2>2 DEF IsCut
<1>18. SubSeq(b, 1, 8) = KeyPrefix
  <2>. DEFINE p == SubSeq(b, 1, 8)
  <2>1. IsCut(p, b, 0, 8, Nat)
    BY <1>14, <1>16, WholeCut
  <2>. HIDE DEF p
  <2>2. p \in Seq(Nat) /\ Len(p) = 8 /\ \A k \in 1 .. 8 : p[k] = b[k]
    BY <2>1 DEF IsCut
  <2>3. ASSUME NEW k \in 1 .. Len(p) PROVE p[k] = KeyPrefix[k]
    <3>1. k \in 1 .. 8 /\ k \in 1 .. u
      <4>1. Len(p) = 8 /\ u \in Nat /\ u >= 9
        BY <1>16, <2>2, Zenon
      <4>. QED  BY <4>1
    <3>2. p[k] = b[k]
      BY <2>2, <3>1
    <3>3. b[k] = text[k]
      BY <1>14, <3>1
    <3>4. text[k] = KeyPrefix[k]
      BY <1>9, <3>1
    <3>. QED  BY <3>2, <3>3, <3>4
  <2>4. p = KeyPrefix
    <3>1. KeyPrefix \in Seq(Nat) /\ Len(KeyPrefix) = 8
      BY KeyTexts
    <3>2. Len(p) = Len(KeyPrefix)
      BY <2>2, <3>1
    <3>. QED  BY <2>2, <2>3, <3>1, <3>2, SameSequence
  <2>. QED  BY <2>4 DEF p
<1>19. SubSeq(b, 1, 8) \o SubSeq(b, 8 + 1, Len(b)) = b
  BY <1>14, <1>16, TwoParts
<1>20. b = KeyPrefix \o id
  BY <1>15, <1>18, <1>19
<1>21. Len(id) > 0
  BY <1>16, <1>17
<1>. QED  BY <1>17, <1>20, <1>21 DEF b, id

----------------------------------------------------------------------------
(* The key that a did:key names.                                           *)

LEMMA AlgorithmsAre ==
  ASSUME NEW a
  PROVE  a \in Algorithms <=> \/ a = "Ed25519" \/ a = "P256" \/ a = "Secp256k1"
                              \/ a = "MlDsa44" \/ a = "MlDsa65" \/ a = "MlDsa87"
<1>1. /\ DOMAIN All = 1 .. 6 /\ All[1] = "Ed25519" /\ All[2] = "P256" /\ All[3] = "Secp256k1"
      /\ All[4] = "MlDsa44" /\ All[5] = "MlDsa65" /\ All[6] = "MlDsa87"
  BY DEF All
<1>2. \A k : k \in 1 .. 6 <=> k = 1 \/ k = 2 \/ k = 3 \/ k = 4 \/ k = 5 \/ k = 6
  OBVIOUS
<1>3. a \in Algorithms <=> \E k \in DOMAIN All : a = All[k]
  BY Zenon DEF Algorithms, ToSet
<1>. QED  BY <1>1, <1>2, <1>3

LEMMA CodesTell ==
  /\ \A a \in Algorithms : Multicodec(a) \in Nat
  /\ \A a, b \in Algorithms : Multicodec(a) = Multicodec(b) => a = b
<1>1. /\ Multicodec("Ed25519") = 237 /\ Multicodec("P256") = 4608 /\ Multicodec("Secp256k1") = 231
      /\ Multicodec("MlDsa44") = 4624 /\ Multicodec("MlDsa65") = 4625 /\ Multicodec("MlDsa87") = 4626
  BY DEF Multicodec
<1>. QED  BY <1>1, AlgorithmsAre

LEMMA CodeOf ==
  ASSUME NEW a \in Algorithms
  PROVE  IsMulticodec(Multicodec(a)) /\ FromMulticodec(Multicodec(a)) = a
<1>. DEFINE c == CHOOSE x \in Algorithms : Multicodec(x) = Multicodec(a)
<1>1. c \in Algorithms /\ Multicodec(c) = Multicodec(a)
  OBVIOUS
<1>2. c = a
  BY <1>1, CodesTell
<1>3. FromMulticodec(Multicodec(a)) = c
  BY Zenon DEF FromMulticodec
<1>. QED  BY <1>2, <1>3 DEF IsMulticodec

LEMMA CodeFrom ==
  ASSUME NEW code, IsMulticodec(code)
  PROVE  FromMulticodec(code) \in Algorithms /\ Multicodec(FromMulticodec(code)) = code
  BY DEF IsMulticodec, FromMulticodec

LEMMA TailIs ==
  ASSUME NEW T, NEW a \in Seq(T), NEW b \in Seq(T)
  PROVE  SubSeq(a \o b, Len(a) + 1, Len(a \o b)) = b
<1>. DEFINE c == a \o b  t == SubSeq(c, Len(a) + 1, Len(c))
<1>1. c \in Seq(T) /\ IsConcat(c, a, b)
  BY ConcatType
<1>. HIDE DEF c
<1>2. Len(a) \in Nat /\ Len(c) \in Nat /\ Len(a) <= Len(c) /\ Len(c) <= Len(c) /\ Len(c) - Len(a) = Len(b)
  BY <1>1 DEF IsConcat
<1>3. IsCut(t, c, Len(a), Len(c), T)
  BY <1>1, <1>2, CutIs
<1>. HIDE DEF t
<1>4. t \in Seq(T) /\ Len(t) = Len(b) /\ \A i \in 1 .. Len(b) : t[i] = c[Len(a) + i]
  BY <1>2, <1>3 DEF IsCut
<1>5. \A i \in 1 .. Len(b) : c[Len(a) + i] = b[i]
  BY <1>1 DEF IsConcat
<1>6. \A i \in 1 .. Len(t) : t[i] = b[i]
  BY <1>4, <1>5
<1>7. t = b
  BY <1>4, <1>6, SameSequence
<1>. QED  BY <1>7 DEF t, c

\* What a key is in a did:key.
RawKey(key) == PutUvarint(Multicodec(key.algorithm)) \o key.bytes

\* A key is read back from its raw bytes.
LEMMA KeyIsIn ==
  ASSUME NEW key \in Keys
  PROVE  RawKey(key) \in Seq(Byte) /\ KeyIn(RawKey(key)) = Read(key, 0)
<1>. DEFINE a == key.algorithm  n == Multicodec(a)  p == PutUvarint(n)  raw == p \o key.bytes
<1>1. /\ a \in Algorithms /\ n <= LargestVarint /\ key.bytes \in Seq(Byte)
      /\ PublicKey(a, key.bytes) = Read(key, 0)
  BY TokensFit, KeysFit
<1>2. n \in Nat /\ n \in 0 .. LargestVarint
  <2>1. n \in Nat /\ n <= LargestVarint
    BY <1>1, CodesTell
  <2>2. LargestVarint \in Int
    <3>1. MaxGroups - 1 \in 0 .. MaxGroups
      BY VarintAssumption
    <3>2. Groupings[MaxGroups - 1] \in Nat /\ MaxTop + 1 \in Nat
      BY <3>1, GroupingsRule, GroupType
    <3>. DEFINE P == (MaxTop + 1) * Groupings[MaxGroups - 1]
    <3>3. P \in Nat
      BY <3>2
    <3>4. LargestVarint = P - 1
      BY DEF LargestVarint
    <3>. HIDE DEF P
    <3>. QED  BY <3>3, <3>4
  <2>. HIDE DEF n
  <2>. QED  BY <2>1, <2>2
<1>3. p \in Seq(Byte)
  <2>1. Byte = 0 .. 2 * Group - 1
    BY WireAssumption DEF Byte
  <2>2. WellFormed(p)
    BY <1>2, PutIsWellFormed
  <2>. QED  BY <2>1, <2>2 DEF WellFormed
<1>4. ReadUvarint(raw) = [error |-> "Ok", value |-> n, length |-> Len(p)]
  BY <1>1, <1>2, WrittenIsRead
<1>5. IsMulticodec(n) /\ FromMulticodec(n) = a
  BY <1>1, CodeOf
<1>. HIDE DEF n, p
<1>6. SubSeq(raw, Len(p) + 1, Len(raw)) = key.bytes /\ raw \in Seq(Byte)
  BY <1>1, <1>3, TailIs, ConcatType
<1>. HIDE DEF raw
<1>7. KeyIn(raw) = OrElse(PublicKey(a, key.bytes), "Key")
  <2>. DEFINE code == ReadUvarint(raw)
  <2>1. code.error = "Ok" /\ code.value = n /\ code.length = Len(p)
    BY <1>4
  <2>2. KeyIn(raw) =
          IF code.error # "Ok" THEN Fail("Multibase")
          ELSE IF ~IsMulticodec(code.value) THEN Fail("UnknownKeyType")
          ELSE OrElse(PublicKey(FromMulticodec(code.value), SubSeq(raw, code.length + 1, Len(raw))), "Key")
    BY Zenon DEF KeyIn
  <2>. HIDE DEF code
  <2>. QED  BY <1>5, <1>6, <2>1, <2>2
<1>8. KeyIn(raw) = Read(key, 0)
  BY <1>1, <1>7 DEF OrElse, IsOk, Read
<1>. QED  BY <1>6, <1>8 DEF RawKey, raw, p, n

\* What is read as a key are its raw bytes.
LEMMA KeyHasRaw ==
  ASSUME NEW raw \in Seq(Byte), IsOk(KeyIn(raw))
  PROVE  RawKey(KeyIn(raw).value) = raw
<1>. DEFINE code == ReadUvarint(raw)  a == FromMulticodec(code.value)  b == SubSeq(raw, code.length + 1, Len(raw))
            key == [algorithm |-> a, bytes |-> b]
<1>1. KeyIn(raw) = IF code.error # "Ok" THEN Fail("Multibase")
                   ELSE IF ~IsMulticodec(code.value) THEN Fail("UnknownKeyType")
                   ELSE OrElse(PublicKey(a, b), "Key")
  BY Zenon DEF KeyIn
<1>. HIDE DEF code, b
<1>2. ~IsOk(Fail("Multibase")) /\ ~IsOk(Fail("UnknownKeyType")) /\ ~IsOk(Fail("Key")) /\ ~IsOk(Fail("InvalidKey"))
  BY DEF Fail, IsOk
<1>3. code.error = "Ok" /\ IsMulticodec(code.value) /\ KeyIn(raw) = OrElse(PublicKey(a, b), "Key")
  BY <1>1, <1>2
<1>4. KeyIn(raw) = PublicKey(a, b) /\ IsOk(PublicKey(a, b))
  BY <1>2, <1>3 DEF OrElse
<1>5. PublicKey(a, b) = Read(key, 0)
  BY <1>2, <1>4 DEF PublicKey
<1>6. KeyIn(raw).value = key
  BY <1>4, <1>5 DEF Read
<1>7. Multicodec(a) = code.value
  BY <1>3, CodeFrom
<1>8. PutUvarint(code.value) = SubSeq(raw, 1, code.length) /\ code.length \in 1 .. Len(raw)
  BY <1>3, ReadIsWritten DEF code
<1>9. SubSeq(raw, 1, code.length) \o SubSeq(raw, code.length + 1, Len(raw)) = raw
  <2>1. code.length \in 0 .. Len(raw)
    BY <1>8
  <2>. QED  BY <2>1, TwoParts
<1>10. RawKey(key) = PutUvarint(Multicodec(a)) \o b
  BY DEF RawKey
<1>. QED  BY <1>6, <1>7, <1>8, <1>9, <1>10 DEF b

LEMMA DidIs ==
  ASSUME NEW key
  PROVE  DidOfKey(key) = KeyPrefix \o << Base58Btc >> \o Base58(RawKey(key))
  BY Zenon DEF DidOfKey, RawKey

LEMMA TailOf ==
  ASSUME NEW s \in Seq(Nat), Len(s) > 0
  PROVE  Tail(s) \in Seq(Nat) /\ s = << s[1] >> \o Tail(s)
<1>. DEFINE t == Tail(s)  c == << s[1] >> \o t
<1>1. /\ Len(s) \in Nat /\ s[1] \in Nat
      /\ t \in Seq(Nat) /\ Len(t) = Len(s) - 1 /\ \A i \in 1 .. Len(s) - 1 : t[i] = s[i + 1]
  OBVIOUS
<1>2. << s[1] >> \in Seq(Nat) /\ Len(<< s[1] >>) = 1 /\ << s[1] >>[1] = s[1]
  BY <1>1
<1>. DEFINE h == << s[1] >>
<1>. HIDE DEF t, h
<1>3. h \in Seq(Nat) /\ Len(h) = 1 /\ h[1] = s[1]
  BY <1>2 DEF h
<1>4. h \o t \in Seq(Nat) /\ IsConcat(h \o t, h, t)
  BY <1>1, <1>3, ConcatType
<1>. DEFINE d == h \o t
<1>5. d = c
  BY DEF h
<1>. HIDE DEF c, d
<1>6. Len(d) = Len(s) /\ d[1] = s[1] /\ \A i \in 1 .. Len(t) : d[1 + i] = t[i]
  <2>1. 1 \in 1 .. Len(h)
    BY <1>3
  <2>. QED  BY <1>1, <1>3, <1>4, <2>1 DEF IsConcat, d
<1>7. ASSUME NEW i \in 1 .. Len(s) PROVE s[i] = d[i]
  <2>1. CASE i = 1
    BY <1>6, <2>1
  <2>2. CASE i # 1
    <3>1. i - 1 \in 1 .. Len(t) /\ 1 + (i - 1) = i /\ i - 1 + 1 = i /\ i - 1 \in 1 .. Len(s) - 1
      BY <1>1, <2>2
    <3>. QED  BY <1>1, <1>6, <3>1
  <2>. QED  BY <2>1, <2>2
<1>8. s = d
  BY <1>4, <1>6, <1>7, SameSequence DEF d
<1>. QED  BY <1>1, <1>5, <1>8 DEF c, t

\* What follows the same is the same when all of it is.
LEMMA SameRest ==
  ASSUME NEW T, NEW a \in Seq(T), NEW s \in Seq(T), NEW t \in Seq(T), a \o s = a \o t
  PROVE  s = t
<1>1. SubSeq(a \o s, Len(a) + 1, Len(a \o s)) = s
  BY TailIs
<1>2. SubSeq(a \o t, Len(a) + 1, Len(a \o t)) = t
  BY TailIs
<1>. QED  BY <1>1, <1>2

\* How a text resolves whose method is that of a did:key.
LEMMA ResolvesBy ==
  ASSUME NEW text, MethodOf(text) = KeyMethod
  PROVE  LET id == MethodIdOf(text)
         IN  Resolve(text) = IF id[1] # Base58Btc THEN Fail("Multibase")
                             ELSE IF ~IsBase58(Tail(id)) THEN Fail("Base58")
                             ELSE KeyIn(FromBase58(Tail(id)))
  BY Zenon DEF Resolve, KeyOfDid

\* A key's name in two parts, of which the second is its identifier.
DidNameOf(key) == << Base58Btc >> \o Base58(RawKey(key))

LEMMA NameIs ==
  ASSUME NEW key, RawKey(key) \in Seq(Byte)
  PROVE  /\ DidOfKey(key) = KeyPrefix \o DidNameOf(key)
         /\ DidNameOf(key) \in Seq(Nat) /\ DidNameOf(key)[1] = Base58Btc /\ Tail(DidNameOf(key)) = Base58(RawKey(key))
<1>. DEFINE t == Base58(RawKey(key))  h == << Base58Btc >>
<1>1. t \in Seq(Nat)
  BY BytesFromBase58
<1>2. Base58Btc \in Nat
  BY Zenon, KeyTextAssumption
<1>3. KeyPrefix \in Seq(Nat)
  BY KeyTexts
<1>4. DidOfKey(key) = KeyPrefix \o h \o t
  BY DidIs
<1>. HIDE DEF t
<1>5. h \in Seq(Nat) /\ Len(h) = 1 /\ h[1] = Base58Btc
  BY <1>2
<1>. HIDE DEF h
<1>6. (KeyPrefix \o h) \o t = KeyPrefix \o (h \o t)
  BY <1>1, <1>3, <1>5
<1>7. h \o t \in Seq(Nat) /\ IsConcat(h \o t, h, t)
  BY <1>1, <1>5, ConcatType
<1>. DEFINE n == h \o t
<1>. HIDE DEF n
<1>8. n \in Seq(Nat) /\ Len(n) > 0 /\ n[1] = Base58Btc
  <2>1. 1 \in 1 .. Len(h) /\ Len(t) \in Nat
    BY <1>1, <1>5
  <2>. QED  BY <1>5, <1>7, <2>1 DEF IsConcat, n
<1>9. Tail(n) = t
  <2>1. Tail(n) \in Seq(Nat) /\ n = << n[1] >> \o Tail(n)
    BY <1>8, TailOf
  <2>2. h \o Tail(n) = h \o t
    BY <1>8, <2>1 DEF h, n
  <2>. QED  BY <1>1, <1>5, <2>1, <2>2, SameRest
<1>. QED  BY <1>4, <1>6, <1>8, <1>9 DEF DidNameOf, n, h, t

LEMMA ResolvedIsNamed ==
  ASSUME NEW text \in Seq(Nat), DidError(text) = "Ok", IsOk(Resolve(text))
  PROVE  BaseOf(text) = DidOfKey(Resolve(text).value)
<1>. DEFINE id == MethodIdOf(text)  raw == FromBase58(Tail(id))  key == KeyIn(raw).value
<1>1. \A error \in {"UnsupportedMethod", "Multibase", "Base58"} : ~IsOk(Fail(error))
  BY DEF Fail, IsOk
<1>2. MethodOf(text) = KeyMethod
  BY <1>1 DEF Resolve
<1>3. BaseOf(text) = KeyPrefix \o id /\ id \in Seq(Nat) /\ Len(id) > 0
  BY <1>2, DidParts
<1>4. id[1] = Base58Btc /\ IsBase58(Tail(id)) /\ Resolve(text) = KeyIn(raw)
  <2>1. Resolve(text) = IF id[1] # Base58Btc THEN Fail("Multibase")
                        ELSE IF ~IsBase58(Tail(id)) THEN Fail("Base58") ELSE KeyIn(raw)
    BY <1>2, ResolvesBy
  <2>. HIDE DEF id, raw
  <2>. QED  BY <1>1, <2>1
<1>. HIDE DEF id
<1>5. Tail(id) \in Seq(Nat) /\ id = << Base58Btc >> \o Tail(id)
  BY <1>3, <1>4, TailOf
<1>6. raw \in Seq(Byte) /\ Base58(raw) = Tail(id)
  BY <1>4, <1>5, Base58FromBytes
<1>. HIDE DEF raw
<1>7. RawKey(key) = raw
  BY <1>4, <1>6, KeyHasRaw
<1>8. DidOfKey(key) = KeyPrefix \o DidNameOf(key)
  BY <1>6, <1>7, NameIs
<1>9. DidNameOf(key) = id
  BY <1>5, <1>6, <1>7 DEF DidNameOf
<1>. QED  BY <1>3, <1>4, <1>8, <1>9

LEMMA NamedIsResolved ==
  ASSUME NEW text \in Seq(Nat), DidError(text) = "Ok", NEW key \in Keys, BaseOf(text) = DidOfKey(key)
  PROVE  Resolve(text) = Read(key, 0)
<1>. DEFINE id == MethodIdOf(text)  raw == RawKey(key)
<1>1. raw \in Seq(Byte) /\ KeyIn(raw) = Read(key, 0)
  BY KeyIsIn
<1>2. /\ BaseOf(text) = KeyPrefix \o DidNameOf(key)
      /\ DidNameOf(key) \in Seq(Nat) /\ DidNameOf(key)[1] = Base58Btc /\ Tail(DidNameOf(key)) = Base58(raw)
  BY <1>1, NameIs
<1>3. MethodOf(text) = KeyMethod
  BY <1>2, PrefixHasMethod
<1>4. BaseOf(text) = KeyPrefix \o id /\ id \in Seq(Nat)
  BY <1>3, DidParts
<1>. HIDE DEF id
<1>5. id = DidNameOf(key)
  <2>. DEFINE P == KeyPrefix  n == DidNameOf(key)
  <2>1. P \in Seq(Nat) /\ id \in Seq(Nat) /\ n \in Seq(Nat) /\ P \o id = P \o n
    BY <1>2, <1>4, KeyTexts, Zenon
  <2>. HIDE DEF P, n
  <2>2. id = n
    BY <2>1, SameRest, Zenon
  <2>. QED  BY <2>2 DEF n
<1>6. IsBase58(Base58(raw)) /\ FromBase58(Base58(raw)) = raw
  BY <1>1, BytesFromBase58
<1>7. Resolve(text) = IF id[1] # Base58Btc THEN Fail("Multibase")
                      ELSE IF ~IsBase58(Tail(id)) THEN Fail("Base58")
                      ELSE KeyIn(FromBase58(Tail(id)))
  BY <1>3, ResolvesBy DEF id
<1>. HIDE DEF raw
<1>. QED  BY <1>1, <1>2, <1>5, <1>6, <1>7

----------------------------------------------------------------------------
(* Text that stands in a text.                                             *)

IsFlat(f, v) == f = [i \in 1 .. Len(v) |-> IF i = 1 THEN v[i] ELSE f[i - 1] \o v[i]]

\* v is n texts, and f has the first of them one after another.
AreParts(v, n, T) == Len(v) = n /\ \A k \in 1 .. n : v[k] \in Seq(T)
Flattens(f, v, n, T) ==
  /\ f \in [0 .. n -> Seq(T)] /\ f[0] = << >>
  /\ \A k \in 1 .. n : f[k] = f[k - 1] \o v[k]

LEMMA FlatExists ==
  ASSUME NEW T, NEW n \in Nat, n > 0, NEW v, AreParts(v, n, T)
  PROVE  \E f : Flattens(f, v, n, T)
<1>0. \A k \in 1 .. n : v[k] \in Seq(T)
  BY DEF AreParts
<1>. DEFINE S == Seq(T)  step == [k \in 1 .. n |-> [x \in S |-> x \o v[k]]]
<1>1. step \in [1 .. n -> [S -> S]]
  <2>1. \A k \in 1 .. n : \A x \in S : x \o v[k] \in S
    BY <1>0
  <2>. HIDE DEF S
  <2>. QED  BY <2>1
<1>2. \A k \in 1 .. n : \A x \in S : step[k][x] = x \o v[k]
  <2>. HIDE DEF S
  <2>. QED  OBVIOUS
<1>3. << >> \in S
  OBVIOUS
<1>. HIDE DEF step, S
<1>4. PICK f : Iterates(f, n, S, << >>, step)
  BY <1>1, <1>3, Iteration
<1>5. f \in [0 .. n -> S] /\ f[0] = << >> /\ \A k \in 1 .. n : f[k] = step[k][f[k - 1]]
  BY <1>4 DEF Iterates
<1>6. \A k \in 1 .. n : f[k - 1] \in S
  <2>. TAKE k \in 1 .. n
  <2>1. k - 1 \in 0 .. n
    OBVIOUS
  <2>. QED  BY <1>5, <2>1
<1>7. \A k \in 1 .. n : f[k] = f[k - 1] \o v[k]
  BY <1>2, <1>5, <1>6
<1>. QED  BY <1>5, <1>7 DEF S, Flattens

LEMMA FlatIs ==
  ASSUME NEW T, NEW n \in Nat, n > 0, NEW v, AreParts(v, n, T), NEW f, Flattens(f, v, n, T)
  PROVE  FlattenSeq(v) = f[n]
<1>0. /\ Len(v) = n /\ f \in [0 .. n -> Seq(T)] /\ f[0] = << >>
      /\ \A k \in 1 .. n : v[k] \in Seq(T) /\ f[k] = f[k - 1] \o v[k]
  BY DEF AreParts, Flattens
<1>. DEFINE F == CHOOSE g : IsFlat(g, v)
<1>1. FlattenSeq(v) = F[n]
  <2>1. ~(Len(v) = 0) /\ Len(v) = n
    BY <1>0
  <2>. QED  BY <2>1, Zenon DEF FlattenSeq, IsFlat
<1>2. f[1] = v[1]
  <2>1. 1 \in 1 .. n /\ 1 - 1 = 0
    OBVIOUS
  <2>2. f[1] = << >> \o v[1] /\ v[1] \in Seq(T)
    BY <1>0, <2>1
  <2>. QED  BY <2>2
<1>3. \E g : IsFlat(g, v)
  <2>. DEFINE g == [i \in 1 .. n |-> f[i]]
              h == [i \in 1 .. n |-> IF i = 1 THEN v[i] ELSE g[i - 1] \o v[i]]
  <2>1. ASSUME NEW i \in 1 .. n PROVE g[i] = h[i]
    <3>1. i # 1 => i - 1 \in 1 .. n
      OBVIOUS
    <3>2. i # 1 => g[i - 1] = f[i - 1]
      BY <3>1
    <3>. HIDE DEF g
    <3>3. g[i] = f[i] /\ h[i] = IF i = 1 THEN v[i] ELSE g[i - 1] \o v[i]
      BY DEF g
    <3>. HIDE DEF h
    <3>4. f[i] = f[i - 1] \o v[i]
      BY <1>0
    <3>. QED  BY <1>2, <3>2, <3>3, <3>4
  <2>2. g = h
    BY <2>1
  <2>. QED  BY <1>0, <2>2 DEF IsFlat
<1>4. IsFlat(F, v)
  BY <1>3
<1>. HIDE DEF F
<1>5. \A i \in 1 .. n : F[i] = IF i = 1 THEN v[i] ELSE F[i - 1] \o v[i]
  <2>. DEFINE g == [i \in 1 .. n |-> IF i = 1 THEN v[i] ELSE F[i - 1] \o v[i]]
  <2>1. F = g
    BY <1>0, <1>4 DEF IsFlat
  <2>2. \A i \in 1 .. n : g[i] = IF i = 1 THEN v[i] ELSE F[i - 1] \o v[i]
    OBVIOUS
  <2>. HIDE DEF g
  <2>. QED  BY <2>1, <2>2, Zenon
<1>. DEFINE m == n - 1  S == {j \in 0 .. m : F[j + 1] = f[j + 1]}
<1>6. m \in Nat /\ m + 1 = n
  OBVIOUS
<1>. HIDE DEF m
<1>7. 0 \in S
  <2>1. 1 \in 1 .. n /\ 0 + 1 = 1
    OBVIOUS
  <2>2. F[1] = v[1]
    BY <1>0, <1>5, <2>1
  <2>. QED  BY <1>2, <1>6, <2>1, <2>2
<1>8. ASSUME NEW j \in 0 .. m - 1, j \in S PROVE j + 1 \in S
  <2>. DEFINE i == j + 1 + 1
  <2>1. i \in 1 .. n /\ i # 1 /\ i - 1 = j + 1 /\ j + 1 \in 0 .. m
    BY <1>6
  <2>2. F[j + 1] = f[j + 1]
    BY <1>8
  <2>. HIDE DEF i
  <2>3. F[i] = F[i - 1] \o v[i] /\ f[i] = f[i - 1] \o v[i]
    BY <1>0, <1>5, <2>1
  <2>. QED  BY <2>1, <2>2, <2>3 DEF i
<1>. HIDE DEF S
<1>9. m \in S
  <2>1. 0 .. m \subseteq S
    BY <1>6, <1>7, <1>8, InductionUpTo
  <2>. QED  BY <1>6, <2>1
<1>. QED  BY <1>1, <1>6, <1>9 DEF S


\* t stands in s from p.
Stands(s, p, t) ==
  /\ p \in Nat /\ p + Len(t) <= Len(s)
  /\ \A k \in 1 .. Len(t) : s[p + k] = t[k]

StandInTurn(s, p, c, a, b) ==
  Stands(s, p, a) /\ Stands(s, p + Len(a), b) /\ p + Len(c) = (p + Len(a)) + Len(b)

LEMMA StandsAt ==
  ASSUME NEW s, NEW p, NEW t, Stands(s, p, t), NEW k \in 1 .. Len(t)
  PROVE  s[p + k] = t[k]
BY Zenon DEF Stands

LEMMA StandsBoth ==
  ASSUME NEW s \in Seq(Nat), NEW p, NEW a \in Seq(Nat), NEW b \in Seq(Nat), NEW c \in Seq(Nat),
         IsConcat(c, a, b), Stands(s, p, c)
  PROVE  StandInTurn(s, p, c, a, b)
<1>1. /\ p \in Nat /\ Len(a) \in Nat /\ Len(b) \in Nat /\ Len(c) = Len(a) + Len(b) /\ Len(s) \in Nat
      /\ p + Len(c) <= Len(s)
  BY DEF IsConcat, Stands
<1>2. ASSUME NEW k \in 1 .. Len(a) PROVE s[p + k] = a[k]
  <2>1. k \in 1 .. Len(c)
    BY <1>1
  <2>2. s[p + k] = c[k]
    BY <2>1 DEF Stands
  <2>. QED  BY <2>2 DEF IsConcat
<1>3. ASSUME NEW k \in 1 .. Len(b) PROVE s[(p + Len(a)) + k] = b[k]
  <2>1. Len(a) + k \in 1 .. Len(c) /\ p + (Len(a) + k) = (p + Len(a)) + k
    BY <1>1
  <2>2. s[p + (Len(a) + k)] = c[Len(a) + k]
    BY <2>1 DEF Stands
  <2>. QED  BY <2>1, <2>2 DEF IsConcat
<1>. QED  BY <1>1, <1>2, <1>3 DEF Stands, StandInTurn

\* What stands in c stands where c does.
LEMMA StandsIn ==
  ASSUME NEW s \in Seq(Nat), NEW p, NEW c \in Seq(Nat), Stands(s, p, c),
         NEW q, NEW b \in Seq(Nat), Stands(c, q, b)
  PROVE  Stands(s, p + q, b)
<1>1. /\ p \in Nat /\ q \in Nat /\ Len(b) \in Nat /\ Len(c) \in Nat /\ Len(s) \in Nat
      /\ p + Len(c) <= Len(s) /\ q + Len(b) <= Len(c)
  BY DEF Stands
<1>2. ASSUME NEW k \in 1 .. Len(b) PROVE s[(p + q) + k] = b[k]
  <2>1. q + k \in 1 .. Len(c) /\ p + (q + k) = (p + q) + k
    BY <1>1
  <2>2. s[p + (q + k)] = c[q + k] /\ c[q + k] = b[k]
    BY <2>1 DEF Stands
  <2>. QED  BY <2>1, <2>2
<1>. QED  BY <1>1, <1>2 DEF Stands

\* Texts as long that stand in the same place are the same.
LEMMA StandsSame ==
  ASSUME NEW s \in Seq(Nat), NEW p, NEW a \in Seq(Nat), NEW b \in Seq(Nat),
         Stands(s, p, a), Stands(s, p, b), Len(a) = Len(b)
  PROVE  a = b
<1>1. \A k \in 1 .. Len(a) : a[k] = b[k]
  BY DEF Stands
<1>. QED  BY <1>1, SameSequence

\* The n parts v stand in c one after another, with the ends q.
Laid(c, v, n, q) ==
  /\ q[0] = 0 /\ q[n] = Len(c)
  /\ \A k \in 1 .. n : Stands(c, q[k - 1], v[k]) /\ q[k] = q[k - 1] + Len(v[k])

LEMMA FlatLaid ==
  ASSUME NEW n \in Nat, n > 0, NEW v, AreParts(v, n, Nat)
  PROVE  FlattenSeq(v) \in Seq(Nat) /\ \E q : Laid(FlattenSeq(v), v, n, q)
<1>0. PICK f : Flattens(f, v, n, Nat)
  BY FlatExists
<1>1. /\ f \in [0 .. n -> Seq(Nat)] /\ f[0] = << >>
      /\ \A k \in 1 .. n : v[k] \in Seq(Nat) /\ f[k] = f[k - 1] \o v[k]
  BY <1>0 DEF Flattens, AreParts
<1>2. FlattenSeq(v) = f[n]
  BY <1>0, FlatIs
<1>3. \A k \in 0 .. n : f[k] \in Seq(Nat) /\ Len(f[k]) \in Nat
  BY <1>1
<1>. DEFINE q == [k \in 0 .. n |-> Len(f[k])]
<1>4. \A k \in 0 .. n : q[k] = Len(f[k])
  OBVIOUS
<1>. HIDE DEF q
<1>. DEFINE Upto(i) == \A k \in 1 .. i : Stands(f[i], q[k - 1], v[k]) /\ q[k] = q[k - 1] + Len(v[k])
            S == {i \in 0 .. n : Upto(i)}
<1>5. 0 \in S
  OBVIOUS
<1>6. ASSUME NEW i \in 0 .. n - 1, i \in S PROVE i + 1 \in S
  <2>. DEFINE j == i + 1  a == f[i]  b == v[j]  c == f[j]
  <2>1. j \in 1 .. n /\ j \in 0 .. n /\ i \in 0 .. n /\ j - 1 = i
    OBVIOUS
  <2>. HIDE DEF j
  <2>2. a \in Seq(Nat) /\ b \in Seq(Nat) /\ c = a \o b
    BY <1>1, <1>3, <2>1
  <2>3. q[i] = Len(a) /\ q[j] = Len(c)
    BY <1>4, <2>1
  <2>4. \A k \in 1 .. i : Stands(a, q[k - 1], v[k]) /\ q[k] = q[k - 1] + Len(v[k])
    BY <1>6
  <2>. HIDE DEF a, b, c
  <2>5. c \in Seq(Nat) /\ IsConcat(c, a, b)
    BY <2>2, ConcatType
  <2>6. Stands(c, 0, c)
    BY <2>5 DEF Stands
  <2>7. Stands(c, 0, a) /\ Stands(c, 0 + Len(a), b) /\ 0 + Len(c) = (0 + Len(a)) + Len(b)
    <3>1. StandInTurn(c, 0, c, a, b)
      BY <2>2, <2>5, <2>6, StandsBoth
    <3>. QED  BY <3>1 DEF StandInTurn
  <2>8. Len(a) \in Nat /\ Len(b) \in Nat /\ Len(c) \in Nat
    BY <2>2, <2>5
  <2>9. Stands(c, q[i], b) /\ q[j] = q[i] + Len(b)
    BY <2>3, <2>7, <2>8
  <2>10. ASSUME NEW k \in 1 .. j PROVE Stands(c, q[k - 1], v[k]) /\ q[k] = q[k - 1] + Len(v[k])
    <3>1. CASE k = j
      BY <2>1, <2>9, <3>1 DEF b
    <3>2. CASE k # j
      <4>1. k \in 1 .. i /\ k \in 1 .. n
        BY <2>1, <3>2
      <4>2. Stands(a, q[k - 1], v[k]) /\ q[k] = q[k - 1] + Len(v[k]) /\ v[k] \in Seq(Nat)
        BY <1>1, <2>4, <4>1
      <4>3. Stands(c, 0 + q[k - 1], v[k])
        BY <2>2, <2>5, <2>7, <4>2, StandsIn
      <4>4. q[k - 1] \in Nat
        BY <4>2 DEF Stands
      <4>. QED  BY <4>2, <4>3, <4>4
    <3>. QED  BY <3>1, <3>2
  <2>11. Upto(j)
    BY <2>10 DEF c
  <2>. QED  BY <2>1, <2>11 DEF j
<1>. HIDE DEF S
<1>7. n \in S
  <2>1. 0 .. n \subseteq S
    BY <1>5, <1>6, InductionUpTo
  <2>. QED  BY <2>1
<1>8. Upto(n)
  BY <1>7 DEF S
<1>9. q[0] = 0 /\ q[n] = Len(f[n])
  BY <1>1, <1>4
<1>10. Laid(f[n], v, n, q)
  BY <1>8, <1>9 DEF Laid
<1>11. f[n] \in Seq(Nat)
  BY <1>1
<1>. QED  BY <1>2, <1>10, <1>11

\* Nothing of chars comes at q, where s may end.
EndsAt(s, q, chars) == q < Len(s) => s[q + 1] \notin chars

LEMMA RunIsNoLonger ==
  ASSUME NEW s \in Seq(Nat), NEW p, NEW a \in Seq(Nat), NEW b \in Seq(Nat), NEW chars,
         Stands(s, p, b), p \in Nat, \A k \in 1 .. Len(b) : b[k] \in chars, EndsAt(s, p + Len(a), chars)
  PROVE  Len(b) <= Len(a)
<1>. SUFFICES ASSUME Len(a) < Len(b) PROVE FALSE
  OBVIOUS
<1>1. /\ Len(a) \in Nat /\ Len(b) \in Nat /\ Len(s) \in Nat /\ Len(a) + 1 \in 1 .. Len(b)
      /\ p + (Len(a) + 1) = (p + Len(a)) + 1
  OBVIOUS
<1>2. p + Len(b) <= Len(s) /\ s[p + (Len(a) + 1)] = b[Len(a) + 1]
  BY <1>1 DEF Stands
<1>3. p + Len(a) < Len(s)
  BY <1>1, <1>2
<1>4. s[(p + Len(a)) + 1] \notin chars
  BY <1>3 DEF EndsAt
<1>. QED  BY <1>1, <1>2, <1>4

\* Of the characters chars, only one text stands somewhere up to another one.
LEMMA OneRun ==
  ASSUME NEW s \in Seq(Nat), NEW p, NEW a \in Seq(Nat), NEW b \in Seq(Nat), NEW chars,
         Stands(s, p, a), Stands(s, p, b),
         \A k \in 1 .. Len(a) : a[k] \in chars, \A k \in 1 .. Len(b) : b[k] \in chars,
         EndsAt(s, p + Len(a), chars), EndsAt(s, p + Len(b), chars)
  PROVE  a = b
<1>1. p \in Nat
  BY DEF Stands
<1>2. Len(a) <= Len(b) /\ Len(b) <= Len(a)
  BY <1>1, RunIsNoLonger
<1>3. Len(a) = Len(b)
  BY <1>2
<1>. QED  BY <1>3, StandsSame

----------------------------------------------------------------------------
(* Numbers in text.                                                        *)

JsonDigits == {Code["0"] + n : n \in 0 .. 9}

LEMMA SeqIn ==
  ASSUME NEW S, NEW T, NEW t \in Seq(S), \A x \in S : x \in T
  PROVE  t \in Seq(T) /\ \A k \in 1 .. Len(t) : t[k] \in S
<1>1. Len(t) \in Nat /\ DOMAIN t = 1 .. Len(t) /\ \A k \in 1 .. Len(t) : t[k] \in S
  BY SeqFacts, Zenon
<1>2. t \in [1 .. Len(t) -> S]
  OBVIOUS
<1>3. t \in [1 .. Len(t) -> T]
  BY <1>2
<1>4. t \in Seq(T)
  BY <1>1, <1>3, MakesSeq
<1>. QED  BY <1>1, <1>4

LEMMA DigitType == Code["0"] \in Nat /\ \A x \in JsonDigits : x \in Nat
<1>. DEFINE zero == Code["0"]
<1>1. zero \in Nat
  BY JsonTextAssumption
<1>. HIDE DEF zero
<1>2. ASSUME NEW x \in JsonDigits PROVE x \in Nat
  <2>1. PICK n \in 0 .. 9 : x = zero + n
    BY DEF JsonDigits, zero
  <2>. QED  BY <1>1, <2>1
<1>. QED  BY <1>1, <1>2 DEF zero

\* The digits of a number in base ten.
LEMMA TenDigits ==
  ASSUME NEW m \in Nat
  PROVE  DigitsIn(10, m) \in Seq(0 .. 9)
         /\ (m # 0 => Len(DigitsIn(10, m)) > 0 /\ DigitsIn(10, m)[1] # 0)
<1>1. 10 \in Nat /\ 10 >= 2 /\ 10 - 1 = 9
  OBVIOUS
<1>2. IsBare(DigitsIn(10, m), 10) /\ (m > 0 => Len(DigitsIn(10, m)) > 0)
  BY <1>1, DigitsType, Zenon
<1>3. m # 0 => m > 0
  OBVIOUS
<1>4. DigitsIn(10, m) \in Seq(0 .. 10 - 1) /\ (Len(DigitsIn(10, m)) > 0 => DigitsIn(10, m)[1] # 0)
  BY <1>2, Zenon DEF IsBare
<1>. QED  BY <1>1, <1>2, <1>3, <1>4, Zenon

LEMMA NumeralType ==
  ASSUME NEW m \in Nat
  PROVE  NumeralOf(m) \in Seq(Nat) /\ Len(NumeralOf(m)) > 0 /\ \A k \in 1 .. Len(NumeralOf(m)) : NumeralOf(m)[k] \in JsonDigits
<1>. DEFINE zero == Code["0"]  D == DigitsIn(10, m)
<1>2. m = 0 => NumeralOf(m) = << zero >>
  BY DEF NumeralOf
<1>3. m # 0 => NumeralOf(m) = [k \in DOMAIN D |-> zero + D[k]]
  BY DEF NumeralOf
<1>4. zero \in JsonDigits
  <2>1. zero = zero + 0
    BY DigitType
  <2>. HIDE DEF zero
  <2>. QED  BY <2>1 DEF JsonDigits, zero
<1>5. D \in Seq(0 .. 9) /\ (m # 0 => Len(D) > 0)
  BY TenDigits
<1>. HIDE DEF D
<1>6. ASSUME m # 0 PROVE NumeralOf(m) \in Seq(JsonDigits) /\ Len(NumeralOf(m)) > 0
  <2>1. \A k \in 1 .. Len(D) : D[k] \in 0 .. 9
    BY <1>5
  <2>2. \A k \in 1 .. Len(D) : zero + D[k] \in JsonDigits
    BY <2>1 DEF JsonDigits
  <2>3. DOMAIN D = 1 .. Len(D) /\ Len(D) \in Nat
    BY <1>5
  <2>. HIDE DEF zero
  <2>4. [k \in DOMAIN D |-> zero + D[k]] \in [1 .. Len(D) -> JsonDigits]
    BY <2>2, <2>3
  <2>5. NumeralOf(m) \in [1 .. Len(D) -> JsonDigits]
    BY <1>3, <1>6, <2>4
  <2>6. NumeralOf(m) \in Seq(JsonDigits)
    BY <2>3, <2>5, MakesSeq
  <2>. QED  BY <1>5, <1>6, <2>3, <2>5, <2>6
<1>7. ASSUME m = 0 PROVE NumeralOf(m) \in Seq(JsonDigits) /\ Len(NumeralOf(m)) > 0
  <2>. HIDE DEF zero
  <2>1. << zero >> \in Seq(JsonDigits) /\ Len(<< zero >>) > 0
    BY <1>4
  <2>2. NumeralOf(m) = << zero >>
    BY <1>2, <1>7
  <2>. QED  BY <2>1, <2>2
<1>8. NumeralOf(m) \in Seq(JsonDigits) /\ Len(NumeralOf(m)) > 0
  BY <1>6, <1>7
<1>9. NumeralOf(m) \in Seq(Nat) /\ \A k \in 1 .. Len(NumeralOf(m)) : NumeralOf(m)[k] \in JsonDigits
  BY <1>8, DigitType, SeqIn
<1>. QED  BY <1>8, <1>9

LEMMA NumeralsTell ==
  ASSUME NEW m \in Nat, NEW n \in Nat, NumeralOf(m) = NumeralOf(n)
  PROVE  m = n
<1>. DEFINE zero == Code["0"]
<1>1. zero \in Nat
  BY JsonTextAssumption
<1>2. /\ NumeralOf(0) = << zero >>
      /\ \A x \in Nat : x # 0 => NumeralOf(x) = [k \in DOMAIN DigitsIn(10, x) |-> zero + DigitsIn(10, x)[k]]
  BY DEF NumeralOf
<1>. HIDE DEF zero
<1>3. ASSUME NEW x \in Nat, x # 0
      PROVE  /\ DigitsIn(10, x) \in Seq(0 .. 9) /\ Len(DigitsIn(10, x)) > 0 /\ DigitsIn(10, x)[1] # 0
             /\ DOMAIN NumeralOf(x) = 1 .. Len(DigitsIn(10, x))
             /\ \A k \in 1 .. Len(DigitsIn(10, x)) : NumeralOf(x)[k] = zero + DigitsIn(10, x)[k]
  <2>. DEFINE D == DigitsIn(10, x)
  <2>1. D \in Seq(0 .. 9) /\ Len(D) > 0 /\ D[1] # 0
    BY <1>3, TenDigits
  <2>2. NumeralOf(x) = [k \in DOMAIN D |-> zero + D[k]]
    BY <1>2, <1>3
  <2>. HIDE DEF D
  <2>3. DOMAIN D = 1 .. Len(D)
    BY <2>1
  <2>4. DOMAIN NumeralOf(x) = 1 .. Len(D) /\ \A k \in 1 .. Len(D) : NumeralOf(x)[k] = zero + D[k]
    BY <2>2, <2>3
  <2>. QED  BY <2>1, <2>4 DEF D
<1>4. ASSUME NEW x \in Nat, x # 0 PROVE NumeralOf(x) # NumeralOf(0)
  <2>. DEFINE D == DigitsIn(10, x)
  <2>0. D \in Seq(0 .. 9) /\ Len(D) > 0 /\ D[1] # 0
    BY <1>3, <1>4
  <2>. HIDE DEF D
  <2>3. 1 \in 1 .. Len(D) /\ D[1] \in 0 .. 9
    BY <2>0
  <2>1. 1 \in 1 .. Len(DigitsIn(10, x)) /\ DigitsIn(10, x)[1] \in Nat /\ DigitsIn(10, x)[1] # 0
    BY <2>0, <2>3 DEF D
  <2>2. NumeralOf(x)[1] = zero + DigitsIn(10, x)[1]
    BY <1>3, <1>4, <2>1
  <2>4. NumeralOf(0)[1] = zero
    BY <1>2
  <2>. QED  BY <1>1, <2>1, <2>2, <2>4
<1>5. CASE m # 0 /\ n # 0
  <2>. DEFINE D == DigitsIn(10, m)  E == DigitsIn(10, n)
  <2>1. D \in Seq(0 .. 9) /\ E \in Seq(0 .. 9) /\ 1 .. Len(D) = 1 .. Len(E)
    BY <1>3, <1>5
  <2>2. \A k \in 1 .. Len(D) : NumeralOf(m)[k] = zero + D[k]
    BY <1>3, <1>5
  <2>3. \A k \in 1 .. Len(E) : NumeralOf(n)[k] = zero + E[k]
    BY <1>3, <1>5
  <2>. HIDE DEF D, E
  <2>4. Len(D) = Len(E)
    BY <2>1
  <2>5. \A k \in 1 .. Len(D) : D[k] \in Nat /\ E[k] \in Nat
    BY <2>1, <2>4
  <2>6. \A k \in 1 .. Len(D) : D[k] = E[k]
    BY <1>1, <2>2, <2>3, <2>4, <2>5
  <2>7. D = E
    BY <2>1, <2>4, <2>6, SameSequence
  <2>. QED  BY <2>7, DigitsTell DEF D, E
<1>. QED  BY <1>4, <1>5

\* A decimal begins with a sign or a digit.
DecimalStart(n, t) == t \in Seq(Nat) /\ Len(t) > 0 /\ (IF n < 0 THEN t[1] = Dash ELSE t[1] \in JsonDigits)

LEMMA SignIsNoDigit == Dash \in Nat /\ Dash \notin JsonDigits
<1>1. Starts[4] = Dash /\ Starts \in Seq(Nat) /\ 4 \in DOMAIN Starts
  BY JsonTextAssumption DEF Starts
<1>2. Dash \in Nat /\ Dash \in ToSet(Starts)
  BY <1>1 DEF ToSet
<1>3. \A n \in 0 .. 9 : Code["0"] + n \notin ToSet(Starts) \cup ToSet(Follows)
  BY JsonTextAssumption
<1>. QED  BY <1>2, <1>3 DEF JsonDigits

LEMMA DecimalType ==
  ASSUME NEW n \in Int
  PROVE  DecimalStart(n, DecimalOf(n))
<1>1. CASE n < 0
  <2>1. -n \in Nat /\ DecimalOf(n) = << Dash >> \o NumeralOf(-n)
    BY <1>1 DEF DecimalOf
  <2>2. NumeralOf(-n) \in Seq(Nat) /\ << Dash >> \in Seq(Nat)
    BY <2>1, NumeralType, SignIsNoDigit
  <2>3. DecimalOf(n) \in Seq(Nat) /\ IsConcat(DecimalOf(n), << Dash >>, NumeralOf(-n))
    BY <2>1, <2>2, ConcatType
  <2>4. Len(<< Dash >>) = 1 /\ << Dash >>[1] = Dash
    OBVIOUS
  <2>. QED  BY <1>1, <2>3, <2>4 DEF IsConcat, DecimalStart
<1>2. CASE ~(n < 0)
  <2>1. n \in Nat /\ DecimalOf(n) = NumeralOf(n)
    BY <1>2 DEF DecimalOf
  <2>. DEFINE t == NumeralOf(n)
  <2>2. t \in Seq(Nat) /\ Len(t) > 0 /\ \A k \in 1 .. Len(t) : t[k] \in JsonDigits
    BY <2>1, NumeralType
  <2>. HIDE DEF t
  <2>3. t[1] \in JsonDigits
    <3>1. 1 \in 1 .. Len(t)
      BY <2>2
    <3>. QED  BY <2>2, <3>1
  <2>4. DecimalStart(n, t)
    BY <1>2, <2>2, <2>3 DEF DecimalStart
  <2>. QED  BY <2>1, <2>4 DEF t
<1>. QED  BY <1>1, <1>2

LEMMA OneNumeral ==
  ASSUME NEW s \in Seq(Nat), NEW p, NEW m \in Nat, NEW n \in Nat,
         Stands(s, p, NumeralOf(m)), Stands(s, p, NumeralOf(n)),
         EndsAt(s, p + Len(NumeralOf(m)), JsonDigits), EndsAt(s, p + Len(NumeralOf(n)), JsonDigits)
  PROVE  m = n
<1>1. NumeralOf(m) = NumeralOf(n)
  BY NumeralType, OneRun
<1>. QED  BY <1>1, NumeralsTell

LEMMA AfterSign ==
  ASSUME NEW s \in Seq(Nat), NEW p, NEW n \in Int, n < 0, Stands(s, p, DecimalOf(n)),
         EndsAt(s, p + Len(DecimalOf(n)), JsonDigits)
  PROVE  -n \in Nat /\ Stands(s, p + 1, NumeralOf(-n)) /\ EndsAt(s, (p + 1) + Len(NumeralOf(-n)), JsonDigits)
<1>1. -n \in Nat /\ DecimalOf(n) = << Dash >> \o NumeralOf(-n)
  BY DEF DecimalOf
<1>2. NumeralOf(-n) \in Seq(Nat) /\ << Dash >> \in Seq(Nat)
  BY <1>1, NumeralType, SignIsNoDigit
<1>3. DecimalOf(n) \in Seq(Nat) /\ IsConcat(DecimalOf(n), << Dash >>, NumeralOf(-n))
  BY <1>1, <1>2, ConcatType
<1>4. StandInTurn(s, p, DecimalOf(n), << Dash >>, NumeralOf(-n))
  BY <1>2, <1>3, StandsBoth
<1>5. Len(<< Dash >>) = 1
  OBVIOUS
<1>. QED  BY <1>1, <1>4, <1>5 DEF StandInTurn

\* No two numbers stand in one place.
LEMMA OneNumber ==
  ASSUME NEW s \in Seq(Nat), NEW p, NEW m \in Int, NEW n \in Int,
         Stands(s, p, DecimalOf(m)), Stands(s, p, DecimalOf(n)),
         EndsAt(s, p + Len(DecimalOf(m)), JsonDigits), EndsAt(s, p + Len(DecimalOf(n)), JsonDigits)
  PROVE  m = n
<1>1. DecimalStart(m, DecimalOf(m)) /\ DecimalStart(n, DecimalOf(n))
  BY DecimalType
<1>2. DecimalOf(m)[1] = s[p + 1] /\ DecimalOf(n)[1] = s[p + 1]
  BY <1>1 DEF Stands, DecimalStart
<1>3. m < 0 <=> n < 0
  BY <1>1, <1>2, SignIsNoDigit DEF DecimalStart
<1>4. CASE m < 0
  <2>1. /\ -m \in Nat /\ Stands(s, p + 1, NumeralOf(-m))
        /\ EndsAt(s, (p + 1) + Len(NumeralOf(-m)), JsonDigits)
    BY <1>4, AfterSign
  <2>2. /\ -n \in Nat /\ Stands(s, p + 1, NumeralOf(-n))
        /\ EndsAt(s, (p + 1) + Len(NumeralOf(-n)), JsonDigits)
    BY <1>3, <1>4, AfterSign
  <2>3. -m = -n
    BY <2>1, <2>2, OneNumeral
  <2>. QED  BY <2>3
<1>5. CASE ~(m < 0)
  <2>1. m \in Nat /\ n \in Nat /\ DecimalOf(m) = NumeralOf(m) /\ DecimalOf(n) = NumeralOf(n)
    BY <1>3, <1>5 DEF DecimalOf
  <2>. QED  BY <2>1, OneNumeral
<1>. QED  BY <1>4, <1>5

----------------------------------------------------------------------------
(* Texts that are made of others.                                          *)

\* The n parts v stand in s one after another from p, with the ends q.
Runs(s, p, len, v, n, q) ==
  /\ q[0] = p /\ q[n] = p + len
  /\ \A k \in 1 .. n : Stands(s, q[k - 1], v[k]) /\ q[k] = q[k - 1] + Len(v[k])

LEMMA FlatRuns ==
  ASSUME NEW n \in Nat, n > 0, NEW v, AreParts(v, n, Nat),
         NEW s \in Seq(Nat), NEW p, Stands(s, p, FlattenSeq(v))
  PROVE  \E q : Runs(s, p, Len(FlattenSeq(v)), v, n, q)
<1>. DEFINE c == FlattenSeq(v)
<1>1. c \in Seq(Nat) /\ \E z : Laid(c, v, n, z)
  BY FlatLaid
<1>2. Stands(s, p, c)
  OBVIOUS
<1>. HIDE DEF c
<1>3. PICK z : Laid(c, v, n, z)
  BY <1>1
<1>. DEFINE q == [k \in 0 .. n |-> p + z[k]]
<1>4. \A k \in 0 .. n : q[k] = p + z[k]
  OBVIOUS
<1>. HIDE DEF q
<1>5. \A k \in 1 .. n : v[k] \in Seq(Nat)
  BY DEF AreParts
<1>6. p \in Nat
  BY <1>2 DEF Stands
<1>7. ASSUME NEW k \in 1 .. n
      PROVE  Stands(s, q[k - 1], v[k]) /\ q[k] = q[k - 1] + Len(v[k])
  <2>1. Stands(c, z[k - 1], v[k]) /\ z[k] = z[k - 1] + Len(v[k])
    BY <1>3 DEF Laid
  <2>2. v[k] \in Seq(Nat) /\ Len(v[k]) \in Nat
    BY <1>5
  <2>3. Stands(s, p + z[k - 1], v[k])
    BY <1>1, <1>2, <2>1, <2>2, StandsIn
  <2>4. z[k - 1] \in Nat
    BY <2>1 DEF Stands
  <2>5. k - 1 \in 0 .. n /\ k \in 0 .. n
    OBVIOUS
  <2>6. q[k - 1] = p + z[k - 1] /\ q[k] = p + z[k]
    BY <1>4, <2>5
  <2>. QED  BY <1>6, <2>1, <2>2, <2>3, <2>4, <2>6
<1>8. z[0] = 0 /\ z[n] = Len(c)
  BY <1>3 DEF Laid
<1>9. q[0] = p /\ q[n] = p + Len(c)
  <2>1. 0 \in 0 .. n /\ n \in 0 .. n
    OBVIOUS
  <2>2. q[0] = p + 0 /\ q[n] = p + Len(c)
    BY <1>4, <1>8, <2>1
  <2>. QED  BY <1>6, <2>2
<1>10. Runs(s, p, Len(c), v, n, q)
  BY <1>7, <1>9 DEF Runs
<1>. QED  BY <1>10 DEF c

\* Two runs of parts that take as much room whenever they begin together.
KeepStep(n, v, w, q, r, Same) ==
  /\ q[0] = r[0]
  /\ \A k \in 1 .. n : q[k] = q[k - 1] + Len(v[k]) /\ r[k] = r[k - 1] + Len(w[k])
  /\ \A k \in 1 .. n : q[k - 1] = r[k - 1] => k \in Same /\ Len(v[k]) = Len(w[k])
InStep(n, q, r, Same) == \A k \in 0 .. n : q[k] = r[k] /\ (k > 0 => k \in Same)

LEMMA RunsInStep ==
  ASSUME NEW n \in Nat, NEW v, NEW w, NEW q, NEW r, NEW Same, KeepStep(n, v, w, q, r, Same)
  PROVE  InStep(n, q, r, Same)
<1>0. /\ q[0] = r[0]
      /\ \A k \in 1 .. n : q[k] = q[k - 1] + Len(v[k]) /\ r[k] = r[k - 1] + Len(w[k])
      /\ \A k \in 1 .. n : q[k - 1] = r[k - 1] => k \in Same /\ Len(v[k]) = Len(w[k])
  BY Zenon DEF KeepStep
<1>. DEFINE S == {k \in 0 .. n : q[k] = r[k] /\ (k > 0 => k \in Same)}
<1>1. 0 \in S
  BY <1>0
<1>2. ASSUME NEW k \in 0 .. n - 1, k \in S PROVE k + 1 \in S
  <2>1. k + 1 \in 1 .. n /\ k + 1 \in 0 .. n /\ (k + 1) - 1 = k
    OBVIOUS
  <2>2. q[k] = r[k]
    BY <1>2
  <2>. DEFINE j == k + 1
  <2>3. j \in 1 .. n /\ j \in 0 .. n /\ j - 1 = k
    BY <2>1
  <2>. HIDE DEF j
  <2>4. q[j] = q[k] + Len(v[j]) /\ r[j] = r[k] + Len(w[j])
    BY <1>0, <2>3
  <2>5. j \in Same /\ Len(v[j]) = Len(w[j])
    BY <1>0, <2>2, <2>3
  <2>6. q[j] = r[j]
    BY <2>2, <2>4, <2>5
  <2>7. j \in S
    BY <2>3, <2>5, <2>6
  <2>. QED  BY <2>7 DEF j
<1>. HIDE DEF S
<1>3. 0 .. n \subseteq S
  BY <1>1, <1>2, InductionUpTo
<1>. QED  BY <1>3 DEF S, InStep

\* a, b and c stand in s, one after another, from p to the end of t.
StandInThree(s, p, t, a, b, c) ==
  /\ Stands(s, p, a) /\ Stands(s, p + Len(a), b) /\ Stands(s, (p + Len(a)) + Len(b), c)
  /\ p + Len(t) = ((p + Len(a)) + Len(b)) + Len(c)

LEMMA ThreeType ==
  ASSUME NEW a \in Seq(Nat), NEW b \in Seq(Nat), NEW c \in Seq(Nat)
  PROVE  /\ (a \o b) \o c \in Seq(Nat) /\ Len((a \o b) \o c) = (Len(a) + Len(b)) + Len(c)
         /\ Len(a) > 0 => ((a \o b) \o c)[1] = a[1]
<1>. DEFINE d == a \o b  t == d \o c
<1>1. d \in Seq(Nat) /\ IsConcat(d, a, b)
  BY ConcatType
<1>. HIDE DEF d
<1>2. t \in Seq(Nat) /\ IsConcat(t, d, c)
  BY <1>1, ConcatType
<1>. HIDE DEF t
<1>3. Len(t) = (Len(a) + Len(b)) + Len(c)
  BY <1>1, <1>2 DEF IsConcat
<1>4. ASSUME Len(a) > 0 PROVE t[1] = a[1]
  <2>1. 1 \in 1 .. Len(a) /\ 1 \in 1 .. Len(d)
    BY <1>1, <1>4 DEF IsConcat
  <2>2. d[1] = a[1]
    BY <1>1, <2>1 DEF IsConcat
  <2>3. t[1] = d[1]
    BY <1>2, <2>1 DEF IsConcat
  <2>. QED  BY <2>2, <2>3
<1>. QED  BY <1>2, <1>3, <1>4 DEF t, d

LEMMA StandsThree ==
  ASSUME NEW a \in Seq(Nat), NEW b \in Seq(Nat), NEW c \in Seq(Nat),
         NEW s \in Seq(Nat), NEW p, Stands(s, p, (a \o b) \o c)
  PROVE  StandInThree(s, p, (a \o b) \o c, a, b, c)
<1>. DEFINE d == a \o b  t == d \o c
<1>1. d \in Seq(Nat) /\ IsConcat(d, a, b)
  BY ConcatType
<1>2. Stands(s, p, t)
  OBVIOUS
<1>. HIDE DEF d
<1>3. t \in Seq(Nat) /\ IsConcat(t, d, c)
  BY <1>1, ConcatType
<1>. HIDE DEF t
<1>4. StandInTurn(s, p, t, d, c)
  BY <1>1, <1>2, <1>3, StandsBoth
<1>5. Stands(s, p, d) /\ Stands(s, p + Len(d), c) /\ p + Len(t) = (p + Len(d)) + Len(c)
  BY <1>4 DEF StandInTurn
<1>6. StandInTurn(s, p, d, a, b)
  BY <1>1, <1>5, StandsBoth
<1>7. Stands(s, p, a) /\ Stands(s, p + Len(a), b) /\ p + Len(d) = (p + Len(a)) + Len(b)
  BY <1>6 DEF StandInTurn
<1>8. StandInThree(s, p, t, a, b, c)
  BY <1>5, <1>7 DEF StandInThree
<1>. QED  BY <1>8 DEF t, d

\* Between a start and a quote, only one text without quotes stands.
LEMMA OneQuoted ==
  ASSUME NEW a \in Seq(Nat), NEW x \in Seq(Nat), NEW y \in Seq(Nat), NEW c \in Seq(Nat),
         Len(c) > 0, c[1] = Quote, NEW s \in Seq(Nat), NEW p,
         Stands(s, p, (a \o x) \o c), Stands(s, p, (a \o y) \o c),
         \A k \in 1 .. Len(x) : x[k] # Quote, \A k \in 1 .. Len(y) : y[k] # Quote
  PROVE  x = y
<1>. DEFINE chars == Nat \ {Quote}  at == p + Len(a)
<1>1. StandInThree(s, p, (a \o x) \o c, a, x, c) /\ StandInThree(s, p, (a \o y) \o c, a, y, c)
  BY StandsThree
<1>2. Stands(s, at, x) /\ Stands(s, at + Len(x), c) /\ Stands(s, at, y) /\ Stands(s, at + Len(y), c)
  BY <1>1 DEF StandInThree
<1>3. \A k \in 1 .. Len(x) : x[k] \in chars
  OBVIOUS
<1>4. \A k \in 1 .. Len(y) : y[k] \in chars
  OBVIOUS
<1>. HIDE DEF at
<1>5. ASSUME NEW z \in Nat, Stands(s, z, c) PROVE s[z + 1] \notin chars
  <2>1. 1 \in 1 .. Len(c)
    OBVIOUS
  <2>2. s[z + 1] = Quote
    BY <1>5, <2>1 DEF Stands
  <2>. QED  BY <2>2
<1>. HIDE DEF chars
<1>6. at \in Nat /\ at + Len(x) \in Nat /\ at + Len(y) \in Nat
  BY <1>2 DEF Stands
<1>7. EndsAt(s, at + Len(x), chars) /\ EndsAt(s, at + Len(y), chars)
  BY <1>2, <1>5, <1>6 DEF EndsAt
<1>. QED  BY <1>2, <1>3, <1>4, <1>7, OneRun

----------------------------------------------------------------------------
(* Strings in text.                                                        *)

LEMMA EscapeFacts ==
  /\ Quote \in DOMAIN EscapeOf /\ Backslash \in DOMAIN EscapeOf
  /\ Quote \in Nat /\ Backslash \in Nat /\ Quote # Backslash /\ Code["u"] \in Nat
  /\ \A c \in DOMAIN EscapeOf : EscapeOf[c] \in Nat /\ EscapeOf[c] # Code["u"]
  /\ \A c, d \in DOMAIN EscapeOf : EscapeOf[c] = EscapeOf[d] => c = d
<1>1. {Quote, Backslash} \subseteq DOMAIN EscapeOf /\ {Backslash, Code["u"]} \subseteq Nat \ {Quote}
  BY Zenon, JsonTextAssumption
<1>2. \A c \in DOMAIN EscapeOf : EscapeOf[c] \in Nat \ {Code["u"]}
  BY Zenon, JsonTextAssumption
<1>3. \A c, d \in DOMAIN EscapeOf : EscapeOf[c] = EscapeOf[d] => c = d
  BY Zenon, JsonTextAssumption
<1>4. Quote \in Nat
  <2>1. Starts \in Seq(Nat) /\ Starts[5] = Quote /\ 5 \in DOMAIN Starts
    BY JsonTextAssumption DEF Starts
  <2>. QED  BY <2>1
<1>. QED  BY <1>1, <1>2, <1>3, <1>4, Zenon

LEMMA HexFacts ==
  /\ \A n \in 0 .. 15 : HexDigit[n] \in Nat
  /\ \A j, k \in 0 .. 15 : HexDigit[j] = HexDigit[k] => j = k
<1>1. HexDigit \in [0 .. 15 -> Nat]
  BY Zenon, JsonTextAssumption
<1>2. \A j, k \in 0 .. 15 : HexDigit[j] = HexDigit[k] => j = k
  BY Zenon, JsonTextAssumption
<1>. HIDE DEF HexDigit
<1>. QED  BY <1>1, <1>2

\* What a character is written as.
EscapedShows(c, t) ==
  /\ t \in Seq(Nat) /\ Len(t) > 0
  /\ c \in DOMAIN EscapeOf => Len(t) = 2 /\ t[1] = Backslash /\ t[2] = EscapeOf[c]
  /\ c \notin DOMAIN EscapeOf /\ c \in Controls =>
       /\ Len(t) = 6 /\ t[1] = Backslash /\ t[2] = Code["u"]
       /\ t[5] = HexDigit[c \div 16] /\ t[6] = HexDigit[c % 16]
  /\ c \notin DOMAIN EscapeOf /\ c \notin Controls => Len(t) = 1 /\ t[1] = c

LEMMA ControlParts ==
  ASSUME NEW c \in Controls
  PROVE  c \in Nat /\ c \div 16 \in 0 .. 15 /\ c % 16 \in 0 .. 15 /\ c = 16 * (c \div 16) + (c % 16)
BY DEF Controls

LEMMA EscapedType ==
  ASSUME NEW c \in Nat
  PROVE  EscapedShows(c, Escaped(c))
<1>1. CASE c \in DOMAIN EscapeOf
  <2>. DEFINE x == EscapeOf[c]
  <2>1. Escaped(c) = << Backslash, x >>
    BY <1>1 DEF Escaped
  <2>2. x \in Nat /\ Backslash \in Nat
    BY <1>1, EscapeFacts
  <2>3. x = EscapeOf[c]
    OBVIOUS
  <2>. HIDE DEF x
  <2>. DEFINE t == << Backslash, x >>
  <2>4. t \in Seq(Nat) /\ Len(t) = 2 /\ t[1] = Backslash /\ t[2] = x
    BY <2>2
  <2>. HIDE DEF t
  <2>5. EscapedShows(c, t)
    BY <1>1, <2>3, <2>4 DEF EscapedShows
  <2>. QED  BY <2>1, <2>5 DEF t
<1>2. CASE c \notin DOMAIN EscapeOf /\ c \in Controls
  <2>. DEFINE zero == Code["0"]  x == HexDigit[c \div 16]  y == HexDigit[c % 16]  u == Code["u"]
              b == << zero, zero, x, y >>  a == << Backslash, u >>  t == a \o b
  <2>1. Escaped(c) = t
    <3>1. EscapedUnicode = << Backslash, Code["u"] >>
      BY Zenon, JsonTextAssumption
    <3>. QED  BY <1>2, <3>1, Zenon DEF Escaped
  <2>2. x \in Nat /\ y \in Nat /\ zero \in Nat /\ u \in Nat /\ Backslash \in Nat
    BY <1>2, ControlParts, HexFacts, EscapeFacts, DigitType
  <2>3. x = HexDigit[c \div 16] /\ y = HexDigit[c % 16] /\ u = Code["u"]
    OBVIOUS
  <2>. HIDE DEF x, y, zero, u
  <2>4. a \in Seq(Nat) /\ Len(a) = 2 /\ a[1] = Backslash /\ a[2] = u
    BY <2>2
  <2>5. b \in Seq(Nat) /\ Len(b) = 4 /\ b[3] = x /\ b[4] = y
    BY <2>2
  <2>. HIDE DEF a, b
  <2>6. t \in Seq(Nat) /\ IsConcat(t, a, b)
    BY <2>4, <2>5, ConcatType
  <2>. HIDE DEF t
  <2>7. Len(t) = 6 /\ t[1] = Backslash /\ t[2] = u
    BY <2>4, <2>5, <2>6 DEF IsConcat
  <2>8. t[2 + 3] = x /\ t[2 + 4] = y
    <3>1. 3 \in 1 .. Len(b) /\ 4 \in 1 .. Len(b)
      BY <2>5
    <3>. QED  BY <2>4, <2>5, <2>6, <3>1 DEF IsConcat
  <2>9. EscapedShows(c, t)
    BY <1>2, <2>3, <2>6, <2>7, <2>8 DEF EscapedShows
  <2>. QED  BY <2>1, <2>9
<1>3. CASE c \notin DOMAIN EscapeOf /\ c \notin Controls
  <2>1. Escaped(c) = << c >>
    BY <1>3 DEF Escaped
  <2>. DEFINE t == << c >>
  <2>2. t \in Seq(Nat) /\ Len(t) = 1 /\ t[1] = c
    OBVIOUS
  <2>. HIDE DEF t
  <2>3. EscapedShows(c, t)
    BY <1>3, <2>2 DEF EscapedShows
  <2>. QED  BY <2>1, <2>3 DEF t
<1>. QED  BY <1>1, <1>2, <1>3

LEMMA EscapedStart ==
  ASSUME NEW c \in Nat
  PROVE  Escaped(c) \in Seq(Nat) /\ Len(Escaped(c)) > 0 /\ Escaped(c)[1] # Quote
<1>1. EscapedShows(c, Escaped(c))
  BY EscapedType
<1>. QED  BY <1>1, EscapeFacts, Zenon DEF EscapedShows

LEMMA OneEscaped ==
  ASSUME NEW s \in Seq(Nat), NEW p, NEW c \in Nat, NEW d \in Nat,
         Stands(s, p, Escaped(c)), Stands(s, p, Escaped(d))
  PROVE  c = d
<1>. DEFINE x == Escaped(c)  y == Escaped(d)
<1>1. EscapedShows(c, x) /\ EscapedShows(d, y)
  BY EscapedType
<1>2. Stands(s, p, x) /\ Stands(s, p, y)
  OBVIOUS
<1>. HIDE DEF x, y
<1>3. /\ Len(x) \in Nat /\ Len(x) > 0 /\ Len(y) \in Nat /\ Len(y) > 0
  BY <1>1 DEF EscapedShows
<1>10. \A k \in 1 .. Len(x) : s[p + k] = x[k]
  BY <1>2, StandsAt
<1>11. \A k \in 1 .. Len(y) : s[p + k] = y[k]
  BY <1>2, StandsAt
<1>12. s[p + 1] = x[1] /\ s[p + 1] = y[1]
  <2>1. 1 \in 1 .. Len(x) /\ 1 \in 1 .. Len(y)
    BY <1>3
  <2>. QED  BY <1>10, <1>11, <2>1
<1>13. ASSUME Len(x) >= 2, Len(y) >= 2 PROVE x[2] = y[2]
  <2>1. 2 \in 1 .. Len(x) /\ 2 \in 1 .. Len(y)
    BY <1>3, <1>13
  <2>. QED  BY <1>10, <1>11, <2>1
<1>14. c \in DOMAIN EscapeOf => Len(x) = 2 /\ x[1] = Backslash /\ x[2] = EscapeOf[c]
  BY <1>1, Zenon DEF EscapedShows
<1>15. d \in DOMAIN EscapeOf => Len(y) = 2 /\ y[1] = Backslash /\ y[2] = EscapeOf[d]
  BY <1>1, Zenon DEF EscapedShows
<1>16. c \notin DOMAIN EscapeOf /\ c \in Controls =>
         /\ Len(x) = 6 /\ x[1] = Backslash /\ x[2] = Code["u"]
         /\ x[5] = HexDigit[c \div 16] /\ x[6] = HexDigit[c % 16]
  BY <1>1, Zenon DEF EscapedShows
<1>17. d \notin DOMAIN EscapeOf /\ d \in Controls =>
         /\ Len(y) = 6 /\ y[1] = Backslash /\ y[2] = Code["u"]
         /\ y[5] = HexDigit[d \div 16] /\ y[6] = HexDigit[d % 16]
  BY <1>1, Zenon DEF EscapedShows
<1>18. /\ c \notin DOMAIN EscapeOf /\ c \notin Controls => x[1] = c
       /\ d \notin DOMAIN EscapeOf /\ d \notin Controls => y[1] = d
  BY <1>1, Zenon DEF EscapedShows
<1>19. Backslash \in DOMAIN EscapeOf
  BY EscapeFacts
<1>. DEFINE u == Code["u"]
<1>20. \A e \in DOMAIN EscapeOf : EscapeOf[e] # u
  BY EscapeFacts, Zenon
<1>21. \A e, f \in DOMAIN EscapeOf : EscapeOf[e] = EscapeOf[f] => e = f
  BY EscapeFacts, Zenon
<1>22. x[2] = u /\ c \notin DOMAIN EscapeOf /\ c \in Controls => Len(x) = 6
  BY <1>16
<1>23. (c \notin DOMAIN EscapeOf /\ c \in Controls => x[2] = u) /\ (d \notin DOMAIN EscapeOf /\ d \in Controls => y[2] = u)
  BY <1>16, <1>17, Zenon
<1>. HIDE DEF u
<1>4. CASE c \in DOMAIN EscapeOf /\ d \in DOMAIN EscapeOf
  <2>1. x[2] = y[2]
    <3>1. Len(x) \in {2, 6} /\ Len(y) \in {2, 6}
      BY <1>4, <1>14, <1>15
    <3>3. \A z \in {2, 6} : z >= 2
      OBVIOUS
    <3>2. Len(x) >= 2 /\ Len(y) >= 2
      BY <3>1, <3>3, Zenon
    <3>. QED  BY <1>13, <3>2, Zenon
  <2>. QED  BY <1>4, <1>14, <1>15, <1>21, <2>1, Zenon
<1>5. CASE c \in DOMAIN EscapeOf /\ d \notin DOMAIN EscapeOf /\ d \in Controls
  <2>1. x[2] = y[2]
    <3>1. Len(x) \in {2, 6} /\ Len(y) \in {2, 6}
      BY <1>5, <1>14, <1>17
    <3>3. \A z \in {2, 6} : z >= 2
      OBVIOUS
    <3>2. Len(x) >= 2 /\ Len(y) >= 2
      BY <3>1, <3>3, Zenon
    <3>. QED  BY <1>13, <3>2, Zenon
  <2>. QED  BY <1>5, <1>14, <1>20, <1>23, <2>1, Zenon
<1>6. CASE d \in DOMAIN EscapeOf /\ c \notin DOMAIN EscapeOf /\ c \in Controls
  <2>1. x[2] = y[2]
    <3>1. Len(x) \in {2, 6} /\ Len(y) \in {2, 6}
      BY <1>6, <1>15, <1>16
    <3>3. \A z \in {2, 6} : z >= 2
      OBVIOUS
    <3>2. Len(x) >= 2 /\ Len(y) >= 2
      BY <3>1, <3>3, Zenon
    <3>. QED  BY <1>13, <3>2, Zenon
  <2>. QED  BY <1>6, <1>15, <1>20, <1>23, <2>1, Zenon
<1>7. CASE c \notin DOMAIN EscapeOf /\ c \in Controls /\ d \notin DOMAIN EscapeOf /\ d \in Controls
  <2>. DEFINE h == c \div 16  i == c % 16  j == d \div 16  l == d % 16
  <2>1. h \in 0 .. 15 /\ i \in 0 .. 15 /\ c = 16 * h + i
    BY <1>7, ControlParts
  <2>2. j \in 0 .. 15 /\ l \in 0 .. 15 /\ d = 16 * j + l
    BY <1>7, ControlParts
  <2>3. Len(x) = 6 /\ x[5] = HexDigit[h] /\ x[6] = HexDigit[i]
    BY <1>7, <1>16, Zenon
  <2>4. Len(y) = 6 /\ y[5] = HexDigit[j] /\ y[6] = HexDigit[l]
    BY <1>7, <1>17, Zenon
  <2>. HIDE DEF h, i, j, l
  <2>5. 5 \in 1 .. Len(x) /\ 5 \in 1 .. Len(y) /\ 6 \in 1 .. Len(x) /\ 6 \in 1 .. Len(y)
    BY <2>3, <2>4
  <2>6. x[5] = y[5] /\ x[6] = y[6]
    BY <1>10, <1>11, <2>5
  <2>7. HexDigit[h] = HexDigit[j] /\ HexDigit[i] = HexDigit[l]
    BY <2>3, <2>4, <2>6
  <2>8. h = j /\ i = l
    BY <2>1, <2>2, <2>7, HexFacts, Zenon
  <2>. QED  BY <2>1, <2>2, <2>8
<1>. QED  BY <1>4, <1>5, <1>6, <1>7, <1>12, <1>14, <1>15, <1>16, <1>17, <1>18, <1>19, Zenon

\* What is between the quotes of a string.
EscapedParts(a) == [k \in DOMAIN a |-> Escaped(a[k])]
Body(a) == FlattenSeq(EscapedParts(a))

LEMMA EscapedPartsAre ==
  ASSUME NEW a \in Seq(Nat)
  PROVE  /\ AreParts(EscapedParts(a), Len(a), Nat)
         /\ \A k \in 1 .. Len(a) : EscapedParts(a)[k] = Escaped(a[k])
<1>1. Len(a) \in Nat /\ DOMAIN a = 1 .. Len(a) /\ \A k \in 1 .. Len(a) : a[k] \in Nat
  OBVIOUS
<1>. DEFINE v == EscapedParts(a)
<1>2. \A k \in 1 .. Len(a) : v[k] = Escaped(a[k])
  BY <1>1 DEF EscapedParts
<1>3. \A k \in 1 .. Len(a) : Escaped(a[k]) \in Seq(Nat)
  BY <1>1, EscapedStart
<1>4. v \in [1 .. Len(a) -> Seq(Nat)]
  <2>1. v = [k \in 1 .. Len(a) |-> Escaped(a[k])]
    BY <1>1 DEF EscapedParts
  <2>. HIDE DEF v
  <2>. QED  BY <1>3, <2>1
<1>. HIDE DEF v
<1>5. Len(v) = Len(a)
  <2>1. v \in Seq(Seq(Nat))
    BY <1>1, <1>4, MakesSeq
  <2>. QED  BY <1>1, <1>4, <2>1
<1>. QED  BY <1>2, <1>3, <1>5 DEF AreParts, v

LEMMA NoParts ==
  ASSUME NEW v, Len(v) = 0
  PROVE  FlattenSeq(v) = v
BY DEF FlattenSeq

LEMMA BodyRuns ==
  ASSUME NEW a \in Seq(Nat)
  PROVE  /\ Body(a) \in Seq(Nat)
         /\ \A s \in Seq(Nat) : \A p :
              Stands(s, p, Body(a)) => \E q : Runs(s, p, Len(Body(a)), EscapedParts(a), Len(a), q)
<1>1. AreParts(EscapedParts(a), Len(a), Nat) /\ Len(a) \in Nat
  BY EscapedPartsAre
<1>2. CASE Len(a) > 0
  <2>1. Body(a) \in Seq(Nat)
    BY <1>1, <1>2, FlatLaid DEF Body
  <2>2. ASSUME NEW s \in Seq(Nat), NEW p, Stands(s, p, Body(a))
        PROVE  \E q : Runs(s, p, Len(Body(a)), EscapedParts(a), Len(a), q)
    BY <1>1, <1>2, <2>2, FlatRuns DEF Body
  <2>. QED  BY <2>1, <2>2
<1>3. CASE ~(Len(a) > 0)
  <2>1. Len(a) = 0
    BY <1>1, <1>3
  <2>2. Len(EscapedParts(a)) = 0
    BY <1>1, <2>1 DEF AreParts
  <2>3. Body(a) = EscapedParts(a)
    BY <2>2, NoParts DEF Body
  <2>4. EscapedParts(a) \in Seq(Nat)
    <3>1. DOMAIN a = {}
      BY <2>1
    <3>. DEFINE v == EscapedParts(a)
    <3>2. v = [k \in {} |-> Escaped(a[k])]
      BY <3>1 DEF EscapedParts
    <3>3. 1 .. 0 = {}
      OBVIOUS
    <3>4. v = [k \in 1 .. 0 |-> Escaped(a[k])]
      BY <3>2, <3>3
    <3>. HIDE DEF v
    <3>5. v \in [1 .. 0 -> Nat]
      BY <3>4
    <3>6. v \in Seq(Nat)
      BY <3>5, MakesSeq
    <3>. QED  BY <3>6 DEF v
  <2>5. ASSUME NEW s \in Seq(Nat), NEW p, Stands(s, p, Body(a))
        PROVE  \E q : Runs(s, p, Len(Body(a)), EscapedParts(a), Len(a), q)
    <3>1. p \in Nat
      BY <2>5 DEF Stands
    <3>. DEFINE q == [k \in 0 .. 0 |-> p]
    <3>2. q[0] = p /\ q[0] = p + 0
      BY <3>1
    <3>. HIDE DEF q
    <3>3. Runs(s, p, 0, EscapedParts(a), 0, q)
      BY <3>2 DEF Runs
    <3>. QED  BY <2>1, <2>2, <2>3, <3>3
  <2>. QED  BY <2>3, <2>4, <2>5
<1>. QED  BY <1>2, <1>3

\* A quote comes next.
QuoteAt(s, q) == q < Len(s) /\ s[q + 1] = Quote

LEMMA NoLongerBody ==
  ASSUME NEW a \in Seq(Nat), NEW b \in Seq(Nat), Len(a) <= Len(b),
         NEW s \in Seq(Nat), NEW p, Stands(s, p, Body(a)), Stands(s, p, Body(b)),
         QuoteAt(s, p + Len(Body(a)))
  PROVE  a = b
<1>. DEFINE n == Len(a)  m == Len(b)  v == EscapedParts(a)  w == EscapedParts(b)
<1>1. PICK q : Runs(s, p, Len(Body(a)), v, n, q)
  BY BodyRuns
<1>2. PICK r : Runs(s, p, Len(Body(b)), w, m, r)
  BY BodyRuns
<1>3. n \in Nat /\ m \in Nat /\ n <= m
  OBVIOUS
<1>4. \A k \in 1 .. n : v[k] = Escaped(a[k]) /\ a[k] \in Nat
  BY EscapedPartsAre
<1>5. \A k \in 1 .. m : w[k] = Escaped(b[k]) /\ b[k] \in Nat
  BY EscapedPartsAre
<1>6. \A k \in 1 .. n : Stands(s, q[k - 1], v[k]) /\ q[k] = q[k - 1] + Len(v[k])
  BY <1>1 DEF Runs
<1>7. \A k \in 1 .. m : Stands(s, r[k - 1], w[k]) /\ r[k] = r[k - 1] + Len(w[k])
  BY <1>2 DEF Runs
<1>8. q[0] = r[0] /\ q[n] = p + Len(Body(a))
  BY <1>1, <1>2 DEF Runs
<1>9. n = Len(a) /\ m = Len(b)
  OBVIOUS
<1>. HIDE DEF n, m, v, w
<1>. DEFINE Same == {k \in 1 .. n : a[k] = b[k]}
<1>10. ASSUME NEW k \in 1 .. n, q[k - 1] = r[k - 1] PROVE k \in Same /\ Len(v[k]) = Len(w[k])
  <2>1. k \in 1 .. m
    BY <1>3
  <2>2. Stands(s, q[k - 1], v[k]) /\ Stands(s, q[k - 1], w[k])
    BY <1>6, <1>7, <1>10, <2>1
  <2>3. a[k] = b[k]
    BY <1>4, <1>5, <2>1, <2>2, OneEscaped
  <2>. QED  BY <1>4, <1>5, <2>1, <2>3
<1>. HIDE DEF Same
<1>11. \A k \in 1 .. n : q[k] = q[k - 1] + Len(v[k]) /\ r[k] = r[k - 1] + Len(w[k])
  <2>. SUFFICES ASSUME NEW k \in 1 .. n
       PROVE  q[k] = q[k - 1] + Len(v[k]) /\ r[k] = r[k - 1] + Len(w[k])
    OBVIOUS
  <2>1. k \in 1 .. m
    BY <1>3
  <2>2. q[k] = q[k - 1] + Len(v[k])
    BY <1>6, Zenon
  <2>3. r[k] = r[k - 1] + Len(w[k])
    BY <1>7, <2>1, Zenon
  <2>. QED  BY <2>2, <2>3, Zenon
<1>12. \A k \in 0 .. n : q[k] = r[k] /\ (k > 0 => k \in Same)
  <2>1. KeepStep(n, v, w, q, r, Same)
    BY <1>8, <1>10, <1>11 DEF KeepStep
  <2>2. InStep(n, q, r, Same)
    BY <1>3, <2>1, RunsInStep, Zenon
  <2>. QED  BY <2>2 DEF InStep
<1>13. n = m
  <2>. SUFFICES ASSUME n # m PROVE FALSE
    OBVIOUS
  <2>. DEFINE j == n + 1
  <2>1. j \in 1 .. m /\ j - 1 = n /\ n \in 0 .. n
    BY <1>3
  <2>. HIDE DEF j
  <2>2. r[n] = p + Len(Body(a))
    BY <1>8, <1>12, <2>1
  <2>3. Stands(s, r[n], Escaped(b[j])) /\ b[j] \in Nat
    BY <1>5, <1>7, <2>1
  <2>. DEFINE x == Escaped(b[j])
  <2>4. x \in Seq(Nat) /\ Len(x) > 0 /\ x[1] # Quote
    BY <2>3, EscapedStart
  <2>. HIDE DEF x
  <2>5. 1 \in 1 .. Len(x)
    BY <2>4
  <2>6. s[r[n] + 1] = x[1]
    BY <2>3, <2>5 DEF Stands, x
  <2>. QED  BY <2>2, <2>4, <2>6 DEF QuoteAt
<1>14. ASSUME NEW k \in 1 .. n PROVE a[k] = b[k]
  <2>1. k \in 0 .. n /\ k > 0
    BY <1>3
  <2>2. k \in Same
    BY <1>12, <2>1
  <2>. QED  BY <2>2 DEF Same
<1>. QED  BY <1>9, <1>13, <1>14, SameSequence

LEMMA StringIs ==
  ASSUME NEW a \in Seq(Nat)
  PROVE  /\ StringText(a) = (<< Quote >> \o Body(a)) \o << Quote >>
         /\ StringText(a) \in Seq(Nat) /\ Len(StringText(a)) > 0 /\ StringText(a)[1] = Quote
<1>1. StringText(a) = (<< Quote >> \o Body(a)) \o << Quote >>
  BY DEF StringText, Body, EscapedParts
<1>. DEFINE o == << Quote >>
<1>2. o \in Seq(Nat) /\ Len(o) = 1 /\ o[1] = Quote
  BY EscapeFacts
<1>3. Body(a) \in Seq(Nat) /\ Len(Body(a)) \in Nat
  BY BodyRuns
<1>. HIDE DEF o
<1>4. /\ (o \o Body(a)) \o o \in Seq(Nat) /\ Len((o \o Body(a)) \o o) = (Len(o) + Len(Body(a))) + Len(o)
      /\ ((o \o Body(a)) \o o)[1] = o[1]
  <2>1. Len(o) > 0
    BY <1>2
  <2>. QED  BY <1>2, <1>3, <2>1, ThreeType, Zenon
<1>. QED  BY <1>1, <1>2, <1>3, <1>4 DEF o

LEMMA StringStands ==
  ASSUME NEW a \in Seq(Nat), NEW s \in Seq(Nat), NEW p, Stands(s, p, StringText(a))
  PROVE  Stands(s, p + 1, Body(a)) /\ QuoteAt(s, (p + 1) + Len(Body(a)))
<1>. DEFINE o == << Quote >>
<1>1. o \in Seq(Nat) /\ Len(o) = 1 /\ o[1] = Quote
  BY EscapeFacts
<1>2. Body(a) \in Seq(Nat)
  BY BodyRuns
<1>3. StringText(a) = (o \o Body(a)) \o o
  BY StringIs
<1>. HIDE DEF o
<1>4. StandInThree(s, p, (o \o Body(a)) \o o, o, Body(a), o)
  BY <1>1, <1>2, <1>3, StandsThree
<1>5. Stands(s, p + 1, Body(a)) /\ Stands(s, (p + 1) + Len(Body(a)), o)
  BY <1>1, <1>4 DEF StandInThree
<1>6. QuoteAt(s, (p + 1) + Len(Body(a)))
  BY <1>1, <1>5 DEF Stands, QuoteAt
<1>. QED  BY <1>5, <1>6

\* No two strings stand in one place.
LEMMA OneString ==
  ASSUME NEW s \in Seq(Nat), NEW p, NEW a \in Seq(Nat), NEW b \in Seq(Nat),
         Stands(s, p, StringText(a)), Stands(s, p, StringText(b))
  PROVE  a = b
<1>1. Stands(s, p + 1, Body(a)) /\ QuoteAt(s, (p + 1) + Len(Body(a)))
  BY StringStands
<1>2. Stands(s, p + 1, Body(b)) /\ QuoteAt(s, (p + 1) + Len(Body(b)))
  BY StringStands
<1>3. Len(a) \in Nat /\ Len(b) \in Nat
  OBVIOUS
<1>4. CASE Len(a) <= Len(b)
  BY <1>1, <1>2, <1>4, NoLongerBody
<1>5. CASE Len(b) <= Len(a)
  <2>1. b = a
    BY <1>1, <1>2, <1>5, NoLongerBody
  <2>. QED  BY <2>1
<1>. QED  BY <1>3, <1>4, <1>5

----------------------------------------------------------------------------
(* Bytes and links in text.                                                *)

LEMMA SymbolFacts ==
  /\ \A n \in 0 .. 63 : SymbolOf[n] \in Nat /\ SymbolOf[n] # Quote
  /\ \A j, k \in 0 .. 63 : SymbolOf[j] = SymbolOf[k] => j = k
<1>. DEFINE A == Base64Alphabet
<1>1. A \in Seq(Nat) /\ Len(A) = 64 /\ Quote \notin ToSet(A)
  BY Zenon, JsonTextAssumption
<1>2. \A j, k \in 1 .. 64 : A[j] = A[k] => j = k
  BY Zenon, JsonTextAssumption
<1>3. \A n \in 0 .. 63 : SymbolOf[n] = A[n + 1]
  <2>. HIDE DEF A
  <2>1. SymbolOf = [n \in 0 .. 63 |-> A[n + 1]]
    BY Zenon DEF SymbolOf, A
  <2>. QED  BY <2>1
<1>. HIDE DEF A
<1>4. DOMAIN A = 1 .. 64 /\ \A k \in 1 .. 64 : A[k] \in Nat /\ A[k] \in ToSet(A)
  <2>1. DOMAIN A = 1 .. Len(A) /\ \A k \in 1 .. Len(A) : A[k] \in Nat
    BY <1>1, SeqFacts, Zenon
  <2>2. \A k \in DOMAIN A : A[k] \in ToSet(A)
    BY Zenon DEF ToSet
  <2>. QED  BY <1>1, <2>1, <2>2
<1>5. \A n \in 0 .. 63 : n + 1 \in 1 .. 64
  OBVIOUS
<1>6. ASSUME NEW n \in 0 .. 63 PROVE SymbolOf[n] \in Nat /\ SymbolOf[n] # Quote
  <2>1. n + 1 \in 1 .. 64 /\ SymbolOf[n] = A[n + 1]
    BY <1>3, <1>5
  <2>2. A[n + 1] \in Nat /\ A[n + 1] \in ToSet(A)
    BY <1>4, <2>1
  <2>3. A[n + 1] # Quote
    BY <1>1, <2>2
  <2>. QED  BY <2>1, <2>2, <2>3
<1>7. ASSUME NEW j \in 0 .. 63, NEW k \in 0 .. 63, SymbolOf[j] = SymbolOf[k] PROVE j = k
  <2>1. A[j + 1] = A[k + 1]
    BY <1>3, <1>7
  <2>2. j + 1 = k + 1
    BY <1>2, <1>5, <2>1
  <2>. QED  BY <2>2
<1>. QED  BY <1>6, <1>7

Powers == {1, 2, 4, 8, 16, 32, 64, 128}

LEMMA PowersAre ==
  /\ \A i \in 0 .. 7 : PowerOf2[i] \in Powers
  /\ \A x \in Powers : \E i \in 0 .. 7 : PowerOf2[7 - i] = x
<1>1. /\ PowerOf2[0] = 1 /\ PowerOf2[1] = 2 /\ PowerOf2[2] = 4 /\ PowerOf2[3] = 8
      /\ PowerOf2[4] = 16 /\ PowerOf2[5] = 32 /\ PowerOf2[6] = 64 /\ PowerOf2[7] = 128
  BY DEF PowerOf2
<1>. HIDE DEF PowerOf2
<1>2. ASSUME NEW i \in 0 .. 7 PROVE PowerOf2[i] \in Powers
  <2>1. i = 0 \/ i = 1 \/ i = 2 \/ i = 3 \/ i = 4 \/ i = 5 \/ i = 6 \/ i = 7
    OBVIOUS
  <2>. QED  BY <1>1, <2>1 DEF Powers
<1>3. ASSUME NEW x \in Powers PROVE \E i \in 0 .. 7 : PowerOf2[7 - i] = x
  <2>1. /\ 7 - 7 = 0 /\ 7 - 6 = 1 /\ 7 - 5 = 2 /\ 7 - 4 = 3 /\ 7 - 3 = 4 /\ 7 - 2 = 5 /\ 7 - 1 = 6
        /\ 7 - 0 = 7
    OBVIOUS
  <2>2. \E j \in 0 .. 7 : PowerOf2[j] = x
    BY <1>1, <1>3 DEF Powers
  <2>3. PICK j \in 0 .. 7 : PowerOf2[j] = x
    BY <2>2
  <2>4. 7 - j \in 0 .. 7 /\ 7 - (7 - j) = j
    OBVIOUS
  <2>. QED  BY <2>3, <2>4
<1>. QED  BY <1>2, <1>3

LEMMA BitType ==
  ASSUME NEW x \in Nat, NEW power \in Powers
  PROVE  (x \div power) % 2 \in {0, 1}
<1>1. CASE power = 1
  BY <1>1
<1>2. CASE power # 1
  <2>1. power \in Nat /\ power >= 2
    BY <1>2 DEF Powers
  <2>2. IsDivided(x, power, x \div power, x % power)
    BY <2>1, DivideBy
  <2>3. x \div power \in Nat
    BY <2>2 DEF IsDivided
  <2>. QED  BY <2>3
<1>. QED  BY <1>1, <1>2

\* The bits of a byte determine it.
LEMMA BitsTell ==
  ASSUME NEW x \in 0 .. 255, NEW y \in 0 .. 255,
         \A power \in Powers : (x \div power) % 2 = (y \div power) % 2
  PROVE  x = y
<1>1. /\ (x \div 1) % 2 = (y \div 1) % 2 /\ (x \div 2) % 2 = (y \div 2) % 2
      /\ (x \div 4) % 2 = (y \div 4) % 2 /\ (x \div 8) % 2 = (y \div 8) % 2
      /\ (x \div 16) % 2 = (y \div 16) % 2 /\ (x \div 32) % 2 = (y \div 32) % 2
      /\ (x \div 64) % 2 = (y \div 64) % 2 /\ (x \div 128) % 2 = (y \div 128) % 2
  BY DEF Powers
<1>2. x \div 128 = y \div 128
  BY <1>1
<1>3. x \div 64 = y \div 64
  BY <1>1, <1>2
<1>4. x \div 32 = y \div 32
  BY <1>1, <1>3
<1>5. x \div 16 = y \div 16
  BY <1>1, <1>4
<1>6. x \div 8 = y \div 8
  BY <1>1, <1>5
<1>7. x \div 4 = y \div 4
  BY <1>1, <1>6
<1>8. x \div 2 = y \div 2
  BY <1>1, <1>7
<1>. QED  BY <1>1, <1>8

LEMMA BytesHere ==
  ASSUME NEW a \in Seq(Byte)
  PROVE  Len(a) \in Nat /\ DOMAIN a = 1 .. Len(a) /\ \A k \in 1 .. Len(a) : a[k] \in 0 .. 255
<1>1. Byte \subseteq 0 .. 255
  <2>1. Base <= 256
    BY Zenon, JsonAssumption
  <2>2. Base \in Nat
    BY SizeType, WireAssumption DEF ByteSize
  <2>. QED  BY <2>1, <2>2 DEF Byte
<1>. QED  BY <1>1, SeqFacts

LEMMA BitOfType ==
  ASSUME NEW a \in Seq(Byte), NEW j \in Nat
  PROVE  BitOf(a, j) \in {0, 1}
<1>1. CASE j \div 8 < Len(a)
  <2>. DEFINE x == a[j \div 8 + 1]  power == PowerOf2[7 - (j % 8)]
  <2>1. BitOf(a, j) = (x \div power) % 2
    BY <1>1 DEF BitOf
  <2>2. j \div 8 + 1 \in 1 .. Len(a) /\ 7 - (j % 8) \in 0 .. 7
    BY <1>1, BytesHere
  <2>3. x \in Nat
    <3>. DEFINE k == j \div 8 + 1
    <3>1. k \in 1 .. Len(a)
      BY <2>2
    <3>. HIDE DEF k
    <3>2. a[k] \in 0 .. 255
      BY <3>1, BytesHere
    <3>4. \A z \in 0 .. 255 : z \in Nat
      OBVIOUS
    <3>3. a[k] \in Nat
      BY <3>2, <3>4, Zenon
    <3>. QED  BY <3>3 DEF k
  <2>4. power \in Powers
    BY <2>2, PowersAre
  <2>. HIDE DEF x, power
  <2>. QED  BY <2>1, <2>3, <2>4, BitType
<1>2. CASE ~(j \div 8 < Len(a))
  BY <1>2 DEF BitOf
<1>. QED  BY <1>1, <1>2

LEMMA SixBitsTell ==
  ASSUME NEW a \in Seq(Byte), NEW b \in Seq(Byte), NEW j \in Nat
  PROVE  /\ SixBits(a, j) \in 0 .. 63
         /\ SixBits(a, j) = SixBits(b, j) => \A i \in 0 .. 5 : BitOf(a, j + i) = BitOf(b, j + i)
<1>1. ASSUME NEW i \in 0 .. 5 PROVE BitOf(a, j + i) \in {0, 1} /\ BitOf(b, j + i) \in {0, 1}
  BY BitOfType
<1>2. j + 0 = j
  OBVIOUS
<1>. DEFINE p == [i \in 0 .. 5 |-> BitOf(a, j + i)]  q == [i \in 0 .. 5 |-> BitOf(b, j + i)]
<1>3. \A i \in 0 .. 5 : p[i] = BitOf(a, j + i) /\ q[i] = BitOf(b, j + i) /\ p[i] \in {0, 1} /\ q[i] \in {0, 1}
  BY <1>1
<1>. HIDE DEF p, q
<1>4. /\ SixBits(a, j) = 32 * p[0] + 16 * p[1] + 8 * p[2] + 4 * p[3] + 2 * p[4] + p[5]
      /\ SixBits(b, j) = 32 * q[0] + 16 * q[1] + 8 * q[2] + 4 * q[3] + 2 * q[4] + q[5]
  BY <1>2, <1>3 DEF SixBits
<1>5. /\ p[0] \in {0, 1} /\ p[1] \in {0, 1} /\ p[2] \in {0, 1} /\ p[3] \in {0, 1} /\ p[4] \in {0, 1} /\ p[5] \in {0, 1}
      /\ q[0] \in {0, 1} /\ q[1] \in {0, 1} /\ q[2] \in {0, 1} /\ q[3] \in {0, 1} /\ q[4] \in {0, 1} /\ q[5] \in {0, 1}
  BY <1>3
<1>8. \A x \in {0, 1} : x \in Nat /\ x >= 0 /\ x <= 1
  OBVIOUS
<1>6. SixBits(a, j) \in 0 .. 63
  <2>. DEFINE p0 == p[0]  p1 == p[1]  p2 == p[2]  p3 == p[3]  p4 == p[4]  p5 == p[5]  z == SixBits(a, j)
  <2>1. /\ p0 \in Nat /\ p0 <= 1 /\ p1 \in Nat /\ p1 <= 1 /\ p2 \in Nat /\ p2 <= 1
        /\ p3 \in Nat /\ p3 <= 1 /\ p4 \in Nat /\ p4 <= 1 /\ p5 \in Nat /\ p5 <= 1
    BY <1>5, <1>8
  <2>2. z = 32 * p0 + 16 * p1 + 8 * p2 + 4 * p3 + 2 * p4 + p5
    BY <1>4
  <2>3. z \in 0 .. 63
    <3>. HIDE DEF p0, p1, p2, p3, p4, p5, z
    <3>. QED  BY <2>1, <2>2
  <2>. QED  BY <2>3
<1>7. ASSUME SixBits(a, j) = SixBits(b, j) PROVE \A i \in 0 .. 5 : p[i] = q[i]
  <2>1. 32 * p[0] + 16 * p[1] + 8 * p[2] + 4 * p[3] + 2 * p[4] + p[5]
          = 32 * q[0] + 16 * q[1] + 8 * q[2] + 4 * q[3] + 2 * q[4] + q[5]
    BY <1>4, <1>7
  <2>. DEFINE p0 == p[0]  p1 == p[1]  p2 == p[2]  p3 == p[3]  p4 == p[4]  p5 == p[5]
              q0 == q[0]  q1 == q[1]  q2 == q[2]  q3 == q[3]  q4 == q[4]  q5 == q[5]
  <2>2. /\ p0 \in Nat /\ p0 <= 1 /\ p1 \in Nat /\ p1 <= 1 /\ p2 \in Nat /\ p2 <= 1
        /\ p3 \in Nat /\ p3 <= 1 /\ p4 \in Nat /\ p4 <= 1 /\ p5 \in Nat /\ p5 <= 1
        /\ q0 \in Nat /\ q0 <= 1 /\ q1 \in Nat /\ q1 <= 1 /\ q2 \in Nat /\ q2 <= 1
        /\ q3 \in Nat /\ q3 <= 1 /\ q4 \in Nat /\ q4 <= 1 /\ q5 \in Nat /\ q5 <= 1
    BY <1>5, <1>8
  <2>3. 32 * p0 + 16 * p1 + 8 * p2 + 4 * p3 + 2 * p4 + p5 = 32 * q0 + 16 * q1 + 8 * q2 + 4 * q3 + 2 * q4 + q5
    BY <2>1
  <2>4. p0 = q0 /\ p1 = q1 /\ p2 = q2 /\ p3 = q3 /\ p4 = q4 /\ p5 = q5
    <3>. HIDE DEF p0, p1, p2, p3, p4, p5, q0, q1, q2, q3, q4, q5
    <3>1. p0 = q0
      BY <2>2, <2>3
    <3>2. p1 = q1
      BY <2>2, <2>3, <3>1
    <3>3. p2 = q2
      BY <2>2, <2>3, <3>1, <3>2
    <3>4. p3 = q3
      BY <2>2, <2>3, <3>1, <3>2, <3>3
    <3>5. p4 = q4 /\ p5 = q5
      BY <2>2, <2>3, <3>1, <3>2, <3>3, <3>4
    <3>. QED  BY <3>1, <3>2, <3>3, <3>4, <3>5
  <2>5. \A i \in 0 .. 5 : i = 0 \/ i = 1 \/ i = 2 \/ i = 3 \/ i = 4 \/ i = 5
    OBVIOUS
  <2>. QED  BY <2>4, <2>5
<1>. QED  BY <1>3, <1>6, <1>7

Symbols(n) == (8 * n + 5) \div 6

LEMMA SymbolsCount ==
  ASSUME NEW n \in Nat
  PROVE  /\ Symbols(n) \in Nat
         /\ \A m \in Nat : Symbols(n) = Symbols(m) => n = m
         /\ \A j \in 0 .. 8 * n - 1 : j \div 6 + 1 \in 1 .. Symbols(n)
BY DEF Symbols

LEMMA Base64Is ==
  ASSUME NEW a \in Seq(Byte)
  PROVE  /\ Base64Of(a) \in Seq(Nat) /\ Len(Base64Of(a)) = Symbols(Len(a))
         /\ \A k \in 1 .. Symbols(Len(a)) :
              Base64Of(a)[k] # Quote /\ Base64Of(a)[k] = SymbolOf[SixBits(a, 6 * (k - 1))]
<1>. DEFINE n == Symbols(Len(a))  t == Base64Of(a)
<1>1. Len(a) \in Nat /\ n \in Nat
  BY BytesHere, SymbolsCount
<1>2. t = [k \in 1 .. n |-> SymbolOf[SixBits(a, 6 * (k - 1))]]
  BY DEF Base64Of, Symbols
<1>3. ASSUME NEW k \in 1 .. n
      PROVE  SymbolOf[SixBits(a, 6 * (k - 1))] \in Nat /\ SymbolOf[SixBits(a, 6 * (k - 1))] # Quote
  <2>1. 6 * (k - 1) \in Nat
    OBVIOUS
  <2>2. SixBits(a, 6 * (k - 1)) \in 0 .. 63
    BY <2>1, SixBitsTell
  <2>. QED  BY <2>2, SymbolFacts
<1>. HIDE DEF n, t
<1>4. t \in [1 .. n -> Nat]
  BY <1>2, <1>3
<1>5. t \in Seq(Nat)
  BY <1>1, <1>4, MakesSeq
<1>6. Len(t) = n
  BY <1>1, <1>4, <1>5
<1>. QED  BY <1>2, <1>3, <1>5, <1>6 DEF n, t

\* Base64 tells bytes apart.
LEMMA Base64Tells ==
  ASSUME NEW a \in Seq(Byte), NEW b \in Seq(Byte), Base64Of(a) = Base64Of(b)
  PROVE  a = b
<1>1. Len(a) \in Nat /\ Len(b) \in Nat
  BY BytesHere
<1>2. Len(a) = Len(b)
  <2>1. Symbols(Len(a)) = Symbols(Len(b))
    BY Base64Is
  <2>. QED  BY <1>1, <2>1, SymbolsCount
<1>. DEFINE n == Len(a)
<1>3. n \in Nat /\ n = Len(a) /\ n = Len(b)
  BY <1>1, <1>2
<1>. HIDE DEF n
<1>4. ASSUME NEW j \in 0 .. 8 * n - 1 PROVE BitOf(a, j) = BitOf(b, j)
  <2>. DEFINE k == j \div 6 + 1  z == 6 * (k - 1)  i == j % 6
  <2>1. k \in 1 .. Symbols(n)
    BY <1>3, SymbolsCount
  <2>2. z \in Nat /\ i \in 0 .. 5 /\ z + i = j
    OBVIOUS
  <2>3. SymbolOf[SixBits(a, z)] = SymbolOf[SixBits(b, z)]
    BY <1>3, <2>1, Base64Is
  <2>. HIDE DEF z, i, k
  <2>4. SixBits(a, z) \in 0 .. 63 /\ SixBits(b, z) \in 0 .. 63
    BY <2>2, SixBitsTell
  <2>5. SixBits(a, z) = SixBits(b, z)
    BY <2>3, <2>4, SymbolFacts
  <2>6. \A h \in 0 .. 5 : BitOf(a, z + h) = BitOf(b, z + h)
    BY <2>2, <2>5, SixBitsTell
  <2>. QED  BY <2>2, <2>6
<1>5. ASSUME NEW k \in 1 .. n PROVE a[k] = b[k]
  <2>1. a[k] \in 0 .. 255 /\ b[k] \in 0 .. 255
    BY <1>3, BytesHere
  <2>2. ASSUME NEW power \in Powers PROVE (a[k] \div power) % 2 = (b[k] \div power) % 2
    <3>1. PICK i \in 0 .. 7 : PowerOf2[7 - i] = power
      BY PowersAre
    <3>. DEFINE j == 8 * (k - 1) + i
    <3>2. j \in 0 .. 8 * n - 1 /\ j \div 8 + 1 = k /\ j % 8 = i /\ j \div 8 < n
      BY <1>3
    <3>. HIDE DEF j
    <3>3. BitOf(a, j) = (a[k] \div power) % 2
      BY <1>3, <3>1, <3>2 DEF BitOf
    <3>4. BitOf(b, j) = (b[k] \div power) % 2
      BY <1>3, <3>1, <3>2 DEF BitOf
    <3>. QED  BY <1>4, <3>2, <3>3, <3>4
  <2>. QED  BY <2>1, <2>2, BitsTell
<1>. QED  BY <1>3, <1>5, SameSequence

LEMMA BytesTexts ==
  /\ BytesStart \in Seq(Nat) /\ BytesStop \in Seq(Nat) /\ Len(BytesStop) > 0 /\ BytesStop[1] = Quote
  /\ LinkStart \in Seq(Nat) /\ LinkStop \in Seq(Nat) /\ Len(LinkStop) > 0 /\ LinkStop[1] = Quote
  /\ Len(BytesStart) > 6 /\ Len(LinkStart) = 6
  /\ BytesStart[1] = OpenBrace /\ BytesStart[2] = Quote /\ BytesStart[3] = Slash /\ BytesStart[4] = Quote
  /\ BytesStart[6] = OpenBrace
  /\ LinkStart[1] = OpenBrace /\ LinkStart[2] = Quote /\ LinkStart[3] = Slash /\ LinkStart[4] = Quote
  /\ LinkStart[6] = Quote
<1>1. /\ BytesStart \in Seq(Nat) /\ Len(BytesStart) > 6
      /\ SubSeq(BytesStart, 1, 6) = << OpenBrace, Quote, Slash, Quote, Colon, OpenBrace >>
      /\ LinkStart = << OpenBrace, Quote, Slash, Quote, Colon, Quote >>
      /\ LinkStop = << Quote, CloseBrace >> /\ BytesStop = << Quote, CloseBrace, CloseBrace >>
  BY Zenon, JsonTextAssumption
<1>2. Quote \in Nat /\ OpenBrace \in Nat /\ CloseBrace \in Nat /\ Slash \in Nat /\ Colon \in Nat
  <2>1. Starts \in Seq(Nat) /\ Follows \in Seq(Nat) /\ Slash \in Nat \ (DOMAIN EscapeOf \cup Controls) /\ Colon \in Nat
    BY Zenon, JsonTextAssumption
  <2>2. Starts[5] = Quote /\ Starts[7] = OpenBrace /\ Follows[3] = CloseBrace
        /\ 5 \in DOMAIN Starts /\ 7 \in DOMAIN Starts /\ 3 \in DOMAIN Follows
    BY DEF Starts, Follows
  <2>. HIDE DEF Starts, Follows
  <2>. QED  BY <2>1, <2>2
<1>3. BytesStop \in Seq(Nat) /\ Len(BytesStop) > 0 /\ BytesStop[1] = Quote
  BY <1>1, <1>2
<1>4. LinkStop \in Seq(Nat) /\ Len(LinkStop) > 0 /\ LinkStop[1] = Quote
  BY <1>1, <1>2
<1>5. /\ LinkStart \in Seq(Nat) /\ Len(LinkStart) = 6
      /\ LinkStart[1] = OpenBrace /\ LinkStart[2] = Quote /\ LinkStart[3] = Slash /\ LinkStart[4] = Quote
      /\ LinkStart[6] = Quote
  BY <1>1, <1>2
<1>. DEFINE b == BytesStart  c == SubSeq(b, 1, 6)
<1>8. b \in Seq(Nat) /\ Len(b) > 6 /\ c = << OpenBrace, Quote, Slash, Quote, Colon, OpenBrace >>
  BY <1>1
<1>. HIDE DEF b
<1>9. \A i \in 1 .. 6 : c[i] = b[i]
  BY <1>8
<1>. HIDE DEF c
<1>10. c[1] = OpenBrace /\ c[2] = Quote /\ c[3] = Slash /\ c[4] = Quote /\ c[6] = OpenBrace
  BY <1>8
<1>11. c[1] = b[1] /\ c[2] = b[2] /\ c[3] = b[3] /\ c[4] = b[4] /\ c[6] = b[6]
  BY <1>9
<1>7. /\ BytesStart[1] = OpenBrace /\ BytesStart[2] = Quote /\ BytesStart[3] = Slash /\ BytesStart[4] = Quote
      /\ BytesStart[6] = OpenBrace
  BY <1>10, <1>11 DEF b
<1>. QED  BY <1>1, <1>3, <1>4, <1>5, <1>7

\* The texts of bytes and of links.
BytesText(b) == (BytesStart \o Base64Of(b)) \o BytesStop
LinkText(c) == (LinkStart \o CidTexts[c][1]) \o LinkStop

LEMMA CidTextIs ==
  ASSUME NEW c \in Cids
  PROVE  /\ CidTexts[c][1] \in Seq(Nat) /\ \A k \in 1 .. Len(CidTexts[c][1]) : CidTexts[c][1][k] # Quote
         /\ CidTexts[c][1] \in ToSet(CidTexts[c])
<1>1. CidTexts[c] \in Seq(Seq(Nat)) /\ CidTexts[c] # << >> /\ Code["\""] \notin ToSet(CidTexts[c][1])
  BY Zenon, JsonAssumption
<1>. DEFINE x == CidTexts[c]  t == x[1]
<1>2. x \in Seq(Seq(Nat)) /\ x # << >> /\ Quote \notin ToSet(t)
  BY <1>1 DEF Quote
<1>. HIDE DEF x
<1>3. 1 \in 1 .. Len(x) /\ DOMAIN x = 1 .. Len(x)
  BY <1>2
<1>4. t \in Seq(Nat) /\ t \in ToSet(x)
  <2>1. x[1] \in Seq(Nat)
    BY <1>2, <1>3
  <2>2. x[1] \in ToSet(x)
    BY <1>3 DEF ToSet
  <2>. QED  BY <2>1, <2>2
<1>. HIDE DEF t
<1>5. \A k \in 1 .. Len(t) : t[k] # Quote
  BY <1>2, <1>4 DEF ToSet
<1>. QED  BY <1>4, <1>5 DEF x, t

LEMMA OneBytes ==
  ASSUME NEW s \in Seq(Nat), NEW p, NEW a \in Seq(Byte), NEW b \in Seq(Byte),
         Stands(s, p, BytesText(a)), Stands(s, p, BytesText(b))
  PROVE  a = b
<1>. DEFINE x == Base64Of(a)  y == Base64Of(b)
<1>1. x \in Seq(Nat) /\ \A k \in 1 .. Len(x) : x[k] # Quote
  BY Base64Is
<1>2. y \in Seq(Nat) /\ \A k \in 1 .. Len(y) : y[k] # Quote
  BY Base64Is
<1>3. Stands(s, p, (BytesStart \o x) \o BytesStop) /\ Stands(s, p, (BytesStart \o y) \o BytesStop)
  BY DEF BytesText
<1>. HIDE DEF x, y
<1>4. x = y
  BY <1>1, <1>2, <1>3, BytesTexts, OneQuoted
<1>. QED  BY <1>4, Base64Tells DEF x, y

LEMMA OneLink ==
  ASSUME NEW s \in Seq(Nat), NEW p, NEW c \in Cids, NEW d \in Cids,
         Stands(s, p, LinkText(c)), Stands(s, p, LinkText(d))
  PROVE  c = d
<1>. DEFINE x == CidTexts[c][1]  y == CidTexts[d][1]
<1>1. x \in Seq(Nat) /\ (\A k \in 1 .. Len(x) : x[k] # Quote) /\ x \in ToSet(CidTexts[c])
  BY CidTextIs
<1>2. y \in Seq(Nat) /\ (\A k \in 1 .. Len(y) : y[k] # Quote) /\ y \in ToSet(CidTexts[d])
  BY CidTextIs
<1>3. Stands(s, p, (LinkStart \o x) \o LinkStop) /\ Stands(s, p, (LinkStart \o y) \o LinkStop)
  BY DEF LinkText
<1>. HIDE DEF x, y
<1>4. x = y
  BY <1>1, <1>2, <1>3, BytesTexts, OneQuoted
<1>5. c # d => ToSet(CidTexts[c]) \cap ToSet(CidTexts[d]) = {}
  BY Zenon, JsonAssumption
<1>. QED  BY <1>1, <1>2, <1>4, <1>5

----------------------------------------------------------------------------
(* The keys of a map in the order of their bytes.                          *)

\* What a key has in a place: nothing, which is less than any byte, past its end.
Place(a, k) == IF k <= Len(a) THEN a[k] + 1 ELSE 0
Apart(a, b, k) == k \in Nat /\ k > 0 /\ Place(a, k) < Place(b, k) /\ \A j \in 1 .. k - 1 : Place(a, j) = Place(b, j)

LEMMA PlaceType ==
  ASSUME NEW a \in Seq(Byte)
  PROVE  /\ Len(a) \in Nat /\ DOMAIN a = 1 .. Len(a)
         /\ \A k \in Nat : k > 0 => /\ Place(a, k) \in Nat
                                    /\ k <= Len(a) => Place(a, k) = a[k] + 1 /\ Place(a, k) > 0 /\ a[k] \in Nat
                                    /\ ~(k <= Len(a)) => Place(a, k) = 0
<1>1. Len(a) \in Nat /\ DOMAIN a = 1 .. Len(a) /\ \A k \in 1 .. Len(a) : a[k] \in 0 .. 255
  BY BytesHere
<1>2. ASSUME NEW k \in Nat, k > 0
      PROVE  /\ Place(a, k) \in Nat
             /\ k <= Len(a) => Place(a, k) = a[k] + 1 /\ Place(a, k) > 0 /\ a[k] \in Nat
             /\ ~(k <= Len(a)) => Place(a, k) = 0
  <2>1. CASE k <= Len(a)
    <3>1. k \in 1 .. Len(a)
      BY <1>1, <1>2, <2>1
    <3>. DEFINE x == a[k]
    <3>2. x \in 0 .. 255
      BY <1>1, <3>1
    <3>3. Place(a, k) = x + 1
      BY <2>1 DEF Place
    <3>. HIDE DEF x
    <3>4. x \in Nat /\ x + 1 \in Nat /\ x + 1 > 0
      BY <3>2
    <3>. QED  BY <2>1, <3>3, <3>4 DEF x
  <2>2. CASE ~(k <= Len(a))
    BY <2>2 DEF Place
  <2>. QED  BY <2>1, <2>2
<1>. QED  BY <1>1, <1>2

LEMMA PrefixApart ==
  ASSUME NEW a \in Seq(Byte), NEW b \in Seq(Byte), IsStrictPrefix(a, b)
  PROVE  Apart(a, b, Len(a) + 1)
<1>1. Len(a) \in Nat /\ Len(b) \in Nat /\ Len(a) <= Len(b) /\ a # b
  BY PlaceType DEF IsStrictPrefix, IsPrefix
<1>2. IsCut(SubSeq(a, 1, Len(a)), a, 0, Len(a), Byte) /\ IsCut(SubSeq(b, 1, Len(a)), b, 0, Len(a), Byte)
  BY <1>1, WholeCut
<1>3. SubSeq(a, 1, Len(a)) = SubSeq(b, 1, Len(a))
  BY DEF IsStrictPrefix, IsPrefix
<1>4. ASSUME NEW i \in 1 .. Len(a) PROVE a[i] = b[i]
  <2>1. i \in 1 .. Len(a) - 0 /\ 0 + i = i
    OBVIOUS
  <2>2. SubSeq(a, 1, Len(a))[i] = a[0 + i] /\ SubSeq(b, 1, Len(a))[i] = b[0 + i]
    BY <1>2, <2>1 DEF IsCut
  <2>. QED  BY <1>3, <2>1, <2>2
<1>5. Len(a) < Len(b)
  <2>1. Len(a) # Len(b)
    BY <1>1, <1>4, SameSequence
  <2>. QED  BY <1>1, <2>1
<1>. DEFINE k == Len(a) + 1
<1>6. k \in Nat /\ k > 0 /\ ~(k <= Len(a)) /\ k <= Len(b)
  BY <1>1, <1>5
<1>7. Place(a, k) < Place(b, k)
  <2>1. Place(a, k) = 0 /\ Place(b, k) > 0
    <3>. HIDE DEF k
    <3>. QED  BY <1>6, PlaceType
  <2>. QED  BY <2>1
<1>8. ASSUME NEW j \in 1 .. k - 1 PROVE Place(a, j) = Place(b, j)
  <2>1. j \in 1 .. Len(a) /\ j <= Len(a) /\ j <= Len(b)
    BY <1>1, <1>5
  <2>. QED  BY <1>4, <2>1 DEF Place
<1>. QED  BY <1>6, <1>7, <1>8 DEF Apart

LEMMA BytewiseApart ==
  ASSUME NEW a \in Seq(Byte), NEW b \in Seq(Byte)
  PROVE  BytewiseBelow(a, b) <=> \E k : Apart(a, b, k)
<1>1. /\ Len(a) \in Nat /\ DOMAIN a = 1 .. Len(a) /\ Len(b) \in Nat /\ DOMAIN b = 1 .. Len(b)
  BY PlaceType
<1>2. ASSUME BytewiseBelow(a, b) PROVE \E k : Apart(a, b, k)
  <2>1. CASE IsStrictPrefix(a, b)
    BY <2>1, PrefixApart
  <2>2. CASE ~IsStrictPrefix(a, b)
    <3>1. PICK k \in DOMAIN a \cap DOMAIN b : a[k] < b[k] /\ \A j \in 1 .. k - 1 : a[j] = b[j]
      BY <1>2, <2>2 DEF BytewiseBelow
    <3>2. k \in Nat /\ k > 0 /\ k <= Len(a) /\ k <= Len(b)
      BY <1>1
    <3>3. Place(a, k) = a[k] + 1 /\ Place(b, k) = b[k] + 1 /\ a[k] \in Nat /\ b[k] \in Nat
      BY <3>2, PlaceType
    <3>4. Place(a, k) < Place(b, k)
      BY <3>1, <3>3
    <3>5. ASSUME NEW j \in 1 .. k - 1 PROVE Place(a, j) = Place(b, j)
      <4>1. j <= Len(a) /\ j <= Len(b)
        BY <1>1, <3>2
      <4>. QED  BY <3>1, <4>1 DEF Place
    <3>. QED  BY <3>2, <3>4, <3>5 DEF Apart
  <2>. QED  BY <2>1, <2>2
<1>3. ASSUME NEW k, Apart(a, b, k) PROVE BytewiseBelow(a, b)
  <2>1. k \in Nat /\ k > 0 /\ Place(a, k) < Place(b, k) /\ \A j \in 1 .. k - 1 : Place(a, j) = Place(b, j)
    BY <1>3 DEF Apart
  <2>2. k <= Len(b)
    <3>1. Place(a, k) \in Nat /\ Place(b, k) \in Nat /\ (~(k <= Len(b)) => Place(b, k) = 0)
      BY <2>1, PlaceType
    <3>. QED  BY <2>1, <3>1
  <2>3. ASSUME NEW j \in 1 .. k - 1 PROVE j <= Len(a) /\ j <= Len(b) /\ a[j] = b[j] /\ j \in 1 .. Len(a) /\ j \in 1 .. Len(b)
    <3>1. j \in Nat /\ j > 0 /\ j <= Len(b)
      BY <1>1, <2>1, <2>2
    <3>2. Place(b, j) = b[j] + 1 /\ Place(b, j) > 0 /\ b[j] \in Nat
      BY <3>1, PlaceType
    <3>3. Place(a, j) = Place(b, j)
      BY <2>1
    <3>4. j <= Len(a)
      <4>1. ~(j <= Len(a)) => Place(a, j) = 0
        BY <3>1, PlaceType
      <4>. QED  BY <3>2, <3>3, <4>1
    <3>5. Place(a, j) = a[j] + 1 /\ a[j] \in Nat
      BY <3>1, <3>4, PlaceType
    <3>6. a[j] = b[j]
      BY <3>2, <3>3, <3>5
    <3>. QED  BY <1>1, <3>1, <3>4, <3>6
  <2>4. CASE k <= Len(a)
    <3>1. Place(a, k) = a[k] + 1 /\ Place(b, k) = b[k] + 1 /\ a[k] \in Nat /\ b[k] \in Nat
      BY <2>1, <2>2, <2>4, PlaceType
    <3>2. a[k] < b[k] /\ k \in DOMAIN a \cap DOMAIN b
      BY <1>1, <2>1, <2>2, <2>4, <3>1
    <3>. QED  BY <2>3, <3>2 DEF BytewiseBelow
  <2>5. CASE ~(k <= Len(a))
    <3>1. Len(a) = k - 1
      <4>1. k - 1 <= Len(a)
        <5>1. CASE k = 1
          BY <1>1, <5>1
        <5>2. CASE k # 1
          <6>1. k - 1 \in 1 .. k - 1
            BY <2>1, <5>2
          <6>. QED  BY <2>3, <6>1
        <5>. QED  BY <5>1, <5>2
      <4>. QED  BY <1>1, <2>1, <2>5, <4>1
    <3>2. Len(a) < Len(b) /\ Len(a) <= Len(b) /\ Len(a) # Len(b)
      BY <1>1, <2>1, <2>2, <3>1
    <3>3. IsCut(SubSeq(a, 1, Len(a)), a, 0, Len(a), Byte) /\ IsCut(SubSeq(b, 1, Len(a)), b, 0, Len(a), Byte)
      <4>0. \A m, n \in Nat : m < n => m \in 0 .. m /\ m \in 0 .. n
        OBVIOUS
      <4>1. Len(a) \in 0 .. Len(a) /\ Len(a) \in 0 .. Len(b)
        BY <1>1, <3>2, <4>0, Zenon
      <4>. QED  BY <4>1, WholeCut
    <3>. DEFINE x == SubSeq(a, 1, Len(a))  y == SubSeq(b, 1, Len(a))
    <3>4. x \in Seq(Byte) /\ y \in Seq(Byte) /\ Len(x) = Len(a) - 0 /\ Len(y) = Len(a) - 0
          /\ \A i \in 1 .. Len(a) - 0 : x[i] = a[0 + i] /\ y[i] = b[0 + i]
      BY <3>3 DEF IsCut
    <3>. HIDE DEF x, y
    <3>5. ASSUME NEW i \in 1 .. Len(x) PROVE x[i] = y[i]
      <4>1. i \in 1 .. Len(a) - 0 /\ 0 + i = i /\ i \in 1 .. k - 1
        BY <1>1, <3>1, <3>4
      <4>. QED  BY <2>3, <3>4, <4>1
    <3>6. x = y
      BY <3>4, <3>5, SameSequence
    <3>7. IsPrefix(a, b) /\ a # b
      BY <3>2, <3>6 DEF IsPrefix, x, y
    <3>. QED  BY <3>7 DEF BytewiseBelow, IsStrictPrefix
  <2>. QED  BY <2>4, <2>5
<1>. QED  BY <1>2, <1>3

\* A strict order of all keys.
LEMMA BytewiseOrders ==
  ASSUME NEW a \in Seq(Byte), NEW b \in Seq(Byte)
  PROVE  /\ ~BytewiseBelow(a, a)
         /\ a # b => BytewiseBelow(a, b) \/ BytewiseBelow(b, a)
         /\ \A c \in Seq(Byte) : BytewiseBelow(a, b) /\ BytewiseBelow(b, c) => BytewiseBelow(a, c)
<1>1. ~BytewiseBelow(a, a)
  <2>1. ASSUME NEW k, Apart(a, a, k) PROVE FALSE
    <3>1. k \in Nat /\ k > 0 /\ Place(a, k) < Place(a, k)
      BY <2>1 DEF Apart
    <3>2. Place(a, k) \in Nat
      BY <3>1, PlaceType
    <3>. QED  BY <3>1, <3>2
  <2>. QED  BY <2>1, BytewiseApart
<1>2. ASSUME a # b PROVE BytewiseBelow(a, b) \/ BytewiseBelow(b, a)
  <2>. DEFINE T == {k \in Nat : k > 0 /\ Place(a, k) # Place(b, k)}
  <2>0. /\ Len(a) \in Nat /\ DOMAIN a = 1 .. Len(a) /\ Len(b) \in Nat /\ DOMAIN b = 1 .. Len(b)
    BY PlaceType
  <2>1. T # {}
    <3>. SUFFICES ASSUME T = {} PROVE FALSE
      OBVIOUS
    <3>1. ASSUME NEW k \in Nat, k > 0 PROVE Place(a, k) = Place(b, k)
      BY <3>1
    <3>. HIDE DEF T
    <3>2. ASSUME NEW k \in Nat, k > 0 PROVE k <= Len(a) <=> k <= Len(b)
      <4>1. Place(a, k) = Place(b, k)
        BY <3>1, <3>2
      <4>2. (k <= Len(a) => Place(a, k) > 0) /\ (~(k <= Len(a)) => Place(a, k) = 0)
        BY <3>2, PlaceType
      <4>3. (k <= Len(b) => Place(b, k) > 0) /\ (~(k <= Len(b)) => Place(b, k) = 0)
        BY <3>2, PlaceType
      <4>. QED  BY <4>1, <4>2, <4>3
    <3>3. Len(a) = Len(b)
      <4>1. Len(a) > 0 => Len(a) <= Len(b)
        BY <2>0, <3>2
      <4>2. Len(b) > 0 => Len(b) <= Len(a)
        BY <2>0, <3>2
      <4>3. Len(a) \in Nat /\ Len(b) \in Nat
        BY <2>0
      <4>. QED  BY <4>1, <4>2, <4>3
    <3>4. ASSUME NEW k \in 1 .. Len(a) PROVE a[k] = b[k]
      <4>1. k \in Nat /\ k > 0 /\ k <= Len(a) /\ k <= Len(b)
        BY <2>0, <3>3
      <4>2. Place(a, k) = a[k] + 1 /\ Place(b, k) = b[k] + 1 /\ a[k] \in Nat /\ b[k] \in Nat
        BY <4>1, PlaceType
      <4>3. Place(a, k) = Place(b, k)
        BY <3>1, <4>1
      <4>. QED  BY <4>2, <4>3
    <3>5. a = b
      BY <3>3, <3>4, SameSequence
    <3>. QED  BY <1>2, <3>5
  <2>2. T \subseteq Nat
    OBVIOUS
  <2>3. PICK k \in T : \A j \in T : k <= j
    <3>. HIDE DEF T
    <3>. QED  BY <2>1, <2>2, Least
  <2>4. k \in Nat /\ k > 0 /\ Place(a, k) # Place(b, k)
    OBVIOUS
  <2>5. Place(a, k) \in Nat /\ Place(b, k) \in Nat
    BY <2>4, PlaceType
  <2>6. ASSUME NEW j \in 1 .. k - 1 PROVE Place(a, j) = Place(b, j)
    <3>1. j \in Nat /\ j > 0 /\ ~(k <= j)
      BY <2>4
    <3>. QED  BY <2>3, <3>1
  <2>7. \A j \in 1 .. k - 1 : Place(b, j) = Place(a, j)
    BY <2>6
  <2>8. Apart(a, b, k) \/ Apart(b, a, k)
    <3>1. Place(a, k) < Place(b, k) \/ Place(b, k) < Place(a, k)
      BY <2>4, <2>5
    <3>. QED  BY <2>4, <2>6, <2>7, <3>1 DEF Apart
  <2>. QED  BY <2>8, BytewiseApart
<1>3. ASSUME NEW c \in Seq(Byte), BytewiseBelow(a, b), BytewiseBelow(b, c) PROVE BytewiseBelow(a, c)
  <2>1. PICK k : Apart(a, b, k)
    BY <1>3, BytewiseApart
  <2>2. PICK l : Apart(b, c, l)
    BY <1>3, BytewiseApart
  <2>3. k \in Nat /\ k > 0 /\ Place(a, k) < Place(b, k) /\ \A j \in 1 .. k - 1 : Place(a, j) = Place(b, j)
    BY <2>1 DEF Apart
  <2>4. l \in Nat /\ l > 0 /\ Place(b, l) < Place(c, l) /\ \A j \in 1 .. l - 1 : Place(b, j) = Place(c, j)
    BY <2>2 DEF Apart
  <2>5. \A j \in Nat : j > 0 => Place(a, j) \in Nat /\ Place(b, j) \in Nat /\ Place(c, j) \in Nat
    BY PlaceType
  <2>6. CASE k <= l
    <3>1. Place(a, k) < Place(c, k)
      <4>1. CASE k = l
        BY <2>3, <2>4, <2>5, <4>1
      <4>2. CASE k # l
        <5>1. k \in 1 .. l - 1
          BY <2>3, <2>4, <2>6, <4>2
        <5>. QED  BY <2>3, <2>4, <5>1
      <4>. QED  BY <4>1, <4>2
    <3>2. ASSUME NEW j \in 1 .. k - 1 PROVE Place(a, j) = Place(c, j)
      <4>1. j \in 1 .. l - 1
        BY <2>3, <2>4, <2>6
      <4>. QED  BY <2>3, <2>4, <4>1
    <3>3. Apart(a, c, k)
      BY <2>3, <3>1, <3>2 DEF Apart
    <3>. QED  BY <3>3, BytewiseApart
  <2>7. CASE ~(k <= l)
    <3>1. Place(a, l) < Place(c, l)
      <4>1. l \in 1 .. k - 1
        BY <2>3, <2>4, <2>7
      <4>. QED  BY <2>3, <2>4, <4>1
    <3>2. ASSUME NEW j \in 1 .. l - 1 PROVE Place(a, j) = Place(c, j)
      <4>1. j \in 1 .. k - 1
        BY <2>3, <2>4, <2>7
      <4>. QED  BY <2>3, <2>4, <4>1
    <3>3. Apart(a, c, l)
      BY <2>4, <3>1, <3>2 DEF Apart
    <3>. QED  BY <3>3, BytewiseApart
  <2>. QED  BY <2>6, <2>7
<1>. QED  BY <1>1, <1>2, <1>3

\* The keys are all there, each in a place.
AllKeys(ks, D) ==
  /\ DOMAIN ks = 1 .. Cardinality(D) /\ Cardinality(D) \in Nat
  /\ \A k \in 1 .. Cardinality(D) : ks[k] \in D
  /\ \A x \in D : \E k \in 1 .. Cardinality(D) : ks[k] = x

LEMMA BytewiseKeys ==
  ASSUME NEW of, IsFiniteSet(DOMAIN of), DOMAIN of \subseteq Seq(Byte)
  PROVE  AllKeys(KeysOfBytewise(of), DOMAIN of) /\ Len(KeysOfBytewise(of)) = Cardinality(DOMAIN of)
<1>. DEFINE D == DOMAIN of  n == Cardinality(D)
            Lesser(x) == {y \in D : BytewiseBelow(y, x)}
            rank == [x \in D |-> Cardinality(Lesser(x))]
            ks == [k \in 1 .. n |-> CHOOSE x \in D : rank[x] = k - 1]
<1>1. KeysOfBytewise(of) = ks
  BY DEF KeysOfBytewise, Sorted
<1>2. IsFiniteSet(D) /\ n \in Nat
  BY FS_CardinalityType
<1>3. ASSUME NEW x \in D PROVE IsFiniteSet(Lesser(x)) /\ Cardinality(Lesser(x)) \in 0 .. n - 1
  <2>1. x \notin Lesser(x)
    BY BytewiseOrders
  <2>2. Lesser(x) \in SUBSET D /\ Lesser(x) # D
    BY <2>1
  <2>3. IsFiniteSet(Lesser(x)) /\ Cardinality(Lesser(x)) <= n /\ Cardinality(Lesser(x)) # n
    <3>. HIDE DEF Lesser, D
    <3>1. IsFiniteSet(Lesser(x)) /\ Cardinality(Lesser(x)) <= Cardinality(D)
          /\ (Cardinality(D) = Cardinality(Lesser(x)) => D = Lesser(x))
      BY <1>2, <2>2, FS_Subset
    <3>. QED  BY <2>2, <3>1
  <2>4. Cardinality(Lesser(x)) \in Nat
    BY <2>3, FS_CardinalityType
  <2>. HIDE DEF Lesser, n
  <2>. QED  BY <1>2, <2>3, <2>4
<1>4. ASSUME NEW x \in D, NEW y \in D, BytewiseBelow(x, y) PROVE Cardinality(Lesser(x)) # Cardinality(Lesser(y))
  <2>1. x \in Lesser(y) /\ x \notin Lesser(x)
    BY <1>4, BytewiseOrders
  <2>2. Lesser(x) \subseteq Lesser(y)
    BY <1>4, BytewiseOrders
  <2>3. IsFiniteSet(Lesser(y))
    BY <1>3
  <2>. HIDE DEF Lesser, D
  <2>4. Lesser(x) \in SUBSET Lesser(y) /\ Lesser(y) # Lesser(x)
    BY <2>1, <2>2
  <2>. QED  BY <2>3, <2>4, FS_Subset
<1>5. \A x \in D : rank[x] = Cardinality(Lesser(x))
  OBVIOUS
<1>6. rank \in [D -> 0 .. n - 1]
  BY <1>3
<1>7. \A x, y \in D : rank[x] = rank[y] => x = y
  <2>1. ASSUME NEW x \in D, NEW y \in D, x # y PROVE rank[x] # rank[y]
    <3>1. BytewiseBelow(x, y) \/ BytewiseBelow(y, x)
      BY <2>1, BytewiseOrders
    <3>. HIDE DEF Lesser, rank, D
    <3>. QED  BY <1>4, <1>5, <3>1
  <2>. QED  BY <2>1
<1>. HIDE DEF rank, Lesser, D, n
<1>8. rank \in Injection(D, 0 .. n - 1)
  BY <1>6, <1>7, Zenon DEF Injection, IsInjective
<1>9. IsFiniteSet(0 .. n - 1) /\ Cardinality(0 .. n - 1) = n
  <2>1. 0 \in Int /\ n - 1 \in Int /\ (0 > n - 1 => n = 0) /\ (n - 1) - 0 + 1 = n
    BY <1>2
  <2>2. /\ IsFiniteSet(0 .. n - 1)
        /\ Cardinality(0 .. n - 1) = IF 0 > n - 1 THEN 0 ELSE (n - 1) - 0 + 1
    BY <2>1, FS_Interval
  <2>. QED  BY <2>1, <2>2
<1>10. rank \in Surjection(D, 0 .. n - 1)
  <2>1. Cardinality(D) = Cardinality(0 .. n - 1)
    BY <1>9 DEF n
  <2>2. Cardinality(D) = Cardinality(0 .. n - 1) <=> rank \in Surjection(D, 0 .. n - 1)
    BY <1>8, <1>9, FS_Injection
  <2>. QED  BY <2>1, <2>2
<1>11. \A i \in 0 .. n - 1 : \E x \in D : rank[x] = i
  BY <1>10, Zenon DEF Surjection
<1>12. ASSUME NEW k \in 1 .. n PROVE ks[k] \in D /\ rank[ks[k]] = k - 1
  <2>1. k - 1 \in 0 .. n - 1
    BY <1>2
  <2>2. \E x \in D : rank[x] = k - 1
    BY <1>11, <2>1
  <2>. DEFINE c == CHOOSE x \in D : rank[x] = k - 1
  <2>3. c \in D /\ rank[c] = k - 1
    BY <2>2
  <2>4. ks[k] = c
    OBVIOUS
  <2>. HIDE DEF c, ks
  <2>. QED  BY <2>3, <2>4
<1>13. DOMAIN ks = 1 .. n /\ ks \in [1 .. n -> D]
  <2>1. DOMAIN ks = 1 .. n /\ ks = [k \in 1 .. n |-> ks[k]]
    OBVIOUS
  <2>. HIDE DEF ks
  <2>. QED  BY <1>12, <2>1
<1>. HIDE DEF ks
<1>14. ASSUME NEW x \in D PROVE \E k \in 1 .. n : ks[k] = x
  <2>1. rank[x] \in 0 .. n - 1
    BY <1>6
  <2>. DEFINE k == rank[x] + 1
  <2>2. k \in 1 .. n /\ k - 1 = rank[x]
    BY <1>2, <2>1
  <2>. HIDE DEF k
  <2>3. ks[k] \in D /\ rank[ks[k]] = rank[x]
    BY <1>12, <2>2
  <2>4. ks[k] = x
    BY <1>7, <2>3
  <2>. QED  BY <2>2, <2>4
<1>15. Len(ks) = n
  <2>1. ks \in Seq(D)
    BY <1>2, <1>13, MakesSeq
  <2>. QED  BY <1>2, <1>13, <2>1
<1>16. AllKeys(ks, D)
  <2>1. DOMAIN ks = 1 .. n /\ n \in Nat
    BY <1>2, <1>13
  <2>. QED  BY <1>12, <1>14, <2>1 DEF AllKeys, n
<1>. QED  BY <1>1, <1>15, <1>16 DEF D, n

----------------------------------------------------------------------------
(* What is written, part by part.                                          *)

ReadIs == \A v, p : IsOk(Read(v, p)) /\ Read(v, p).value = v /\ Read(v, p).pos = p
LEMMA ReadsAre == ReadIs
  BY DEF IsOk, Read, ReadIs

\* Something written, as text.
AsText(w) == IsOk(w) /\ w = Written(w.value) /\ w.value \in Seq(Nat)

LEMMA WrittenText ==
  ASSUME NEW t \in Seq(Nat)
  PROVE  AsText(Written(t)) /\ Written(t).value = t
BY ReadsAre DEF AsText, Written, ReadIs

TextStands(s, q, parts, k) ==
  Stands(s, q[k - 1], parts[k].value) /\ q[k] = q[k - 1] + Len(parts[k].value)
TextsStand(s, p, w, parts, n, q) ==
  /\ q[0] = p /\ q[n] = p + Len(w.value)
  /\ \A k \in 1 .. n : TextStands(s, q, parts, k)
\* The n parts are written, and w is what they make.
TextOf(w, parts, n) ==
  /\ AsText(w) /\ \A k \in 1 .. n : AsText(parts[k])
  /\ \A s \in Seq(Nat) : \A p : Stands(s, p, w.value) => \E q : TextsStand(s, p, w, parts, n, q)

LEMMA JoinedStands ==
  ASSUME NEW n \in Nat, n > 0, NEW parts, DOMAIN parts = 1 .. n,
         \A k \in 1 .. n : IsOk(parts[k]) => AsText(parts[k]), IsOk(Joined(parts))
  PROVE  TextOf(Joined(parts), parts, n)
<1>. DEFINE v == [k \in DOMAIN parts |-> parts[k].value]
            failed == {k \in DOMAIN parts : ~IsOk(parts[k])}
            w == Joined(parts)
<1>1. w = IF failed = {} THEN Written(FlattenSeq(v)) ELSE parts[Min(failed)]
  BY Zenon DEF Joined
<1>2. failed = {}
  <2>1. ASSUME failed # {} PROVE FALSE
    <3>1. failed \subseteq Nat
      OBVIOUS
    <3>2. \E x \in failed : \A y \in failed : x <= y
      <4>. HIDE DEF failed
      <4>. QED  BY <2>1, <3>1, Least
    <3>3. Min(failed) \in failed
      BY <3>2 DEF Min
    <3>4. ~IsOk(parts[Min(failed)])
      <4>. DEFINE e == Min(failed)
      <4>. HIDE DEF e
      <4>. QED  BY <3>3 DEF e
    <3>. HIDE DEF failed
    <3>. QED  BY <1>1, <2>1, <3>4
  <2>. QED  BY <2>1
<1>3. \A k \in 1 .. n : AsText(parts[k])
  BY <1>2
<1>4. Len(v) = n /\ \A k \in 1 .. n : v[k] = parts[k].value /\ v[k] \in Seq(Nat)
  BY <1>3 DEF AsText
<1>. HIDE DEF v, failed
<1>. DEFINE c == FlattenSeq(v)
<1>5. w = Written(c)
  BY <1>1, <1>2
<1>6. AreParts(v, n, Nat)
  BY <1>4 DEF AreParts
<1>7. c \in Seq(Nat)
  BY <1>6, FlatLaid
<1>8. \A s \in Seq(Nat) : \A p : Stands(s, p, c) => \E q : Runs(s, p, Len(c), v, n, q)
  BY <1>6, FlatRuns
<1>. HIDE DEF c, w
<1>9. w.value = c /\ AsText(w)
  BY <1>5, <1>7, WrittenText
<1>10. ASSUME NEW s \in Seq(Nat), NEW p, Stands(s, p, w.value)
       PROVE  \E q : TextsStand(s, p, w, parts, n, q)
  <2>1. PICK q : Runs(s, p, Len(c), v, n, q)
    BY <1>8, <1>9, <1>10
  <2>2. TextsStand(s, p, w, parts, n, q)
    BY <1>4, <1>9, <2>1 DEF Runs, TextsStand, TextStands
  <2>. QED  BY <2>2
<1>. QED  BY <1>3, <1>9, <1>10 DEF TextOf, w

\* Two parts.
TwoStand(s, p, w, a, b) ==
  /\ Stands(s, p, a.value) /\ Stands(s, p + Len(a.value), b.value)
  /\ p + Len(w.value) = (p + Len(a.value)) + Len(b.value)
TextPair(w, a, b) ==
  /\ AsText(w) /\ AsText(a) /\ AsText(b)
  /\ \A s \in Seq(Nat) : \A p : Stands(s, p, w.value) => TwoStand(s, p, w, a, b)

LEMMA PairStands ==
  ASSUME NEW a, NEW b, IsOk(a) => AsText(a), IsOk(b) => AsText(b), IsOk(Joined(<< a, b >>))
  PROVE  TextPair(Joined(<< a, b >>), a, b)
<1>. DEFINE parts == << a, b >>  n == 2  w == Joined(parts)
<1>1. /\ n \in Nat /\ n > 0 /\ DOMAIN parts = 1 .. n /\ IsOk(w)
      /\ 1 \in 1 .. n /\ 2 \in 1 .. n /\ 1 - 1 = 0 /\ 2 - 1 = 1 /\ n = 2
      /\ parts[1] = a /\ parts[2] = b
  OBVIOUS
<1>2. \A k \in 1 .. n : IsOk(parts[k]) => AsText(parts[k])
  <2>. TAKE k \in 1 .. n
  <2>1. k = 1 \/ k = 2
    OBVIOUS
  <2>. HIDE DEF n
  <2>. QED  BY <1>1, <2>1
<1>. HIDE DEF parts, n
<1>3. TextOf(w, parts, n)
  BY <1>1, <1>2, JoinedStands
<1>. HIDE DEF w
<1>4. AsText(w) /\ AsText(a) /\ AsText(b)
  BY <1>1, <1>3 DEF TextOf
<1>5. ASSUME NEW s \in Seq(Nat), NEW p, Stands(s, p, w.value) PROVE TwoStand(s, p, w, a, b)
  <2>1. PICK q : TextsStand(s, p, w, parts, n, q)
    BY <1>3, <1>5 DEF TextOf
  <2>2. /\ q[0] = p /\ q[n] = p + Len(w.value)
        /\ TextStands(s, q, parts, 1) /\ TextStands(s, q, parts, 2)
    BY <1>1, <2>1 DEF TextsStand
  <2>3. Stands(s, q[0], a.value) /\ q[1] = q[0] + Len(a.value)
    BY <1>1, <2>2, Zenon DEF TextStands
  <2>4. Stands(s, q[1], b.value) /\ q[2] = q[1] + Len(b.value)
    BY <1>1, <2>2, Zenon DEF TextStands
  <2>. QED  BY <1>1, <2>2, <2>3, <2>4 DEF TwoStand
<1>. QED  BY <1>4, <1>5 DEF TextPair, w, parts

\* What comes next.
NextIs(s, q, c) == q < Len(s) /\ s[q + 1] = c

\* Between signs, the i-th of n parts stands from r[i] on.
PartStands(s, r, parts, n, close, i) ==
  /\ Stands(s, r[i], parts[i].value)
  /\ NextIs(s, r[i] + Len(parts[i].value), IF i = n THEN close ELSE Comma)
  /\ r[i + 1] = (r[i] + Len(parts[i].value)) + 1
PartsStand(s, p, w, open, parts, n, close, r) ==
  /\ p \in Nat /\ NextIs(s, p, open) /\ r[1] = p + 1 /\ r[n + 1] = p + Len(w.value)
  /\ \A i \in 1 .. n : PartStands(s, r, parts, n, close, i)
EnclosedText(w, open, parts, n, close) ==
  /\ AsText(w) /\ \A k \in 1 .. n : AsText(parts[k])
  /\ \A s \in Seq(Nat) : \A p :
       Stands(s, p, w.value) => \E r : PartsStand(s, p, w, open, parts, n, close, r)

LEMMA OneSign ==
  ASSUME NEW c \in Nat
  PROVE  /\ << c >> \in Seq(Nat) /\ Len(<< c >>) = 1
         /\ \A s \in Seq(Nat) : \A q : Stands(s, q, << c >>) => q \in Nat /\ NextIs(s, q, c)
<1>. DEFINE t == << c >>
<1>1. t \in Seq(Nat) /\ Len(t) = 1 /\ t[1] = c
  OBVIOUS
<1>. HIDE DEF t
<1>2. ASSUME NEW s \in Seq(Nat), NEW q, Stands(s, q, t) PROVE q \in Nat /\ NextIs(s, q, c)
  <2>1. q \in Nat /\ q + 1 <= Len(s)
    BY <1>1, <1>2 DEF Stands
  <2>2. 1 \in 1 .. Len(t)
    BY <1>1
  <2>3. s[q + 1] = t[1]
    BY <1>2, <2>2 DEF Stands
  <2>4. q < Len(s)
    BY <2>1
  <2>. QED  BY <1>1, <2>1, <2>3, <2>4 DEF NextIs
<1>. QED  BY <1>1, <1>2 DEF t

LEMMA EvenOdd ==
  ASSUME NEW n \in Nat, NEW i \in 1 .. n
  PROVE  LET m == 2 * n + 1
         IN  /\ 2 * i \in 1 .. m /\ 2 * i + 1 \in 1 .. m
             /\ (2 * i) % 2 = 0 /\ (2 * i) \div 2 = i /\ (2 * i + 1) % 2 = 1
             /\ 2 * i + 1 # 1 /\ (2 * i + 1 = m <=> i = n)
             /\ (2 * i + 1) - 1 = 2 * i /\ 2 * (i + 1) - 1 = 2 * i + 1
OBVIOUS

LEMMA EnclosedStands ==
  ASSUME NEW n \in Nat, n > 0, NEW parts, parts = [k \in 1 .. n |-> parts[k]],
         NEW open \in Nat, NEW close \in Nat, Comma \in Nat,
         \A k \in 1 .. n : IsOk(parts[k]) => AsText(parts[k]), IsOk(Enclosed(open, parts, close))
  PROVE  EnclosedText(Enclosed(open, parts, close), open, parts, n, close)
<1>. DEFINE m == 2 * n + 1
            Comes(k) == IF k = 1 THEN open ELSE IF k = m THEN close ELSE Comma
            all == [k \in 1 .. m |-> IF k % 2 = 0 THEN parts[k \div 2] ELSE Written(<< Comes(k) >>)]
            w == Joined(all)
<1>1. Len(parts) = n /\ DOMAIN parts = 1 .. n
  <2>1. parts \in [1 .. n -> {parts[k] : k \in 1 .. n}]
    BY Zenon
  <2>2. parts \in Seq({parts[k] : k \in 1 .. n})
    BY <2>1, MakesSeq
  <2>. QED  BY <2>1, <2>2
<1>2. Enclosed(open, parts, close) = w
  <2>1. ~(Len(parts) = 0) /\ 2 * Len(parts) + 1 = m
    BY <1>1
  <2>. QED  BY <2>1, Zenon DEF Enclosed
<1>3. m \in Nat /\ m > 0 /\ DOMAIN all = 1 .. m /\ 1 \in 1 .. m
  OBVIOUS
<1>4. \A k : Comes(k) \in Nat
  OBVIOUS
<1>5. ASSUME NEW k \in 1 .. m, k % 2 # 0
      PROVE  all[k] = Written(<< Comes(k) >>) /\ AsText(all[k]) /\ all[k].value = << Comes(k) >>
  <2>1. all[k] = Written(<< Comes(k) >>)
    BY <1>5
  <2>. HIDE DEF all, Comes
  <2>2. << Comes(k) >> \in Seq(Nat)
    BY <1>4
  <2>. QED  BY <2>1, <2>2, WrittenText
<1>6. ASSUME NEW i \in 1 .. n
      PROVE  all[2 * i] = parts[i]
  <2>1. 2 * i \in 1 .. m /\ (2 * i) % 2 = 0 /\ (2 * i) \div 2 = i
    BY EvenOdd
  <2>. QED  BY <2>1
<1>7. ASSUME NEW k \in 1 .. m, IsOk(all[k]) PROVE AsText(all[k])
  <2>1. CASE k % 2 # 0
    BY <1>5, <2>1
  <2>2. CASE k % 2 = 0
    <3>1. k \div 2 \in 1 .. n /\ all[k] = parts[k \div 2]
      BY <2>2
    <3>. HIDE DEF all, m
    <3>. QED  BY <1>7, <3>1
  <2>. QED  BY <2>1, <2>2
<1>8. IsOk(w)
  BY <1>2
<1>. HIDE DEF all
<1>9. TextOf(w, all, m)
  <2>. HIDE DEF m
  <2>. QED  BY <1>3, <1>7, <1>8, JoinedStands
<1>10. AsText(w) /\ \A k \in 1 .. m : AsText(all[k])
  BY <1>9 DEF TextOf
<1>11. \A s \in Seq(Nat) : \A p : Stands(s, p, w.value) => \E q : TextsStand(s, p, w, all, m, q)
  BY <1>9 DEF TextOf
<1>. HIDE DEF w
<1>12. ASSUME NEW i \in 1 .. n PROVE AsText(parts[i])
  <2>1. 2 * i \in 1 .. m
    BY EvenOdd
  <2>. HIDE DEF m
  <2>. QED  BY <1>6, <1>10, <2>1
<1>13. ASSUME NEW s \in Seq(Nat), NEW p, Stands(s, p, w.value)
       PROVE  \E r : PartsStand(s, p, w, open, parts, n, close, r)
  <2>1. PICK q : TextsStand(s, p, w, all, m, q)
    BY <1>11, <1>13
  <2>2. q[0] = p /\ q[m] = p + Len(w.value) /\ \A k \in 1 .. m : TextStands(s, q, all, k)
    BY <2>1 DEF TextsStand
  <2>3. \A k \in 1 .. m : Stands(s, q[k - 1], all[k].value) /\ q[k] = q[k - 1] + Len(all[k].value)
    BY <2>2 DEF TextStands
  <2>. DEFINE r == [i \in 1 .. n + 1 |-> q[2 * i - 1]]
  <2>4. r[1] = q[1] /\ r[n + 1] = q[m] /\ \A i \in 1 .. n : r[i] = q[2 * i - 1] /\ r[i + 1] = q[2 * i + 1]
    <3>1. 1 \in 1 .. n + 1 /\ n + 1 \in 1 .. n + 1 /\ 2 * 1 - 1 = 1 /\ 2 * (n + 1) - 1 = m
      OBVIOUS
    <3>2. \A i \in 1 .. n : i \in 1 .. n + 1 /\ i + 1 \in 1 .. n + 1 /\ 2 * (i + 1) - 1 = 2 * i + 1
      OBVIOUS
    <3>3. \A i \in 1 .. n + 1 : r[i] = q[2 * i - 1]
      OBVIOUS
    <3>. HIDE DEF r, m
    <3>4. r[1] = q[1]
      <4>1. r[1] = q[2 * 1 - 1]
        BY <3>1, <3>3, Zenon
      <4>. QED  BY <3>1, <4>1, Zenon
    <3>5. r[n + 1] = q[m]
      <4>1. r[n + 1] = q[2 * (n + 1) - 1]
        BY <3>1, <3>3, Zenon
      <4>. QED  BY <3>1, <4>1, Zenon
    <3>6. ASSUME NEW i \in 1 .. n PROVE r[i] = q[2 * i - 1] /\ r[i + 1] = q[2 * i + 1]
      <4>1. i \in 1 .. n + 1 /\ i + 1 \in 1 .. n + 1 /\ 2 * (i + 1) - 1 = 2 * i + 1
        BY <3>2, Zenon
      <4>2. r[i] = q[2 * i - 1] /\ r[i + 1] = q[2 * (i + 1) - 1]
        BY <3>3, <4>1, Zenon
      <4>. QED  BY <4>1, <4>2, Zenon
    <3>. QED  BY <3>4, <3>5, <3>6, Zenon
  <2>. HIDE DEF r
  <2>5. p \in Nat /\ NextIs(s, p, open) /\ q[1] = p + 1
    <3>1. 1 % 2 # 0 /\ 1 - 1 = 0
      OBVIOUS
    <3>2. all[1].value = << open >>
      <4>1. Comes(1) = open
        OBVIOUS
      <4>. QED  BY <1>3, <1>5, <3>1, <4>1
    <3>3. Stands(s, q[0], << open >>) /\ q[1] = q[0] + Len(<< open >>)
      BY <1>3, <2>3, <3>1, <3>2
    <3>. QED  BY <2>2, <3>3, OneSign
  <2>6. ASSUME NEW i \in 1 .. n PROVE PartStands(s, r, parts, n, close, i)
    <3>. DEFINE j == 2 * i  l == 2 * i + 1  c == IF i = n THEN close ELSE Comma
    <3>1. j \in 1 .. m /\ l \in 1 .. m /\ l % 2 # 0 /\ l - 1 = j /\ 2 * i - 1 = j - 1
      BY EvenOdd
    <3>2. all[j] = parts[i]
      BY <1>6
    <3>3. Comes(l) = c
      BY EvenOdd
    <3>4. c \in Nat
      OBVIOUS
    <3>5. r[i] = q[j - 1] /\ r[i + 1] = q[l]
      BY <2>4, <3>1
    <3>. HIDE DEF j, l, c, m, Comes
    <3>6. Stands(s, r[i], parts[i].value) /\ q[j] = r[i] + Len(parts[i].value)
      BY <2>3, <3>1, <3>2, <3>5
    <3>7. Stands(s, q[j], << c >>) /\ q[l] = q[j] + Len(<< c >>)
      <4>1. all[l].value = << c >>
        BY <1>5, <3>1, <3>3
      <4>. QED  BY <2>3, <3>1, <4>1
    <3>8. NextIs(s, q[j], c) /\ q[l] = q[j] + 1
      BY <3>4, <3>7, OneSign
    <3>. QED  BY <3>5, <3>6, <3>8 DEF PartStands, c
  <2>7. PartsStand(s, p, w, open, parts, n, close, r)
    BY <2>2, <2>4, <2>5, <2>6 DEF PartsStand
  <2>. QED  BY <2>7
<1>14. EnclosedText(w, open, parts, n, close)
  BY <1>10, <1>12, <1>13 DEF EnclosedText
<1>. QED  BY <1>2, <1>14

----------------------------------------------------------------------------
\* Two texts stand in one place, with no digit after either.
BothStand(s, p, a, b) ==
  /\ Stands(s, p, a) /\ Stands(s, p, b)
  /\ EndsAt(s, p + Len(a), JsonDigits) /\ EndsAt(s, p + Len(b), JsonDigits)
\* The k-th of a and of b are the same wherever both stand.
PartsTell(s, a, b, n, m, Same) ==
  \A k \in 1 .. n : k <= m =>
    \A p : BothStand(s, p, a[k].value, b[k].value) => k \in Same /\ Len(a[k].value) = Len(b[k].value)

LEMMA FollowFacts ==
  /\ Comma \in Nat /\ CloseBracket \in Nat /\ CloseBrace \in Nat
  /\ Comma # CloseBracket /\ Comma # CloseBrace
  /\ Comma \notin JsonDigits /\ CloseBracket \notin JsonDigits /\ CloseBrace \notin JsonDigits
  /\ \A x \in ToSet(Starts) : x # Comma /\ x # CloseBracket /\ x # CloseBrace
<1>. DEFINE f == Follows
<1>1. f \in Seq(Nat) /\ \A j, k \in 1 .. 3 : f[j] = f[k] => j = k
  BY JsonTextAssumption DEF f
<1>2. f[1] = Comma /\ f[2] = CloseBracket /\ f[3] = CloseBrace /\ Len(f) = 3
  BY DEF f, Follows
<1>3. ToSet(f) = {Comma, CloseBracket, CloseBrace}
  BY <1>2 DEF f, Follows, ToSet
<1>4. /\ \A n \in 0 .. 9 : Code["0"] + n \notin ToSet(Starts) \cup ToSet(f)
      /\ ToSet(Starts) \cap ToSet(f) = {}
  BY JsonTextAssumption DEF f
<1>. HIDE DEF f
<1>5. \A k \in 1 .. 3 : f[k] \in Nat
  BY <1>1, <1>2
<1>6. 1 \in 1 .. 3 /\ 2 \in 1 .. 3 /\ 3 \in 1 .. 3 /\ 1 # 2 /\ 1 # 3
  OBVIOUS
<1>7. Comma \in Nat /\ CloseBracket \in Nat /\ CloseBrace \in Nat
  BY <1>2, <1>5, <1>6, Zenon
<1>8. Comma # CloseBracket /\ Comma # CloseBrace
  BY <1>1, <1>2, <1>6, Zenon
<1>9. Comma \notin JsonDigits /\ CloseBracket \notin JsonDigits /\ CloseBrace \notin JsonDigits
  BY <1>3, <1>4, Zenon DEF JsonDigits
<1>10. \A x \in ToSet(Starts) : x # Comma /\ x # CloseBracket /\ x # CloseBrace
  BY <1>3, <1>4, Zenon
<1>. QED  BY <1>7, <1>8, <1>9, <1>10

LEMMA OnePart ==
  ASSUME NEW s, NEW a, NEW b, NEW n, NEW m, NEW q, NEW r, NEW close, NEW i \in 1 .. n, i <= m,
         PartStands(s, q, a, n, close, i), PartStands(s, r, b, m, close, i), q[i] = r[i],
         close # Comma, close \notin JsonDigits, Comma \notin JsonDigits, NEW Same,
         PartsTell(s, a, b, n, m, Same)
  PROVE  i \in Same /\ q[i + 1] = r[i + 1] /\ (i = n <=> i = m)
<1>. DEFINE x == a[i].value  y == b[i].value
            c == IF i = n THEN close ELSE Comma
            d == IF i = m THEN close ELSE Comma
<1>1. /\ Stands(s, q[i], x) /\ NextIs(s, q[i] + Len(x), c) /\ q[i + 1] = (q[i] + Len(x)) + 1
      /\ Stands(s, r[i], y) /\ NextIs(s, r[i] + Len(y), d) /\ r[i + 1] = (r[i] + Len(y)) + 1
  BY DEF PartStands
<1>2. c \notin JsonDigits /\ d \notin JsonDigits
  OBVIOUS
<1>3. \A e : \A z \in {c, d} : NextIs(s, e, z) => EndsAt(s, e, JsonDigits)
  <2>. HIDE DEF c, d
  <2>. QED  BY <1>2, Zenon DEF NextIs, EndsAt
<1>4. BothStand(s, q[i], x, y)
  <2>. HIDE DEF c, d, x, y
  <2>1. EndsAt(s, q[i] + Len(x), JsonDigits) /\ EndsAt(s, r[i] + Len(y), JsonDigits)
    BY <1>1, <1>3, Zenon
  <2>. QED  BY <1>1, <2>1, Zenon DEF BothStand
<1>5. i \in Same /\ Len(x) = Len(y)
  BY <1>4, Zenon DEF PartsTell
<1>. HIDE DEF x, y
<1>6. q[i + 1] = r[i + 1] /\ c = d
  <2>. HIDE DEF c, d
  <2>1. q[i + 1] = r[i + 1]
    BY <1>1, <1>5
  <2>2. q[i] + Len(x) = r[i] + Len(y)
    BY <1>5
  <2>3. s[(q[i] + Len(x)) + 1] = c /\ s[(r[i] + Len(y)) + 1] = d
    BY <1>1, Zenon DEF NextIs
  <2>4. s[(q[i] + Len(x)) + 1] = s[(r[i] + Len(y)) + 1]
    BY <2>2, Zenon
  <2>. QED  BY <2>1, <2>3, <2>4
<1>. QED  BY <1>5, <1>6

\* Two lists of parts between the same signs.
LEMMA EnclosedTold ==
  ASSUME NEW n \in Nat, n > 0, NEW m \in Nat, m > 0, NEW a, NEW b, NEW v, NEW w,
         NEW open, NEW close, close # Comma, close \notin JsonDigits, Comma \notin JsonDigits,
         AsText(v), AsText(w),
         EnclosedText(v, open, a, n, close), EnclosedText(w, open, b, m, close),
         NEW s \in Seq(Nat), NEW p, Stands(s, p, v.value), Stands(s, p, w.value),
         NEW Same, PartsTell(s, a, b, n, m, Same)
  PROVE  n = m /\ (\A k \in 1 .. n : k \in Same) /\ Len(v.value) = Len(w.value)
<1>1. PICK q : PartsStand(s, p, v, open, a, n, close, q)
  BY DEF EnclosedText
<1>2. PICK r : PartsStand(s, p, w, open, b, m, close, r)
  BY DEF EnclosedText
<1>3. /\ p \in Nat /\ q[1] = p + 1 /\ r[1] = p + 1
      /\ q[n + 1] = p + Len(v.value) /\ r[m + 1] = p + Len(w.value)
      /\ \A i \in 1 .. n : PartStands(s, q, a, n, close, i)
      /\ \A i \in 1 .. m : PartStands(s, r, b, m, close, i)
  BY <1>1, <1>2 DEF PartsStand
<1>. DEFINE S == {k \in 0 .. n : k <= m /\ q[k + 1] = r[k + 1] /\ (k > 0 => k \in Same /\ (k = n <=> k = m))}
<1>4. 0 \in S
  BY <1>3
<1>5. ASSUME NEW k \in 0 .. n - 1, k \in S PROVE k + 1 \in S
  <2>1. k <= m /\ q[k + 1] = r[k + 1] /\ (k > 0 => (k = n <=> k = m))
    BY <1>5
  <2>. DEFINE i == k + 1
  <2>2. i \in 1 .. n /\ i \in 0 .. n /\ i <= m /\ i \in 1 .. m /\ i > 0
    BY <2>1
  <2>3. q[i] = r[i]
    BY <2>1
  <2>. HIDE DEF i, S
  <2>4. PartStands(s, q, a, n, close, i) /\ PartStands(s, r, b, m, close, i)
    BY <1>3, <2>2
  <2>5. i \in Same /\ q[i + 1] = r[i + 1] /\ (i = n <=> i = m)
    BY <2>2, <2>3, <2>4, OnePart
  <2>6. i \in S
    BY <2>2, <2>5 DEF S
  <2>. QED  BY <2>6 DEF i
<1>. HIDE DEF S
<1>6. 0 .. n \subseteq S
  BY <1>4, <1>5, InductionUpTo
<1>7. \A k \in 1 .. n : k \in Same
  <2>1. \A k \in 1 .. n : k \in 0 .. n /\ k > 0
    OBVIOUS
  <2>. QED  BY <1>6, <2>1 DEF S
<1>8. n \in S
  <2>1. n \in 0 .. n
    OBVIOUS
  <2>. QED  BY <1>6, <2>1
<1>9. n = m /\ q[n + 1] = r[n + 1]
  BY <1>8 DEF S
<1>10. Len(v.value) \in Nat /\ Len(w.value) \in Nat
  BY DEF AsText
<1>11. p + Len(v.value) = p + Len(w.value)
  BY <1>3, <1>9
<1>12. Len(v.value) = Len(w.value)
  BY <1>3, <1>10, <1>11
<1>. QED  BY <1>7, <1>9, <1>12

\* What may be read where a value is expected.
JsonText(w) == AsText(w) /\ Len(w.value) > 0 /\ w.value[1] \in ToSet(Starts) \cup JsonDigits

\* Something between the signs is not nothing.
LEMMA EnclosedIsNotNone ==
  ASSUME NEW n \in Nat, n > 0, NEW a, NEW v, NEW open, NEW close, EnclosedText(v, open, a, n, close),
         Len(a[1].value) > 0, a[1].value[1] # close,
         NEW s \in Seq(Nat), NEW p, Stands(s, p, v.value), Stands(s, p, << open, close >>)
  PROVE  FALSE
<1>1. PICK q : PartsStand(s, p, v, open, a, n, close, q)
  BY DEF EnclosedText
<1>. DEFINE x == a[1].value
<1>2. p \in Nat /\ q[1] = p + 1 /\ PartStands(s, q, a, n, close, 1) /\ AsText(a[1])
  <2>1. 1 \in 1 .. n
    OBVIOUS
  <2>. QED  BY <1>1, <2>1 DEF PartsStand, EnclosedText
<1>3. Stands(s, p + 1, x)
  BY <1>2 DEF PartStands
<1>. HIDE DEF x
<1>4. 1 \in 1 .. Len(x)
  <2>1. x \in Seq(Nat) /\ Len(x) > 0
    BY <1>2 DEF AsText, x
  <2>. QED  BY <2>1
<1>5. s[(p + 1) + 1] = x[1]
  BY <1>3, <1>4 DEF Stands
<1>6. s[p + 2] = close
  <2>. DEFINE t == << open, close >>
  <2>1. 2 \in 1 .. Len(t) /\ t[2] = close
    OBVIOUS
  <2>. HIDE DEF t
  <2>2. Stands(s, p, t)
    BY DEF t
  <2>. QED  BY <2>1, <2>2 DEF Stands
<1>7. (p + 1) + 1 = p + 2
  BY <1>2
<1>. QED  BY <1>5, <1>6, <1>7 DEF x

----------------------------------------------------------------------------
(* Values in text.                                                         *)

WordOf(name) ==
  CASE name = "null" -> NullWord [] name = "true" -> TrueWord [] name = "false" -> FalseWord

\* What each kind of value is written as, where it is not too deep.
LEMMA JsonByKind ==
  ASSUME NEW depth \in Nat, depth <= MaxDepth, NEW text
  PROVE  /\ \A n : JsonItem(Simple(n), depth, text) = Written(WordOf(n))
         /\ \A n : JsonItem(Integer(n), depth, text)
                     = IF InRange(n) THEN Written(DecimalOf(n)) ELSE Fail("IntegerOutOfRange")
         /\ \A v : v.kind = "float" => JsonItem(v, depth, text) = Fail("FloatInText")
         /\ \A b : JsonItem(Bytes(b), depth, text) = Written(BytesText(b))
         /\ \A b : JsonItem(Text(b), depth, text) = Written(StringText(b))
         /\ \A v : JsonItem(List(v), depth, text)
                     = Enclosed(OpenBracket, JsonItems(v, text), CloseBracket)
         /\ \A of : JsonItem(Map(of), depth, text)
                      = IF << Slash >> \in DOMAIN of THEN Fail("ReservedKey")
                        ELSE Enclosed(OpenBrace, JsonEntries(KeysOfBytewise(of), of, text), CloseBrace)
         /\ \A c : JsonItem(Link(c), depth, text) = Written(LinkText(c))
<1>1. ~(depth > MaxDepth)
  BY CborAssumption
<1>2. \A n : Simple(n).kind = "simple" /\ Simple(n).name = n
  BY DEF Simple
<1>3. \A n : Integer(n).kind = "integer" /\ Integer(n).num = n
  BY DEF Integer
<1>5. \A b : Bytes(b).kind = "bytes" /\ Bytes(b).bytes = b
  BY DEF Bytes
<1>6. \A b : Text(b).kind = "text" /\ Text(b).bytes = b
  BY DEF Text
<1>7. \A v : List(v).kind = "list" /\ List(v).items = v
  BY DEF List
<1>8. \A of : Map(of).kind = "map" /\ Map(of).of = of
  BY DEF Map
<1>9. \A c : Link(c).kind = "link" /\ Link(c).bytes = c
  BY DEF Link
<1>10. \A n : JsonItem(Simple(n), depth, text) = Written(WordOf(n))
  BY <1>1, <1>2 DEF JsonItem, WordOf
<1>11. \A n : JsonItem(Integer(n), depth, text)
                = IF InRange(n) THEN Written(DecimalOf(n)) ELSE Fail("IntegerOutOfRange")
  BY <1>1, <1>3 DEF JsonItem
<1>12. \A v : v.kind = "float" => JsonItem(v, depth, text) = Fail("FloatInText")
  BY <1>1 DEF JsonItem
<1>13. \A b : JsonItem(Bytes(b), depth, text) = Written(BytesText(b))
  <2>1. \A b : BytesText(b) = BytesStart \o Base64Of(b) \o BytesStop
    BY DEF BytesText
  <2>. QED  BY <1>1, <1>5, <2>1 DEF JsonItem
<1>14. \A b : JsonItem(Text(b), depth, text) = Written(StringText(b))
  BY <1>1, <1>6 DEF JsonItem
<1>15. \A v : JsonItem(List(v), depth, text) = Enclosed(OpenBracket, JsonItems(v, text), CloseBracket)
  BY <1>1, <1>7 DEF JsonItem
<1>16. \A of : JsonItem(Map(of), depth, text)
                 = IF << Slash >> \in DOMAIN of THEN Fail("ReservedKey")
                   ELSE Enclosed(OpenBrace, JsonEntries(KeysOfBytewise(of), of, text), CloseBrace)
  BY <1>1, <1>8 DEF JsonItem
<1>17. \A c : JsonItem(Link(c), depth, text) = Written(LinkText(c))
  <2>1. \A c : LinkText(c) = LinkStart \o CidTexts[c][1] \o LinkStop
    BY DEF LinkText
  <2>. QED  BY <1>1, <1>9, <2>1 DEF JsonItem
<1>. QED  BY <1>10, <1>11, <1>12, <1>13, <1>14, <1>15, <1>16, <1>17

\* What a text that begins with c is of.
LeadOf(c) ==
  IF c = NullWord[1] THEN "null" ELSE IF c = TrueWord[1] THEN "true"
  ELSE IF c = FalseWord[1] THEN "false" ELSE IF c = Quote THEN "text"
  ELSE IF c = OpenBracket THEN "list" ELSE IF c = OpenBrace THEN "brace" ELSE "number"

Leads ==
  /\ LeadOf(NullWord[1]) = "null" /\ LeadOf(TrueWord[1]) = "true" /\ LeadOf(FalseWord[1]) = "false"
  /\ LeadOf(Quote) = "text" /\ LeadOf(OpenBracket) = "list" /\ LeadOf(OpenBrace) = "brace"
  /\ LeadOf(Dash) = "number" /\ \A c \in JsonDigits : LeadOf(c) = "number"
StartingFacts ==
  /\ {NullWord[1], TrueWord[1], FalseWord[1], Dash, Quote, OpenBracket, OpenBrace} = ToSet(Starts)
  /\ OpenBracket \in Nat /\ OpenBrace \in Nat /\ Quote # OpenBrace

LEMMA LeadsAre == Leads /\ StartingFacts
<1>. DEFINE f == Starts
<1>1. f \in Seq(Nat) /\ \A j, k \in 1 .. 7 : f[j] = f[k] => j = k
  BY JsonTextAssumption DEF f
<1>2. /\ f[1] = NullWord[1] /\ f[2] = TrueWord[1] /\ f[3] = FalseWord[1] /\ f[4] = Dash
      /\ f[5] = Quote /\ f[6] = OpenBracket /\ f[7] = OpenBrace /\ Len(f) = 7
  BY DEF f, Starts
<1>3. ToSet(f) = {NullWord[1], TrueWord[1], FalseWord[1], Dash, Quote, OpenBracket, OpenBrace}
  BY <1>2 DEF f, Starts, ToSet
<1>4. \A n \in 0 .. 9 : Code["0"] + n \notin ToSet(f)
  BY JsonTextAssumption DEF f
<1>. HIDE DEF f
<1>5. \A c \in JsonDigits : c \notin ToSet(f)
  BY <1>4, Zenon DEF JsonDigits
<1>6. \A j, k \in 1 .. 7 : j # k => f[j] # f[k]
  BY <1>1
<1>7. f[6] \in Nat /\ f[7] \in Nat
  <2>1. 6 \in 1 .. Len(f) /\ 7 \in 1 .. Len(f)
    BY <1>2
  <2>0. f \in Seq(Nat)
    BY <1>1
  <2>2. \A j \in 1 .. Len(f) : f[j] \in Nat
    BY <2>0
  <2>. QED  BY <2>1, <2>2, Zenon
<1>. DEFINE a == NullWord[1]  b == TrueWord[1]  c == FalseWord[1]
<1>8. /\ b # a /\ c # a /\ c # b /\ Quote # a /\ Quote # b /\ Quote # c
      /\ OpenBracket # a /\ OpenBracket # b /\ OpenBracket # c /\ OpenBracket # Quote
      /\ OpenBrace # a /\ OpenBrace # b /\ OpenBrace # c /\ OpenBrace # Quote /\ OpenBrace # OpenBracket
      /\ Dash # a /\ Dash # b /\ Dash # c /\ Dash # Quote /\ Dash # OpenBracket /\ Dash # OpenBrace
  BY <1>2, <1>6
<1>9. \A x \in JsonDigits : x # a /\ x # b /\ x # c /\ x # Quote /\ x # OpenBracket /\ x # OpenBrace
  BY <1>3, <1>5
<1>10. StartingFacts
  BY <1>2, <1>3, <1>7, <1>8 DEF StartingFacts, f
<1>. HIDE DEF a, b, c
<1>11. Leads
  BY <1>8, <1>9 DEF Leads, LeadOf, a, b, c
<1>. QED  BY <1>10, <1>11

----------------------------------------------------------------------------
\* n parts between signs, or the signs alone.
JsonRow(w, open, a, n, close) ==
  /\ JsonText(w) /\ w.value[1] = open
  /\ n = 0 => w.value = << open, close >>
  /\ n > 0 => EnclosedText(w, open, a, n, close) /\ \A k \in 1 .. n : JsonText(a[k])

LEMMA StandsItself ==
  ASSUME NEW t \in Seq(Nat)
  PROVE  Stands(t, 0, t)
BY DEF Stands

LEMMA RowIs ==
  ASSUME NEW n \in Nat, NEW a, a = [k \in 1 .. n |-> a[k]],
         NEW open \in Nat, open \in ToSet(Starts), NEW close \in Nat,
         \A k \in 1 .. n : IsOk(a[k]) => JsonText(a[k]), IsOk(Enclosed(open, a, close))
  PROVE  JsonRow(Enclosed(open, a, close), open, a, n, close)
<1>. DEFINE w == Enclosed(open, a, close)
<1>1. Len(a) = n /\ DOMAIN a = 1 .. n
  <2>1. a \in [1 .. n -> {a[k] : k \in 1 .. n}]
    BY Zenon
  <2>2. a \in Seq({a[k] : k \in 1 .. n})
    BY <2>1, MakesSeq
  <2>. QED  BY <2>1, <2>2
<1>2. CASE n = 0
  <2>. DEFINE t == << open, close >>
  <2>1. w = Written(t)
    BY <1>1, <1>2, Zenon DEF Enclosed
  <2>2. t \in Seq(Nat) /\ Len(t) = 2 /\ t[1] = open
    OBVIOUS
  <2>. HIDE DEF t, w
  <2>3. AsText(w) /\ w.value = t
    BY <2>1, <2>2, WrittenText
  <2>4. JsonText(w) /\ w.value[1] = open
    <3>. DEFINE l == Len(t)
    <3>0. l > 0
      <4>1. l = 2
        BY <2>2
      <4>. QED  BY <4>1
    <3>1. Len(w.value) > 0
      BY <2>3, <3>0, Zenon
    <3>2. w.value[1] = open
      BY <2>2, <2>3, Zenon
    <3>. QED  BY <2>3, <3>1, <3>2 DEF JsonText
  <2>5. JsonRow(w, open, a, n, close)
    BY <1>2, <2>3, <2>4 DEF JsonRow, t
  <2>. QED  BY <2>5 DEF w
<1>3. CASE n > 0
  <2>1. \A k \in 1 .. n : IsOk(a[k]) => AsText(a[k])
    BY DEF JsonText
  <2>2. Comma \in Nat
    BY FollowFacts
  <2>3. EnclosedText(w, open, a, n, close)
    BY <1>3, <2>1, <2>2, EnclosedStands
  <2>. HIDE DEF w
  <2>4. /\ AsText(w) /\ \A k \in 1 .. n : AsText(a[k])
        /\ \A s \in Seq(Nat) : \A p : Stands(s, p, w.value) => \E r : PartsStand(s, p, w, open, a, n, close, r)
    BY <2>3 DEF EnclosedText
  <2>5. \A k \in 1 .. n : JsonText(a[k])
    BY <2>4 DEF AsText
  <2>. DEFINE t == w.value
  <2>6. t \in Seq(Nat)
    BY <2>4 DEF AsText
  <2>7. PICK r : PartsStand(t, 0, w, open, a, n, close, r)
    BY <2>4, <2>6, StandsItself
  <2>8. 0 < Len(t) /\ t[0 + 1] = open
    BY <2>7 DEF PartsStand, NextIs
  <2>9. JsonText(w) /\ w.value[1] = open
    BY <2>4, <2>8 DEF JsonText
  <2>10. JsonRow(w, open, a, n, close)
    BY <1>3, <2>3, <2>5, <2>9 DEF JsonRow
  <2>. QED  BY <2>10 DEF w
<1>. QED  BY <1>2, <1>3

\* No sign that closes begins a value.
LEMMA NoValueCloses ==
  ASSUME NEW w, JsonText(w)
  PROVE  Len(w.value) > 0 /\ w.value[1] # CloseBracket /\ w.value[1] # CloseBrace
BY FollowFacts DEF JsonText

\* Rows with the same parts.
SameRows(v, w, n, m, Same) == n = m /\ (\A k \in 1 .. n : k \in Same) /\ Len(v.value) = Len(w.value)

LEMMA RowsTold ==
  ASSUME NEW n \in Nat, NEW m \in Nat, NEW a, NEW b, NEW v, NEW w,
         NEW open, NEW close, close \in {CloseBracket, CloseBrace},
         JsonRow(v, open, a, n, close), JsonRow(w, open, b, m, close),
         NEW s \in Seq(Nat), NEW p, Stands(s, p, v.value), Stands(s, p, w.value),
         NEW Same, PartsTell(s, a, b, n, m, Same)
  PROVE  SameRows(v, w, n, m, Same)
<1>1. close # Comma /\ close \notin JsonDigits /\ Comma \notin JsonDigits
  BY FollowFacts
<1>2. AsText(v) /\ AsText(w)
  BY DEF JsonRow, JsonText
<1>3. CASE n = 0 /\ m = 0
  <2>1. v.value = w.value
    BY <1>3, Zenon DEF JsonRow
  <2>2. \A k \in 1 .. n : FALSE
    BY <1>3
  <2>. QED  BY <1>3, <2>1, <2>2 DEF SameRows
<1>4. CASE n > 0 /\ m > 0
  <2>1. EnclosedText(v, open, a, n, close) /\ EnclosedText(w, open, b, m, close)
    BY <1>4 DEF JsonRow
  <2>2. n = m /\ (\A k \in 1 .. n : k \in Same) /\ Len(v.value) = Len(w.value)
    BY <1>1, <1>2, <1>4, <2>1, EnclosedTold
  <2>. QED  BY <2>2 DEF SameRows
<1>5. CASE n > 0 /\ m = 0
  <2>1. EnclosedText(v, open, a, n, close) /\ JsonText(a[1]) /\ w.value = << open, close >>
    <3>1. 1 \in 1 .. n
      BY <1>5
    <3>. QED  BY <1>5, <3>1 DEF JsonRow
  <2>2. Len(a[1].value) > 0 /\ a[1].value[1] # close
    BY <2>1, NoValueCloses
  <2>3. Stands(s, p, << open, close >>)
    BY <2>1
  <2>4. FALSE
    BY <1>5, <2>1, <2>2, <2>3, EnclosedIsNotNone
  <2>. QED  BY <2>4
<1>6. CASE n = 0 /\ m > 0
  <2>1. EnclosedText(w, open, b, m, close) /\ JsonText(b[1]) /\ v.value = << open, close >>
    <3>1. 1 \in 1 .. m
      BY <1>6
    <3>. QED  BY <1>6, <3>1 DEF JsonRow
  <2>2. Len(b[1].value) > 0 /\ b[1].value[1] # close
    BY <2>1, NoValueCloses
  <2>3. Stands(s, p, << open, close >>)
    BY <2>1
  <2>4. FALSE
    BY <1>6, <2>1, <2>2, <2>3, EnclosedIsNotNone
  <2>. QED  BY <2>4
<1>. QED  BY <1>3, <1>4, <1>5, <1>6

----------------------------------------------------------------------------
\* What a codec of text is given, or has read.
IsTextual(v) ==
  \/ v.kind = "simple" /\ v = Simple(v.name) /\ v.name \in {"false", "true", "null"}
  \/ v.kind = "integer" /\ v = Integer(v.num) /\ v.num \in Int
  \/ v.kind = "float"
  \/ v.kind = "bytes" /\ v = Bytes(v.bytes) /\ v.bytes \in Seq(Byte)
  \/ v.kind = "text" /\ v = Text(v.bytes) /\ v.bytes \in Seq(Byte)
  \/ v.kind = "list" /\ v = List(v.items)
     /\ \E n \in Nat : Len(v.items) = n /\ v.items = [k \in 1 .. n |-> v.items[k]]
  \/ v.kind = "map" /\ v = Map(v.of) /\ v.of = [key \in DOMAIN v.of |-> v.of[key]]
     /\ IsFiniteSet(DOMAIN v.of) /\ DOMAIN v.of \subseteq Seq(Byte)
  \/ v.kind = "link" /\ v = Link(v.bytes) /\ v.bytes \in Cids

LEMMA WordsAre ==
  ASSUME NEW name \in {"false", "true", "null"}
  PROVE  /\ WordOf(name) \in Seq(Nat) /\ Len(WordOf(name)) > 0
         /\ WordOf(name)[1] \in ToSet(Starts) /\ LeadOf(WordOf(name)[1]) = name
<1>1. {NullWord, TrueWord, FalseWord} \subseteq Seq(Nat) \ {<< >>}
  BY JsonTextAssumption
<1>2. WordOf("null") = NullWord /\ WordOf("true") = TrueWord /\ WordOf("false") = FalseWord
  BY DEF WordOf
<1>3. \A t \in Seq(Nat) \ {<< >>} : Len(t) > 0
  OBVIOUS
<1>4. {NullWord[1], TrueWord[1], FalseWord[1]} \subseteq ToSet(Starts)
  BY LeadsAre, Zenon DEF StartingFacts
<1>5. LeadOf(NullWord[1]) = "null" /\ LeadOf(TrueWord[1]) = "true" /\ LeadOf(FalseWord[1]) = "false"
  BY LeadsAre, Zenon DEF Leads
<1>. QED  BY <1>1, <1>2, <1>3, <1>4, <1>5

----------------------------------------------------------------------------
(* The text of each kind of value.                                         *)

TextsAre(text, D) == \A x \in D : IsOk(text[x]) => JsonText(text[x])

\* The key of an entry, which its value follows.
KeyText(key) == Written(StringText(key) \o << Colon >>)
EntryIs(w, key, value) == JsonText(w) /\ w.value[1] = Quote /\ TextPair(w, KeyText(key), value)

LEMMA BytesAreChars ==
  ASSUME NEW a \in Seq(Byte)
  PROVE  a \in Seq(Nat)
<1>1. Base \in Nat
  BY SizeType, WireAssumption DEF ByteSize
<1>2. \A x \in Byte : x \in Nat
  BY <1>1 DEF Byte
<1>. QED  BY <1>2, SeqIn

LEMMA KeyTextIs ==
  ASSUME NEW key \in Seq(Byte)
  PROVE  /\ AsText(KeyText(key)) /\ Len(KeyText(key).value) > 0 /\ KeyText(key).value[1] = Quote
         /\ \A s \in Seq(Nat) : \A p : Stands(s, p, KeyText(key).value) => Stands(s, p, StringText(key))
<1>. DEFINE a == StringText(key)  b == << Colon >>  c == a \o b
<1>1. a \in Seq(Nat) /\ Len(a) > 0 /\ a[1] = Quote
  BY BytesAreChars, StringIs
<1>2. b \in Seq(Nat) /\ Len(b) = 1
  BY JsonTextAssumption
<1>. HIDE DEF a, b
<1>3. c \in Seq(Nat) /\ IsConcat(c, a, b)
  BY <1>1, <1>2, ConcatType
<1>. HIDE DEF c
<1>4. Len(c) > 0 /\ c[1] = Quote
  <2>1. Len(a) \in Nat /\ Len(c) = Len(a) + Len(b) /\ \A k \in 1 .. Len(a) : c[k] = a[k]
    BY <1>1, <1>3 DEF IsConcat
  <2>2. 1 \in 1 .. Len(a)
    BY <1>1, <2>1
  <2>. QED  BY <1>1, <1>2, <2>1, <2>2
<1>5. ASSUME NEW s \in Seq(Nat), NEW p, Stands(s, p, c) PROVE Stands(s, p, a)
  <2>1. StandInTurn(s, p, c, a, b)
    BY <1>1, <1>2, <1>3, <1>5, StandsBoth
  <2>. QED  BY <2>1 DEF StandInTurn
<1>6. KeyText(key) = Written(c)
  BY DEF KeyText, a, b, c
<1>7. AsText(KeyText(key)) /\ KeyText(key).value = c
  BY <1>3, <1>6, WrittenText
<1>. QED  BY <1>4, <1>5, <1>7 DEF a

LEMMA EntryTextIs ==
  ASSUME NEW key \in Seq(Byte), NEW value, IsOk(value) => AsText(value),
         IsOk(Joined(<< KeyText(key), value >>))
  PROVE  EntryIs(Joined(<< KeyText(key), value >>), key, value)
<1>. DEFINE a == KeyText(key)  w == Joined(<< a, value >>)
<1>1. AsText(a) /\ Len(a.value) > 0 /\ a.value[1] = Quote
  BY KeyTextIs
<1>. HIDE DEF a
<1>2. TextPair(w, a, value)
  <2>1. IsOk(w)
    BY DEF a
  <2>. QED  BY <1>1, <2>1, PairStands
<1>. HIDE DEF w
<1>3. AsText(w) /\ \A s \in Seq(Nat) : \A p : Stands(s, p, w.value) => TwoStand(s, p, w, a, value)
  BY <1>2 DEF TextPair
<1>. DEFINE t == w.value
<1>4. t \in Seq(Nat)
  BY <1>3 DEF AsText
<1>5. TwoStand(t, 0, w, a, value)
  BY <1>3, <1>4, StandsItself
<1>. HIDE DEF t
<1>6. Stands(t, 0, a.value)
  BY <1>5 DEF TwoStand
<1>7. 1 \in 1 .. Len(a.value) /\ Len(a.value) \in Nat /\ Len(t) \in Nat
  BY <1>1, <1>4 DEF AsText
<1>8. 0 + Len(a.value) <= Len(t) /\ t[0 + 1] = a.value[1]
  BY <1>6, <1>7 DEF Stands
<1>9. Len(t) > 0 /\ t[1] = Quote
  BY <1>1, <1>7, <1>8
<1>10. Quote \in ToSet(Starts)
  BY LeadsAre, Zenon DEF StartingFacts
<1>11. JsonText(w)
  BY <1>3, <1>9, <1>10 DEF JsonText, t
<1>. QED  BY <1>2, <1>9, <1>11 DEF EntryIs, a, w, t

\* What is written of v.
GroupOf(v) ==
  IF v.kind = "simple" THEN v.name ELSE IF v.kind = "integer" THEN "number"
  ELSE IF v.kind = "text" THEN "text" ELSE IF v.kind = "list" THEN "list" ELSE "brace"
Single(v, w) ==
  /\ v.kind = "simple" => w.value = WordOf(v.name)
  /\ v.kind = "integer" => w.value = DecimalOf(v.num)
  /\ v.kind = "text" => w.value = StringText(v.bytes)
  /\ v.kind = "bytes" => w.value = BytesText(v.bytes)
  /\ v.kind = "link" => w.value = LinkText(v.bytes)
ListText(v, text, w) ==
  \E n \in Nat : v.items = [k \in 1 .. n |-> v.items[k]]
                 /\ JsonRow(w, OpenBracket, JsonItems(v.items, text), n, CloseBracket)
MapText(v, text, w) ==
  /\ << Slash >> \notin DOMAIN v.of
  /\ JsonRow(w, OpenBrace, JsonEntries(KeysOfBytewise(v.of), v.of, text), Cardinality(DOMAIN v.of), CloseBrace)
JsonShape(v, text, w) ==
  /\ JsonText(w) /\ LeadOf(w.value[1]) = GroupOf(v) /\ v.kind # "float" /\ Single(v, w)
  /\ v.kind = "list" => ListText(v, text, w)
  /\ v.kind = "map" => MapText(v, text, w)

LEMMA ListTextIs ==
  ASSUME NEW v, NEW text, NEW n \in Nat, Len(v.items) = n, v.items = [k \in 1 .. n |-> v.items[k]],
         TextsAre(text, {v.items[k] : k \in DOMAIN v.items}),
         IsOk(Enclosed(OpenBracket, JsonItems(v.items, text), CloseBracket))
  PROVE  ListText(v, text, Enclosed(OpenBracket, JsonItems(v.items, text), CloseBracket))
<1>. DEFINE a == JsonItems(v.items, text)
<1>1. DOMAIN v.items = 1 .. n
  BY Zenon
<1>2. a = [k \in 1 .. n |-> text[v.items[k]]]
  BY <1>1, Zenon DEF JsonItems
<1>3. \A k \in 1 .. n : a[k] = text[v.items[k]]
  BY <1>2
<1>4. a = [k \in 1 .. n |-> a[k]]
  BY <1>2
<1>5. ASSUME NEW k \in 1 .. n, IsOk(a[k]) PROVE JsonText(a[k])
  <2>1. v.items[k] \in {v.items[j] : j \in DOMAIN v.items}
    BY <1>1
  <2>. HIDE DEF a
  <2>. QED  BY <1>3, <1>5, <2>1, Zenon DEF TextsAre
<1>. HIDE DEF a
<1>6. OpenBracket \in Nat /\ OpenBracket \in ToSet(Starts) /\ CloseBracket \in Nat
  BY LeadsAre, FollowFacts, Zenon DEF StartingFacts
<1>7. JsonRow(Enclosed(OpenBracket, a, CloseBracket), OpenBracket, a, n, CloseBracket)
  <2>1. IsOk(Enclosed(OpenBracket, a, CloseBracket))
    BY DEF a
  <2>. QED  BY <1>4, <1>5, <1>6, <2>1, RowIs
<1>. QED  BY <1>7, Zenon DEF ListText, a

LEMMA MapTextIs ==
  ASSUME NEW v, NEW text, IsFiniteSet(DOMAIN v.of), DOMAIN v.of \subseteq Seq(Byte), << Slash >> \notin DOMAIN v.of,
         TextsAre(text, {v.of[key] : key \in DOMAIN v.of}),
         IsOk(Enclosed(OpenBrace, JsonEntries(KeysOfBytewise(v.of), v.of, text), CloseBrace))
  PROVE  MapText(v, text, Enclosed(OpenBrace, JsonEntries(KeysOfBytewise(v.of), v.of, text), CloseBrace))
<1>. DEFINE ks == KeysOfBytewise(v.of)  a == JsonEntries(ks, v.of, text)  n == Cardinality(DOMAIN v.of)
<1>1. AllKeys(ks, DOMAIN v.of)
  BY BytewiseKeys
<1>2. n \in Nat /\ DOMAIN ks = 1 .. n /\ \A k \in 1 .. n : ks[k] \in DOMAIN v.of
  BY <1>1 DEF AllKeys
<1>. HIDE DEF ks, n
<1>3. a = [k \in 1 .. n |-> Joined(<< KeyText(ks[k]), text[v.of[ks[k]]] >>)]
  BY <1>2, Zenon DEF JsonEntries, KeyText
<1>4. a = [k \in 1 .. n |-> a[k]]
  BY <1>3
<1>5. ASSUME NEW k \in 1 .. n, IsOk(a[k]) PROVE JsonText(a[k])
  <2>. DEFINE x == v.of[ks[k]]
  <2>1. a[k] = Joined(<< KeyText(ks[k]), text[x] >>)
    BY <1>3
  <2>2. ks[k] \in Seq(Byte) /\ x \in {v.of[key] : key \in DOMAIN v.of}
    BY <1>2
  <2>. HIDE DEF x, a
  <2>3. IsOk(text[x]) => AsText(text[x])
    BY <2>2, Zenon DEF TextsAre, JsonText
  <2>4. EntryIs(a[k], ks[k], text[x])
    BY <1>5, <2>1, <2>2, <2>3, EntryTextIs
  <2>. QED  BY <2>4 DEF EntryIs
<1>. HIDE DEF a
<1>6. OpenBrace \in Nat /\ OpenBrace \in ToSet(Starts) /\ CloseBrace \in Nat
  BY LeadsAre, FollowFacts, Zenon DEF StartingFacts
<1>7. JsonRow(Enclosed(OpenBrace, a, CloseBrace), OpenBrace, a, n, CloseBrace)
  <2>1. IsOk(Enclosed(OpenBrace, a, CloseBrace))
    BY DEF a, ks
  <2>. QED  BY <1>2, <1>4, <1>5, <1>6, <2>1, RowIs
<1>. QED  BY <1>7, Zenon DEF MapText, a, ks, n

\* Under these names something fails.
LEMMA FailuresAre == ~IsOk(Fail("NestingTooDeep")) /\ ~IsOk(Fail("IntegerOutOfRange"))
                     /\ ~IsOk(Fail("FloatInText")) /\ ~IsOk(Fail("ReservedKey"))
BY DEF IsOk, Fail

LEMMA KindsOf ==
  /\ \A n : Simple(n).kind = "simple" /\ Simple(n).name = n
  /\ \A n : Integer(n).kind = "integer" /\ Integer(n).num = n
  /\ \A b : Bytes(b).kind = "bytes" /\ Bytes(b).bytes = b
  /\ \A b : Text(b).kind = "text" /\ Text(b).bytes = b
  /\ \A v : List(v).kind = "list" /\ List(v).items = v
  /\ \A of : Map(of).kind = "map" /\ Map(of).of = of
  /\ \A c : Link(c).kind = "link" /\ Link(c).bytes = c
BY DEF Simple, Integer, Bytes, Text, List, Map, Link

LEMMA NoList ==
  ASSUME NEW v, NEW text, NEW w, JsonText(w), LeadOf(w.value[1]) = GroupOf(v), Single(v, w),
         v.kind \in {"simple", "integer", "text", "bytes", "link"}
  PROVE  JsonShape(v, text, w)
BY DEF JsonShape

LEMMA JsonShapeIs ==
  ASSUME NEW depth \in Nat, NEW v, IsTextual(v), NEW text, TextsAre(text, Parts(v)),
         IsOk(JsonItem(v, depth, text))
  PROVE  JsonShape(v, text, JsonItem(v, depth, text))
<1>. DEFINE w == JsonItem(v, depth, text)
<1>1. depth <= MaxDepth
  <2>1. depth > MaxDepth => w = Fail("NestingTooDeep")
    BY DEF JsonItem
  <2>2. ~(depth > MaxDepth)
    BY <2>1, FailuresAre
  <2>. QED  BY <2>2, CborAssumption
<1>2. CASE v.kind = "simple" /\ v = Simple(v.name) /\ v.name \in {"false", "true", "null"}
  <2>1. w = Written(WordOf(v.name))
    BY <1>1, <1>2, JsonByKind
  <2>. DEFINE t == WordOf(v.name)
  <2>2. t \in Seq(Nat) /\ Len(t) > 0 /\ t[1] \in ToSet(Starts) /\ LeadOf(t[1]) = v.name
    BY <1>2, WordsAre
  <2>3. GroupOf(v) = v.name
    BY <1>2 DEF GroupOf
  <2>. HIDE DEF w, t
  <2>4. AsText(w) /\ w.value = t
    BY <2>1, <2>2, WrittenText DEF t
  <2>5. JsonText(w) /\ LeadOf(w.value[1]) = GroupOf(v)
    BY <2>2, <2>3, <2>4 DEF JsonText
  <2>6. Single(v, w)
    BY <1>2, <2>4 DEF Single, t
  <2>. QED  BY <1>2, <2>5, <2>6, NoList DEF w
<1>3. CASE v.kind = "integer" /\ v = Integer(v.num) /\ v.num \in Int
  <2>. DEFINE t == DecimalOf(v.num)
  <2>1. w = Written(t)
    <3>1. w = IF InRange(v.num) THEN Written(t) ELSE Fail("IntegerOutOfRange")
      BY <1>1, <1>3, JsonByKind
    <3>. QED  BY <3>1, FailuresAre
  <2>2. t \in Seq(Nat) /\ Len(t) > 0 /\ t[1] \in {Dash} \cup JsonDigits
    <3>1. DecimalStart(v.num, t)
      BY <1>3, DecimalType
    <3>. QED  BY <3>1 DEF DecimalStart
  <2>3. GroupOf(v) = "number"
    BY <1>3 DEF GroupOf
  <2>4. \A c \in {Dash} \cup JsonDigits : LeadOf(c) = "number" /\ c \in ToSet(Starts) \cup JsonDigits
    BY LeadsAre, Zenon DEF Leads, StartingFacts
  <2>. HIDE DEF w, t
  <2>5. AsText(w) /\ w.value = t
    BY <2>1, <2>2, WrittenText
  <2>6. JsonText(w) /\ LeadOf(w.value[1]) = GroupOf(v)
    BY <2>2, <2>3, <2>4, <2>5 DEF JsonText
  <2>7. Single(v, w)
    BY <1>3, <2>5 DEF Single, t
  <2>. QED  BY <1>3, <2>6, <2>7, NoList DEF w
<1>4. CASE v.kind = "float"
  BY <1>1, <1>4, JsonByKind, FailuresAre
<1>5. CASE v.kind = "bytes" /\ v = Bytes(v.bytes) /\ v.bytes \in Seq(Byte)
  <2>. DEFINE t == BytesText(v.bytes)
  <2>1. w = Written(t)
    BY <1>1, <1>5, JsonByKind
  <2>2. t \in Seq(Nat) /\ Len(t) > 0 /\ t[1] = OpenBrace
    <3>. DEFINE x == BytesStart  y == Base64Of(v.bytes)  z == BytesStop
    <3>1. x \in Seq(Nat) /\ z \in Seq(Nat) /\ Len(x) > 6 /\ x[1] = OpenBrace
      BY BytesTexts
    <3>2. y \in Seq(Nat)
      BY <1>5, Base64Is
    <3>3. t = (x \o y) \o z
      BY DEF BytesText
    <3>. HIDE DEF x, y, z, t
    <3>4. t \in Seq(Nat) /\ Len(t) = (Len(x) + Len(y)) + Len(z) /\ (Len(x) > 0 => t[1] = x[1])
      BY <3>1, <3>2, <3>3, ThreeType
    <3>5. Len(y) \in Nat /\ Len(z) \in Nat /\ Len(x) \in Nat
      BY <3>1, <3>2
    <3>. QED  BY <3>1, <3>4, <3>5
  <2>3. GroupOf(v) = "brace"
    BY <1>5 DEF GroupOf
  <2>4. LeadOf(OpenBrace) = "brace" /\ OpenBrace \in ToSet(Starts)
    BY LeadsAre, Zenon DEF Leads, StartingFacts
  <2>. HIDE DEF w, t
  <2>5. AsText(w) /\ w.value = t
    BY <2>1, <2>2, WrittenText
  <2>6. JsonText(w) /\ LeadOf(w.value[1]) = GroupOf(v)
    BY <2>2, <2>3, <2>4, <2>5 DEF JsonText
  <2>7. Single(v, w)
    BY <1>5, <2>5 DEF Single, t
  <2>. QED  BY <1>5, <2>6, <2>7, NoList DEF w
<1>6. CASE v.kind = "text" /\ v = Text(v.bytes) /\ v.bytes \in Seq(Byte)
  <2>. DEFINE t == StringText(v.bytes)
  <2>1. w = Written(t)
    BY <1>1, <1>6, JsonByKind
  <2>2. t \in Seq(Nat) /\ Len(t) > 0 /\ t[1] = Quote
    BY <1>6, BytesAreChars, StringIs
  <2>3. GroupOf(v) = "text"
    BY <1>6 DEF GroupOf
  <2>4. LeadOf(Quote) = "text" /\ Quote \in ToSet(Starts)
    BY LeadsAre, Zenon DEF Leads, StartingFacts
  <2>. HIDE DEF w, t
  <2>5. AsText(w) /\ w.value = t
    BY <2>1, <2>2, WrittenText
  <2>6. JsonText(w) /\ LeadOf(w.value[1]) = GroupOf(v)
    BY <2>2, <2>3, <2>4, <2>5 DEF JsonText
  <2>7. Single(v, w)
    BY <1>6, <2>5 DEF Single, t
  <2>. QED  BY <1>6, <2>6, <2>7, NoList DEF w
<1>7. CASE v.kind = "list" /\ v = List(v.items)
           /\ \E n \in Nat : Len(v.items) = n /\ v.items = [k \in 1 .. n |-> v.items[k]]
  <2>1. w = Enclosed(OpenBracket, JsonItems(v.items, text), CloseBracket)
    <3>1. JsonItem(List(v.items), depth, text) = Enclosed(OpenBracket, JsonItems(v.items, text), CloseBracket)
      BY <1>1, JsonByKind, Zenon
    <3>2. v = List(v.items)
      BY <1>7
    <3>. QED  BY <3>1, <3>2, Zenon
  <2>2. TextsAre(text, {v.items[k] : k \in DOMAIN v.items})
    BY <1>7 DEF Parts
  <2>3. ListText(v, text, w)
    BY <1>7, <2>1, <2>2, ListTextIs
  <2>. HIDE DEF w
  <2>4. JsonText(w) /\ w.value[1] = OpenBracket
    BY <2>3 DEF ListText, JsonRow
  <2>5. LeadOf(OpenBracket) = "list"
    BY LeadsAre, Zenon DEF Leads
  <2>6. GroupOf(v) = "list" /\ Single(v, w)
    BY <1>7 DEF GroupOf, Single
  <2>7. JsonShape(v, text, w)
    BY <1>7, <2>3, <2>4, <2>5, <2>6 DEF JsonShape
  <2>. QED  BY <2>7 DEF w
<1>8. CASE v.kind = "map" /\ v = Map(v.of) /\ v.of = [key \in DOMAIN v.of |-> v.of[key]]
           /\ IsFiniteSet(DOMAIN v.of) /\ DOMAIN v.of \subseteq Seq(Byte)
  <2>. DEFINE e == Enclosed(OpenBrace, JsonEntries(KeysOfBytewise(v.of), v.of, text), CloseBrace)
  <2>1. << Slash >> \notin DOMAIN v.of /\ w = e
    <3>. DEFINE of == v.of
    <3>1. v = Map(of)
      BY <1>8
    <3>2. e = Enclosed(OpenBrace, JsonEntries(KeysOfBytewise(of), of, text), CloseBrace)
      OBVIOUS
    <3>. HIDE DEF of, e
    <3>3. JsonItem(Map(of), depth, text)
            = IF << Slash >> \in DOMAIN of THEN Fail("ReservedKey")
              ELSE Enclosed(OpenBrace, JsonEntries(KeysOfBytewise(of), of, text), CloseBrace)
      BY <1>1, JsonByKind, Zenon
    <3>4. w = IF << Slash >> \in DOMAIN of THEN Fail("ReservedKey") ELSE e
      BY <3>1, <3>2, <3>3, Zenon
    <3>. QED  BY <3>4, FailuresAre DEF of, e
  <2>2. TextsAre(text, {v.of[key] : key \in DOMAIN v.of})
    BY <1>8 DEF Parts
  <2>3. MapText(v, text, w)
    BY <1>8, <2>1, <2>2, MapTextIs
  <2>. HIDE DEF w
  <2>4. JsonText(w) /\ w.value[1] = OpenBrace
    BY <2>3 DEF MapText, JsonRow
  <2>5. LeadOf(OpenBrace) = "brace"
    BY LeadsAre, Zenon DEF Leads
  <2>6. GroupOf(v) = "brace" /\ Single(v, w)
    BY <1>8 DEF GroupOf, Single
  <2>7. JsonShape(v, text, w)
    BY <1>8, <2>3, <2>4, <2>5, <2>6 DEF JsonShape
  <2>. QED  BY <2>7 DEF w
<1>9. CASE v.kind = "link" /\ v = Link(v.bytes) /\ v.bytes \in Cids
  <2>. DEFINE t == LinkText(v.bytes)
  <2>1. w = Written(t)
    BY <1>1, <1>9, JsonByKind
  <2>2. t \in Seq(Nat) /\ Len(t) > 0 /\ t[1] = OpenBrace
    <3>. DEFINE x == LinkStart  y == CidTexts[v.bytes][1]  z == LinkStop
    <3>1. x \in Seq(Nat) /\ z \in Seq(Nat) /\ Len(x) = 6 /\ x[1] = OpenBrace
      BY BytesTexts
    <3>2. y \in Seq(Nat)
      BY <1>9, CidTextIs
    <3>3. t = (x \o y) \o z
      BY DEF LinkText
    <3>. HIDE DEF x, y, z, t
    <3>4. t \in Seq(Nat) /\ Len(t) = (Len(x) + Len(y)) + Len(z) /\ (Len(x) > 0 => t[1] = x[1])
      BY <3>1, <3>2, <3>3, ThreeType
    <3>5. Len(y) \in Nat /\ Len(z) \in Nat /\ Len(x) \in Nat
      BY <3>1, <3>2
    <3>. QED  BY <3>1, <3>4, <3>5
  <2>3. GroupOf(v) = "brace"
    BY <1>9 DEF GroupOf
  <2>4. LeadOf(OpenBrace) = "brace" /\ OpenBrace \in ToSet(Starts)
    BY LeadsAre, Zenon DEF Leads, StartingFacts
  <2>. HIDE DEF w, t
  <2>5. AsText(w) /\ w.value = t
    BY <2>1, <2>2, WrittenText
  <2>6. JsonText(w) /\ LeadOf(w.value[1]) = GroupOf(v)
    BY <2>2, <2>3, <2>4, <2>5 DEF JsonText
  <2>7. Single(v, w)
    BY <1>9, <2>5 DEF Single, t
  <2>. QED  BY <1>9, <2>6, <2>7, NoList DEF w
<1>. HIDE DEF w
<1>10. JsonShape(v, text, w)
  BY <1>2, <1>3, <1>4, <1>5, <1>6, <1>7, <1>8, <1>9 DEF IsTextual, w
<1>. QED  BY <1>10 DEF w

----------------------------------------------------------------------------
(* Values that are told apart by their texts.                              *)

\* No two values of D and E are written in one place.
ToldAt(s, x, y, v, w) == \A p : BothStand(s, p, v.value, w.value) => x = y /\ Len(v.value) = Len(w.value)
Told(s, f, g, D, E) == \A x \in D : \A y \in E : IsOk(f[x]) /\ IsOk(g[y]) => ToldAt(s, x, y, f[x], g[y])

LEMMA SlashTextIs ==
  LET t == StringText(<< Slash >>)
  IN  /\ << Slash >> \in Seq(Nat) /\ t \in Seq(Nat) /\ Len(t) = 3
      /\ t[1] = Quote /\ t[2] = Slash /\ t[3] = Quote
<1>. DEFINE a == << Slash >>  o == << Quote >>  v == EscapedParts(a)
            f == [k \in 0 .. 1 |-> IF k = 0 THEN << >> ELSE << Slash >>]
<1>1. Slash \in Nat /\ Slash \notin DOMAIN EscapeOf /\ Slash \notin Controls
  BY JsonTextAssumption
<1>2. a \in Seq(Nat) /\ Len(a) = 1 /\ a[1] = Slash
  BY <1>1
<1>3. Escaped(Slash) = a
  BY <1>1 DEF Escaped
<1>4. o \in Seq(Nat) /\ Len(o) = 1 /\ o[1] = Quote
  BY EscapeFacts
<1>5. AreParts(v, 1, Nat) /\ v[1] = a
  <2>1. 1 \in 1 .. Len(a)
    BY <1>2
  <2>2. AreParts(v, Len(a), Nat) /\ \A k \in 1 .. Len(a) : v[k] = Escaped(a[k])
    BY <1>2, EscapedPartsAre
  <2>. HIDE DEF v, a
  <2>. QED  BY <1>2, <1>3, <2>1, <2>2
<1>6. Flattens(f, v, 1, Nat)
  <2>. HIDE DEF v
  <2>1. f[0] = << >> /\ f[1] = a /\ f \in [0 .. 1 -> Seq(Nat)]
    BY <1>2
  <2>2. \A k \in 1 .. 1 : k = 1
    OBVIOUS
  <2>3. << >> \o a = a
    BY <1>2
  <2>. HIDE DEF f, a
  <2>4. \A k \in 1 .. 1 : f[k] = f[k - 1] \o v[k]
    <3>1. f[1] = f[1 - 1] \o v[1]
      BY <1>5, <2>1, <2>3
    <3>. QED  BY <2>2, <3>1
  <2>. QED  BY <2>1, <2>4 DEF Flattens
<1>7. Body(a) = a
  <2>1. FlattenSeq(v) = f[1]
    <3>1. 1 \in Nat /\ 1 > 0
      OBVIOUS
    <3>. HIDE DEF f, v
    <3>. QED  BY <1>5, <1>6, <3>1, FlatIs
  <2>. QED  BY <2>1 DEF Body
<1>8. StringText(a) = (o \o a) \o o
  BY <1>2, <1>7, StringIs
<1>. DEFINE b == o \o a  c == b \o o
<1>. HIDE DEF o, a
<1>9. b \in Seq(Nat) /\ IsConcat(b, o, a)
  BY <1>2, <1>4, ConcatType
<1>. HIDE DEF b
<1>10. c \in Seq(Nat) /\ IsConcat(c, b, o)
  BY <1>4, <1>9, ConcatType
<1>11. StringText(a) = c
  BY <1>8 DEF b, c
<1>. HIDE DEF c
<1>12. Len(b) = 2 /\ b[1] = Quote /\ b[2] = Slash
  <2>1. Len(b) = Len(o) + Len(a) /\ b[1] = o[1] /\ b[Len(o) + 1] = a[1]
    <3>1. 1 \in 1 .. Len(o) /\ 1 \in 1 .. Len(a)
      BY <1>2, <1>4
    <3>. QED  BY <1>9, <3>1 DEF IsConcat
  <2>. QED  BY <1>2, <1>4, <2>1
<1>13. Len(c) = 3 /\ c[1] = Quote /\ c[2] = Slash /\ c[3] = Quote
  <2>1. Len(c) = Len(b) + Len(o) /\ c[1] = b[1] /\ c[2] = b[2] /\ c[Len(b) + 1] = o[1]
    <3>1. 1 \in 1 .. Len(b) /\ 2 \in 1 .. Len(b) /\ 1 \in 1 .. Len(o)
      BY <1>4, <1>12
    <3>. QED  BY <1>10, <3>1 DEF IsConcat
  <2>. QED  BY <1>4, <1>12, <2>1
<1>. QED  BY <1>2, <1>10, <1>11, <1>13 DEF a

LEMMA EntryHere ==
  ASSUME NEW of, NEW text, IsFiniteSet(DOMAIN of), DOMAIN of \subseteq Seq(Byte),
         TextsAre(text, {of[key] : key \in DOMAIN of}),
         NEW k \in 1 .. Cardinality(DOMAIN of), JsonText(JsonEntries(KeysOfBytewise(of), of, text)[k])
  PROVE  LET key == KeysOfBytewise(of)[k]
         IN  /\ key \in DOMAIN of /\ key \in Seq(Byte) /\ key \in Seq(Nat)
             /\ EntryIs(JsonEntries(KeysOfBytewise(of), of, text)[k], key, text[of[key]])
<1>. DEFINE ks == KeysOfBytewise(of)  a == JsonEntries(ks, of, text)  n == Cardinality(DOMAIN of)  x == of[ks[k]]
<1>1. AllKeys(ks, DOMAIN of)
  BY BytewiseKeys
<1>2. n \in Nat /\ DOMAIN ks = 1 .. n /\ \A j \in 1 .. n : ks[j] \in DOMAIN of
  BY <1>1 DEF AllKeys
<1>. HIDE DEF ks, n
<1>3. k \in 1 .. n
  BY DEF n
<1>4. a[k] = Joined(<< KeyText(ks[k]), text[x] >>)
  BY <1>2, <1>3, Zenon DEF JsonEntries, KeyText
<1>5. ks[k] \in DOMAIN of /\ ks[k] \in Seq(Byte) /\ x \in {of[key] : key \in DOMAIN of}
  BY <1>2, <1>3
<1>6. JsonText(a[k])
  BY DEF ks
<1>. HIDE DEF x, a
<1>7. IsOk(text[x]) => AsText(text[x])
  BY <1>5, Zenon DEF TextsAre, JsonText
<1>8. EntryIs(a[k], ks[k], text[x])
  BY <1>4, <1>5, <1>6, <1>7, EntryTextIs DEF JsonText, AsText
<1>9. ks[k] \in Seq(Nat)
  BY <1>5, BytesAreChars
<1>. QED  BY <1>5, <1>8, <1>9 DEF ks, a, x

\* What follows the sign that opens a link or bytes opens no map.
ReservedAt(s, p) ==
  p \in Nat /\ p + 4 <= Len(s) /\ s[p + 2] = Quote /\ s[p + 3] = Slash /\ s[p + 4] = Quote

LEMMA SlashStands ==
  ASSUME NEW s \in Seq(Nat), NEW p, ReservedAt(s, p)
  PROVE  Stands(s, p + 1, StringText(<< Slash >>))
<1>. DEFINE t == StringText(<< Slash >>)
<1>1. t \in Seq(Nat) /\ Len(t) = 3 /\ t[1] = Quote /\ t[2] = Slash /\ t[3] = Quote
  BY SlashTextIs
<1>. HIDE DEF t
<1>2. /\ p \in Nat /\ (p + 1) + 3 <= Len(s)
      /\ s[(p + 1) + 1] = Quote /\ s[(p + 1) + 2] = Slash /\ s[(p + 1) + 3] = Quote
  <2>1. p \in Nat /\ (p + 1) + 1 = p + 2 /\ (p + 1) + 2 = p + 3 /\ (p + 1) + 3 = p + 4
    BY DEF ReservedAt
  <2>. QED  BY <2>1 DEF ReservedAt
<1>3. \A k \in 1 .. 3 : k = 1 \/ k = 2 \/ k = 3
  OBVIOUS
<1>4. \A k \in 1 .. Len(t) : s[(p + 1) + k] = t[k]
  BY <1>1, <1>2, <1>3
<1>5. p + 1 \in Nat /\ (p + 1) + Len(t) <= Len(s)
  BY <1>1, <1>2
<1>6. Stands(s, p + 1, t)
  BY <1>4, <1>5, Zenon DEF Stands
<1>. QED  BY <1>6 DEF t

LEMMA NoMapIsReserved ==
  ASSUME NEW v, NEW text, NEW w, IsFiniteSet(DOMAIN v.of), DOMAIN v.of \subseteq Seq(Byte),
         TextsAre(text, {v.of[key] : key \in DOMAIN v.of}), MapText(v, text, w),
         NEW s \in Seq(Nat), NEW p, Stands(s, p, w.value), ReservedAt(s, p)
  PROVE  FALSE
<1>. DEFINE ks == KeysOfBytewise(v.of)  a == JsonEntries(ks, v.of, text)  n == Cardinality(DOMAIN v.of)
<1>1. << Slash >> \notin DOMAIN v.of /\ JsonRow(w, OpenBrace, a, n, CloseBrace)
  BY DEF MapText
<1>2. n \in Nat
  BY FS_CardinalityType
<1>3. CASE n = 0
  <2>. DEFINE t == << OpenBrace, CloseBrace >>
  <2>1. Stands(s, p, t)
    BY <1>1, <1>3 DEF JsonRow
  <2>2. 2 \in 1 .. Len(t) /\ t[2] = CloseBrace
    OBVIOUS
  <2>. HIDE DEF t
  <2>3. s[p + 2] = CloseBrace
    BY <2>1, <2>2 DEF Stands
  <2>4. Quote # CloseBrace
    BY FollowFacts, LeadsAre, Zenon DEF StartingFacts
  <2>. QED  BY <2>3, <2>4 DEF ReservedAt
<1>4. CASE n > 0
  <2>. DEFINE key == ks[1]
  <2>1. 1 \in 1 .. n
    BY <1>2, <1>4
  <2>2. EnclosedText(w, OpenBrace, a, n, CloseBrace) /\ JsonText(a[1])
    BY <1>1, <1>4, <2>1 DEF JsonRow
  <2>3. key \in DOMAIN v.of /\ key \in Seq(Byte) /\ key \in Seq(Nat) /\ EntryIs(a[1], key, text[v.of[key]])
    BY <2>1, <2>2, EntryHere
  <2>. HIDE DEF a, n, ks, key
  <2>4. PICK r : PartsStand(s, p, w, OpenBrace, a, n, CloseBrace, r)
    BY <2>2 DEF EnclosedText
  <2>5. r[1] = p + 1 /\ PartStands(s, r, a, n, CloseBrace, 1)
    BY <2>1, <2>4 DEF PartsStand
  <2>6. Stands(s, p + 1, a[1].value)
    BY <2>5 DEF PartStands
  <2>7. Stands(s, p + 1, KeyText(key).value)
    BY <2>3, <2>6 DEF EntryIs, TextPair, TwoStand
  <2>8. Stands(s, p + 1, StringText(key))
    BY <2>3, <2>7, KeyTextIs
  <2>9. Stands(s, p + 1, StringText(<< Slash >>)) /\ << Slash >> \in Seq(Nat)
    BY SlashStands, SlashTextIs
  <2>10. key = << Slash >>
    BY <2>3, <2>8, <2>9, OneString
  <2>. QED  BY <1>1, <2>3, <2>10
<1>. QED  BY <1>2, <1>3, <1>4

EntriesTold(c, d, x, y, v, w) == c = d /\ x = y /\ Len(v.value) = Len(w.value)

LEMMA EntriesTell ==
  ASSUME NEW s \in Seq(Nat), NEW c \in Seq(Nat), NEW d \in Seq(Nat), c \in Seq(Byte), d \in Seq(Byte),
         NEW v, NEW w, NEW a, NEW b, EntryIs(v, c, a), EntryIs(w, d, b),
         NEW x, NEW y, ToldAt(s, x, y, a, b), NEW p, BothStand(s, p, v.value, w.value)
  PROVE  EntriesTold(c, d, x, y, v, w)
<1>. DEFINE i == KeyText(c).value  j == KeyText(d).value  k == a.value  l == b.value  e == v.value  h == w.value
<1>1. Stands(s, p, e) /\ Stands(s, p, h) /\ EndsAt(s, p + Len(e), JsonDigits) /\ EndsAt(s, p + Len(h), JsonDigits)
  BY DEF BothStand
<1>2. TextPair(v, KeyText(c), a) /\ TextPair(w, KeyText(d), b)
  BY DEF EntryIs
<1>3. TwoStand(s, p, v, KeyText(c), a) /\ TwoStand(s, p, w, KeyText(d), b)
  BY <1>1, <1>2 DEF TextPair
<1>4. /\ Stands(s, p, i) /\ Stands(s, p + Len(i), k) /\ p + Len(e) = (p + Len(i)) + Len(k)
      /\ Stands(s, p, j) /\ Stands(s, p + Len(j), l) /\ p + Len(h) = (p + Len(j)) + Len(l)
  BY <1>3 DEF TwoStand
<1>5. Stands(s, p, StringText(c)) /\ Stands(s, p, StringText(d))
  BY <1>4, KeyTextIs
<1>6. c = d
  BY <1>5, OneString
<1>. HIDE DEF k, l, e, h
<1>7. i = j
  BY <1>6
<1>. HIDE DEF i, j
<1>8. BothStand(s, p + Len(i), k, l)
  BY <1>1, <1>4, <1>7, Zenon DEF BothStand
<1>9. x = y /\ Len(k) = Len(l)
  BY <1>8 DEF ToldAt, k, l
<1>10. p \in Nat /\ Len(e) \in Nat /\ Len(h) \in Nat
  BY <1>1, <1>2 DEF TextPair, AsText, Stands, e, h
<1>11. p + Len(e) = p + Len(h)
  BY <1>4, <1>7, <1>9
<1>12. Len(e) = Len(h)
  BY <1>10, <1>11
<1>. QED  BY <1>6, <1>9, <1>12 DEF EntriesTold, e, h

\* Items that are the same, or entries.
SameItems(a, b) == {k \in Nat : a[k] = b[k]}
SameEntries(of, other) ==
  {k \in Nat : /\ KeysOfBytewise(of)[k] = KeysOfBytewise(other)[k]
               /\ of[KeysOfBytewise(of)[k]] = other[KeysOfBytewise(other)[k]]}

LEMMA ItemsTell ==
  ASSUME NEW n \in Nat, NEW m \in Nat, NEW a, NEW b,
         a = [k \in 1 .. n |-> a[k]], b = [k \in 1 .. m |-> b[k]],
         NEW f, NEW g, NEW s, Told(s, f, g, {a[k] : k \in DOMAIN a}, {b[k] : k \in DOMAIN b}),
         \A k \in 1 .. n : JsonText(JsonItems(a, f)[k]), \A k \in 1 .. m : JsonText(JsonItems(b, g)[k])
  PROVE  PartsTell(s, JsonItems(a, f), JsonItems(b, g), n, m, SameItems(a, b))
<1>. DEFINE v == JsonItems(a, f)  w == JsonItems(b, g)  D == {a[k] : k \in DOMAIN a}  E == {b[k] : k \in DOMAIN b}
<1>1. DOMAIN a = 1 .. n /\ DOMAIN b = 1 .. m
  BY Zenon
<1>2. v = [k \in 1 .. n |-> f[a[k]]] /\ w = [k \in 1 .. m |-> g[b[k]]]
  BY <1>1, Zenon DEF JsonItems
<1>3. (\A k \in 1 .. n : v[k] = f[a[k]]) /\ \A k \in 1 .. m : w[k] = g[b[k]]
  BY <1>2
<1>4. ASSUME NEW k \in 1 .. n, k <= m PROVE ToldAt(s, a[k], b[k], v[k], w[k])
  <2>1. k \in 1 .. m
    BY <1>4
  <2>2. a[k] \in D /\ b[k] \in E
    BY <1>1, <2>1
  <2>3. v[k] = f[a[k]] /\ w[k] = g[b[k]]
    BY <1>3, <2>1
  <2>4. JsonText(v[k]) /\ JsonText(w[k])
    BY <2>1
  <2>. HIDE DEF v, w, D, E
  <2>5. IsOk(f[a[k]]) /\ IsOk(g[b[k]])
    BY <2>3, <2>4, Zenon DEF JsonText, AsText
  <2>6. Told(s, f, g, D, E)
    BY DEF D, E
  <2>7. ToldAt(s, a[k], b[k], f[a[k]], g[b[k]])
    BY <2>2, <2>5, <2>6, Zenon DEF Told
  <2>. QED  BY <2>3, <2>7, Zenon
<1>. HIDE DEF v, w
<1>5. ASSUME NEW k \in 1 .. n, k <= m, NEW p, BothStand(s, p, v[k].value, w[k].value)
      PROVE  k \in SameItems(a, b) /\ Len(v[k].value) = Len(w[k].value)
  <2>1. a[k] = b[k] /\ Len(v[k].value) = Len(w[k].value)
    BY <1>4, <1>5, Zenon DEF ToldAt
  <2>2. k \in Nat
    OBVIOUS
  <2>. QED  BY <2>1, <2>2, Zenon DEF SameItems
<1>6. PartsTell(s, v, w, n, m, SameItems(a, b))
  BY <1>5, Zenon DEF PartsTell
<1>. QED  BY <1>6 DEF v, w

IsKeyed(of) == IsFiniteSet(DOMAIN of) /\ DOMAIN of \subseteq Seq(Byte)

LEMMA EntriesToldApart ==
  ASSUME NEW of, NEW other, IsKeyed(of), IsKeyed(other), NEW f, NEW g,
         TextsAre(f, {of[key] : key \in DOMAIN of}), TextsAre(g, {other[key] : key \in DOMAIN other}),
         NEW s \in Seq(Nat), Told(s, f, g, {of[key] : key \in DOMAIN of}, {other[key] : key \in DOMAIN other}),
         NEW n, NEW m, n = Cardinality(DOMAIN of), m = Cardinality(DOMAIN other),
         \A k \in 1 .. n : JsonText(JsonEntries(KeysOfBytewise(of), of, f)[k]),
         \A k \in 1 .. m : JsonText(JsonEntries(KeysOfBytewise(other), other, g)[k])
  PROVE  PartsTell(s, JsonEntries(KeysOfBytewise(of), of, f), JsonEntries(KeysOfBytewise(other), other, g), n, m,
                   SameEntries(of, other))
<1>. DEFINE ks == KeysOfBytewise(of)  ls == KeysOfBytewise(other)
            v == JsonEntries(ks, of, f)  w == JsonEntries(ls, other, g)
            D == {of[key] : key \in DOMAIN of}  E == {other[key] : key \in DOMAIN other}
<1>1. n \in Nat /\ m \in Nat
  BY FS_CardinalityType DEF IsKeyed
<1>2. ASSUME NEW k \in 1 .. n, k <= m, NEW p, BothStand(s, p, v[k].value, w[k].value)
      PROVE  k \in SameEntries(of, other) /\ Len(v[k].value) = Len(w[k].value)
  <2>. DEFINE c == ks[k]  d == ls[k]  x == of[c]  y == other[d]
  <2>1. k \in 1 .. m /\ k \in Nat
    BY <1>1, <1>2
  <2>2. c \in DOMAIN of /\ c \in Seq(Byte) /\ c \in Seq(Nat) /\ EntryIs(v[k], c, f[x])
    BY EntryHere DEF IsKeyed
  <2>3. d \in DOMAIN other /\ d \in Seq(Byte) /\ d \in Seq(Nat) /\ EntryIs(w[k], d, g[y])
    BY <2>1, EntryHere DEF IsKeyed
  <2>. HIDE DEF v, w, ks, ls
  <2>4. x \in D /\ y \in E
    BY <2>2, <2>3
  <2>5. Told(s, f, g, D, E)
    OBVIOUS
  <2>. HIDE DEF c, d, x, y, D, E
  <2>6. IsOk(f[x]) /\ IsOk(g[y])
    BY <2>2, <2>3, Zenon DEF EntryIs, TextPair, AsText
  <2>7. ToldAt(s, x, y, f[x], g[y])
    BY <2>4, <2>5, <2>6, Zenon DEF Told
  <2>8. c = d /\ x = y /\ Len(v[k].value) = Len(w[k].value)
    <3>. DEFINE vk == v[k]  wk == w[k]  fx == f[x]  gy == g[y]
    <3>1. /\ c \in Seq(Byte) /\ c \in Seq(Nat) /\ EntryIs(vk, c, fx)
          /\ d \in Seq(Byte) /\ d \in Seq(Nat) /\ EntryIs(wk, d, gy)
          /\ ToldAt(s, x, y, fx, gy) /\ BothStand(s, p, vk.value, wk.value)
      BY <1>2, <2>2, <2>3, <2>7
    <3>. HIDE DEF vk, wk, fx, gy
    <3>2. EntriesTold(c, d, x, y, vk, wk)
      BY <3>1, EntriesTell
    <3>. QED  BY <3>2 DEF EntriesTold, vk, wk
  <2>9. k \in SameEntries(of, other)
    BY <2>1, <2>8, Zenon DEF SameEntries, c, d, x, y, ks, ls
  <2>. QED  BY <2>8, <2>9
<1>. HIDE DEF v, w
<1>3. PartsTell(s, v, w, n, m, SameEntries(of, other))
  BY <1>2, Zenon DEF PartsTell
<1>. QED  BY <1>3 DEF v, w

LEMMA GroupsAre ==
  ASSUME NEW x, NEW y, IsTextual(x), IsTextual(y), x.kind # "float", y.kind # "float", GroupOf(x) = GroupOf(y)
  PROVE  \/ x.kind = "simple" /\ y.kind = "simple" /\ x.name = y.name
         \/ x.kind = "integer" /\ y.kind = "integer"
         \/ x.kind = "text" /\ y.kind = "text"
         \/ x.kind = "list" /\ y.kind = "list"
         \/ x.kind \in {"bytes", "map", "link"} /\ y.kind \in {"bytes", "map", "link"}
<1>. DEFINE names == {"false", "true", "null"}  others == {"number", "text", "list", "brace"}
<1>1. \A v : IsTextual(v) /\ v.kind # "float" =>
        /\ v.kind \in {"simple", "integer", "text", "list", "bytes", "map", "link"}
        /\ v.kind = "simple" => v.name \in names
  BY DEF IsTextual
<1>2. \A v : v.kind = "simple" => GroupOf(v) = v.name
  BY DEF GroupOf
<1>3. /\ \A v : v.kind = "integer" => GroupOf(v) = "number"
      /\ \A v : v.kind = "text" => GroupOf(v) = "text"
      /\ \A v : v.kind = "list" => GroupOf(v) = "list"
      /\ \A v : v.kind \in {"bytes", "map", "link"} => GroupOf(v) = "brace"
  BY DEF GroupOf
<1>. QED  BY <1>1, <1>2, <1>3

\* The same, of two values or of how their texts begin.
SameText(x, y, v, w) == x = y /\ Len(v.value) = Len(w.value)
SameStart(v, w) == v.value[1] = w.value[1]

\* Whatever stands with a text begins as it does.
LEMMA LeadsTell ==
  ASSUME NEW s \in Seq(Nat), NEW p, NEW v, NEW w, JsonText(v), JsonText(w), BothStand(s, p, v.value, w.value)
  PROVE  SameStart(v, w)
<1>. DEFINE a == v.value  b == w.value
<1>1. a \in Seq(Nat) /\ b \in Seq(Nat) /\ Len(a) > 0 /\ Len(b) > 0 /\ Stands(s, p, a) /\ Stands(s, p, b)
  BY DEF JsonText, AsText, BothStand
<1>. HIDE DEF a, b
<1>2. 1 \in 1 .. Len(a) /\ 1 \in 1 .. Len(b)
  BY <1>1
<1>3. s[p + 1] = a[1] /\ s[p + 1] = b[1]
  BY <1>1, <1>2 DEF Stands
<1>. QED  BY <1>3 DEF a, b, SameStart

\* Bytes and links open what no map opens, and differ in what they open.
LEMMA ReservedStands ==
  ASSUME NEW s \in Seq(Nat), NEW p, NEW x \in Seq(Nat), NEW y \in Seq(Nat), NEW z \in Seq(Nat),
         Len(x) >= 6, x[2] = Quote, x[3] = Slash, x[4] = Quote, Stands(s, p, (x \o y) \o z)
  PROVE  ReservedAt(s, p) /\ s[p + 6] = x[6]
<1>1. Stands(s, p, x)
  BY StandsThree DEF StandInThree
<1>2. Len(x) \in Nat /\ Len(s) \in Nat
  OBVIOUS
<1>3. 2 \in 1 .. Len(x) /\ 3 \in 1 .. Len(x) /\ 4 \in 1 .. Len(x) /\ 6 \in 1 .. Len(x)
  BY <1>2
<1>4. s[p + 2] = x[2] /\ s[p + 3] = x[3] /\ s[p + 4] = x[4] /\ s[p + 6] = x[6]
  BY <1>1, <1>3 DEF Stands
<1>5. p \in Nat /\ p + 4 <= Len(s)
  BY <1>1, <1>2 DEF Stands
<1>. QED  BY <1>4, <1>5 DEF ReservedAt

LEMMA BytesReserved ==
  ASSUME NEW s \in Seq(Nat), NEW p, NEW b \in Seq(Byte), Stands(s, p, BytesText(b))
  PROVE  ReservedAt(s, p) /\ s[p + 6] = OpenBrace
<1>. DEFINE x == BytesStart  y == Base64Of(b)  z == BytesStop
<1>1. /\ x \in Seq(Nat) /\ z \in Seq(Nat) /\ Len(x) > 6
      /\ x[2] = Quote /\ x[3] = Slash /\ x[4] = Quote /\ x[6] = OpenBrace
  BY BytesTexts
<1>2. y \in Seq(Nat)
  BY Base64Is
<1>3. Stands(s, p, (x \o y) \o z)
  BY DEF BytesText
<1>. HIDE DEF x, y, z
<1>4. Len(x) >= 6
  BY <1>1
<1>5. ReservedAt(s, p) /\ s[p + 6] = x[6]
  BY <1>1, <1>2, <1>3, <1>4, ReservedStands
<1>. QED  BY <1>1, <1>5

LEMMA LinkReserved ==
  ASSUME NEW s \in Seq(Nat), NEW p, NEW c \in Cids, Stands(s, p, LinkText(c))
  PROVE  ReservedAt(s, p) /\ s[p + 6] = Quote
<1>. DEFINE x == LinkStart  y == CidTexts[c][1]  z == LinkStop
<1>1. /\ x \in Seq(Nat) /\ z \in Seq(Nat) /\ Len(x) = 6
      /\ x[2] = Quote /\ x[3] = Slash /\ x[4] = Quote /\ x[6] = Quote
  BY BytesTexts
<1>2. y \in Seq(Nat)
  BY CidTextIs
<1>3. Stands(s, p, (x \o y) \o z)
  BY DEF LinkText
<1>. HIDE DEF x, y, z
<1>4. Len(x) >= 6
  BY <1>1
<1>5. ReservedAt(s, p) /\ s[p + 6] = x[6]
  BY <1>1, <1>2, <1>3, <1>4, ReservedStands
<1>. QED  BY <1>1, <1>5

\* What a list or a map is written as.
LEMMA ListsTell ==
  ASSUME NEW x, NEW y, x = List(x.items), y = List(y.items), NEW f, NEW g, NEW v, NEW w,
         ListText(x, f, v), ListText(y, g, w), NEW s \in Seq(Nat),
         Told(s, f, g, {x.items[k] : k \in DOMAIN x.items}, {y.items[k] : k \in DOMAIN y.items}),
         NEW p, BothStand(s, p, v.value, w.value)
  PROVE  SameText(x, y, v, w)
<1>. DEFINE a == x.items  b == y.items  c == JsonItems(a, f)  d == JsonItems(b, g)
<1>1. PICK n \in Nat : a = [k \in 1 .. n |-> a[k]] /\ JsonRow(v, OpenBracket, c, n, CloseBracket)
  BY DEF ListText
<1>2. PICK m \in Nat : b = [k \in 1 .. m |-> b[k]] /\ JsonRow(w, OpenBracket, d, m, CloseBracket)
  BY DEF ListText
<1>3. Told(s, f, g, {a[k] : k \in DOMAIN a}, {b[k] : k \in DOMAIN b})
  OBVIOUS
<1>. HIDE DEF a, b
<1>4. (\A k \in 1 .. n : JsonText(c[k])) /\ \A k \in 1 .. m : JsonText(d[k])
  <2>1. (\A k \in 1 .. n : n > 0) /\ \A k \in 1 .. m : m > 0
    OBVIOUS
  <2>. QED  BY <1>1, <1>2, <2>1 DEF JsonRow
<1>5. PartsTell(s, c, d, n, m, SameItems(a, b))
  BY <1>1, <1>2, <1>3, <1>4, ItemsTell
<1>. HIDE DEF c, d
<1>6. Stands(s, p, v.value) /\ Stands(s, p, w.value)
  BY DEF BothStand
<1>7. n = m /\ (\A k \in 1 .. n : k \in SameItems(a, b)) /\ Len(v.value) = Len(w.value)
  <2>1. SameRows(v, w, n, m, SameItems(a, b))
    <3>. DEFINE close == CloseBracket
    <3>1. close \in {CloseBracket, CloseBrace} /\ JsonRow(v, OpenBracket, c, n, close) /\ JsonRow(w, OpenBracket, d, m, close)
      BY <1>1, <1>2
    <3>. HIDE DEF close
    <3>. QED  BY <1>5, <1>6, <3>1, RowsTold, Zenon
  <2>. QED  BY <2>1 DEF SameRows
<1>8. \A k \in 1 .. n : a[k] = b[k]
  BY <1>7 DEF SameItems
<1>9. a = b
  BY <1>1, <1>2, <1>7, <1>8
<1>. QED  BY <1>7, <1>9 DEF a, b, SameText

LEMMA MapsTell ==
  ASSUME NEW x, NEW y, x = Map(x.of), y = Map(y.of), IsKeyed(x.of), IsKeyed(y.of),
         x.of = [key \in DOMAIN x.of |-> x.of[key]], y.of = [key \in DOMAIN y.of |-> y.of[key]],
         NEW f, NEW g, NEW v, NEW w, MapText(x, f, v), MapText(y, g, w), NEW s \in Seq(Nat),
         TextsAre(f, {x.of[key] : key \in DOMAIN x.of}), TextsAre(g, {y.of[key] : key \in DOMAIN y.of}),
         Told(s, f, g, {x.of[key] : key \in DOMAIN x.of}, {y.of[key] : key \in DOMAIN y.of}),
         NEW p, BothStand(s, p, v.value, w.value)
  PROVE  SameText(x, y, v, w)
<1>. DEFINE a == x.of  b == y.of  ks == KeysOfBytewise(a)  ls == KeysOfBytewise(b)
            n == Cardinality(DOMAIN a)  m == Cardinality(DOMAIN b)
            c == JsonEntries(ks, a, f)  d == JsonEntries(ls, b, g)
<1>1. JsonRow(v, OpenBrace, c, n, CloseBrace) /\ JsonRow(w, OpenBrace, d, m, CloseBrace)
  BY DEF MapText
<1>2. n \in Nat /\ m \in Nat
  BY FS_CardinalityType DEF IsKeyed
<1>3. /\ TextsAre(f, {a[key] : key \in DOMAIN a}) /\ TextsAre(g, {b[key] : key \in DOMAIN b})
      /\ Told(s, f, g, {a[key] : key \in DOMAIN a}, {b[key] : key \in DOMAIN b})
      /\ IsKeyed(a) /\ IsKeyed(b)
      /\ a = [key \in DOMAIN a |-> a[key]] /\ b = [key \in DOMAIN b |-> b[key]]
  OBVIOUS
<1>. HIDE DEF a, b
<1>4. (\A k \in 1 .. n : JsonText(c[k])) /\ \A k \in 1 .. m : JsonText(d[k])
  <2>. HIDE DEF n, m, c, d
  <2>1. (\A k \in 1 .. n : n > 0) /\ \A k \in 1 .. m : m > 0
    BY <1>2
  <2>. QED  BY <1>1, <2>1 DEF JsonRow
<1>5. PartsTell(s, c, d, n, m, SameEntries(a, b))
  <2>. HIDE DEF n, m
  <2>1. n = Cardinality(DOMAIN a) /\ m = Cardinality(DOMAIN b)
    BY DEF n, m
  <2>. QED  BY <1>3, <1>4, <2>1, EntriesToldApart
<1>6. AllKeys(ks, DOMAIN a) /\ AllKeys(ls, DOMAIN b)
  BY <1>3, BytewiseKeys DEF IsKeyed
<1>7. /\ \A k \in 1 .. n : ks[k] \in DOMAIN a
      /\ \A key \in DOMAIN a : \E k \in 1 .. n : ks[k] = key
      /\ \A k \in 1 .. m : ls[k] \in DOMAIN b
      /\ \A key \in DOMAIN b : \E k \in 1 .. m : ls[k] = key
  BY <1>6 DEF AllKeys
<1>. HIDE DEF c, d, n, m
<1>8. Stands(s, p, v.value) /\ Stands(s, p, w.value)
  BY DEF BothStand
<1>9. n = m /\ (\A k \in 1 .. n : k \in SameEntries(a, b)) /\ Len(v.value) = Len(w.value)
  <2>1. SameRows(v, w, n, m, SameEntries(a, b))
    <3>. DEFINE close == CloseBrace
    <3>1. close \in {CloseBracket, CloseBrace} /\ JsonRow(v, OpenBrace, c, n, close) /\ JsonRow(w, OpenBrace, d, m, close)
      BY <1>1
    <3>. HIDE DEF close
    <3>. QED  BY <1>2, <1>5, <1>8, <3>1, RowsTold, Zenon
  <2>. QED  BY <2>1 DEF SameRows
<1>10. \A k \in 1 .. n : ks[k] = ls[k] /\ a[ks[k]] = b[ls[k]]
  BY <1>9, Zenon DEF SameEntries
<1>. HIDE DEF ks, ls
<1>11. DOMAIN a = DOMAIN b
  <2>1. ASSUME NEW key \in DOMAIN a PROVE key \in DOMAIN b
    <3>1. PICK k \in 1 .. n : ks[k] = key
      BY <1>7
    <3>2. k \in 1 .. m
      BY <1>9
    <3>. QED  BY <1>7, <1>10, <3>1, <3>2
  <2>2. ASSUME NEW key \in DOMAIN b PROVE key \in DOMAIN a
    <3>1. PICK k \in 1 .. m : ls[k] = key
      BY <1>7
    <3>2. k \in 1 .. n
      BY <1>9
    <3>. QED  BY <1>7, <1>10, <3>1, <3>2
  <2>. QED  BY <2>1, <2>2
<1>12. ASSUME NEW key \in DOMAIN a PROVE a[key] = b[key]
  <2>1. PICK k \in 1 .. n : ks[k] = key
    BY <1>7
  <2>. QED  BY <1>10, <2>1
<1>13. a = b
  BY <1>3, <1>11, <1>12
<1>. QED  BY <1>9, <1>13 DEF a, b, SameText

PartsOf ==
  /\ \A v : v.kind = "list" => Parts(v) = {v.items[k] : k \in DOMAIN v.items}
  /\ \A v : v.kind = "map" => Parts(v) = {v.of[key] : key \in DOMAIN v.of}

LEMMA PartsAre == PartsOf
<1>1. ASSUME NEW v, v.kind = "list" PROVE Parts(v) = {v.items[k] : k \in DOMAIN v.items}
  BY <1>1 DEF Parts
<1>2. ASSUME NEW v, v.kind = "map" PROVE Parts(v) = {v.of[key] : key \in DOMAIN v.of}
  <2>1. v.kind # "list"
    BY <1>2
  <2>. QED  BY <1>2, <2>1 DEF Parts
<1>. QED  BY <1>1, <1>2 DEF PartsOf

\* What a text that may stand for two values must have in common.
TextsBoth(x, y, f, g, v, w, s) ==
  /\ IsTextual(x) /\ IsTextual(y) /\ TextsAre(f, Parts(x)) /\ TextsAre(g, Parts(y))
  /\ JsonShape(x, f, v) /\ JsonShape(y, g, w) /\ s \in Seq(Nat) /\ Told(s, f, g, Parts(x), Parts(y))

LEMMA SimplesTell ==
  ASSUME NEW x, NEW y, NEW f, NEW g, NEW v, NEW w, NEW s, TextsBoth(x, y, f, g, v, w, s),
         NEW p, BothStand(s, p, v.value, w.value), x.kind = y.kind,
         x.kind \in {"simple", "integer", "text", "bytes", "link"}, x.kind = "simple" => x.name = y.name
  PROVE  x = y /\ Len(v.value) = Len(w.value)
<1>1. /\ IsTextual(x) /\ IsTextual(y) /\ Single(x, v) /\ Single(y, w) /\ s \in Seq(Nat)
      /\ Stands(s, p, v.value) /\ Stands(s, p, w.value)
      /\ EndsAt(s, p + Len(v.value), JsonDigits) /\ EndsAt(s, p + Len(w.value), JsonDigits)
  BY DEF TextsBoth, JsonShape, BothStand
<1>2. CASE x.kind = "simple"
  <2>1. x = Simple(x.name) /\ y = Simple(y.name)
    BY <1>1, <1>2 DEF IsTextual
  <2>2. v.value = WordOf(x.name) /\ w.value = WordOf(y.name)
    BY <1>1, <1>2 DEF Single
  <2>. QED  BY <1>2, <2>1, <2>2, Zenon
<1>3. CASE x.kind = "integer"
  <2>1. x = Integer(x.num) /\ y = Integer(y.num) /\ x.num \in Int /\ y.num \in Int
    BY <1>1, <1>3 DEF IsTextual
  <2>2. v.value = DecimalOf(x.num) /\ w.value = DecimalOf(y.num)
    BY <1>1, <1>3 DEF Single
  <2>. DEFINE m == x.num  n == y.num
  <2>3. m = n
    <3>1. /\ Stands(s, p, DecimalOf(m)) /\ Stands(s, p, DecimalOf(n))
          /\ EndsAt(s, p + Len(DecimalOf(m)), JsonDigits) /\ EndsAt(s, p + Len(DecimalOf(n)), JsonDigits)
      BY <1>1, <2>2, Zenon
    <3>2. m \in Int /\ n \in Int
      BY <2>1
    <3>. HIDE DEF m, n
    <3>. QED  BY <1>1, <3>1, <3>2, OneNumber
  <2>. QED  BY <2>1, <2>2, <2>3, Zenon
<1>4. CASE x.kind = "text"
  <2>1. x = Text(x.bytes) /\ y = Text(y.bytes) /\ x.bytes \in Seq(Byte) /\ y.bytes \in Seq(Byte)
    BY <1>1, <1>4 DEF IsTextual
  <2>2. v.value = StringText(x.bytes) /\ w.value = StringText(y.bytes)
    BY <1>1, <1>4 DEF Single
  <2>. DEFINE m == x.bytes  n == y.bytes
  <2>3. m = n
    <3>1. Stands(s, p, StringText(m)) /\ Stands(s, p, StringText(n))
      BY <1>1, <2>2, Zenon
    <3>2. m \in Seq(Nat) /\ n \in Seq(Nat)
      BY <2>1, BytesAreChars
    <3>. HIDE DEF m, n
    <3>. QED  BY <1>1, <3>1, <3>2, OneString
  <2>. QED  BY <2>1, <2>2, <2>3, Zenon
<1>5. CASE x.kind = "bytes"
  <2>1. x = Bytes(x.bytes) /\ y = Bytes(y.bytes) /\ x.bytes \in Seq(Byte) /\ y.bytes \in Seq(Byte)
    BY <1>1, <1>5 DEF IsTextual
  <2>2. v.value = BytesText(x.bytes) /\ w.value = BytesText(y.bytes)
    BY <1>1, <1>5 DEF Single
  <2>. DEFINE m == x.bytes  n == y.bytes
  <2>3. m = n
    <3>1. Stands(s, p, BytesText(m)) /\ Stands(s, p, BytesText(n))
      BY <1>1, <2>2, Zenon
    <3>2. m \in Seq(Byte) /\ n \in Seq(Byte)
      BY <2>1
    <3>. HIDE DEF m, n
    <3>. QED  BY <1>1, <3>1, <3>2, OneBytes
  <2>. QED  BY <2>1, <2>2, <2>3, Zenon
<1>6. CASE x.kind = "link"
  <2>1. x = Link(x.bytes) /\ y = Link(y.bytes) /\ x.bytes \in Cids /\ y.bytes \in Cids
    BY <1>1, <1>6 DEF IsTextual
  <2>2. v.value = LinkText(x.bytes) /\ w.value = LinkText(y.bytes)
    BY <1>1, <1>6 DEF Single
  <2>. DEFINE m == x.bytes  n == y.bytes
  <2>3. m = n
    <3>1. Stands(s, p, LinkText(m)) /\ Stands(s, p, LinkText(n))
      BY <1>1, <2>2, Zenon
    <3>2. m \in Cids /\ n \in Cids
      BY <2>1
    <3>. HIDE DEF m, n
    <3>. QED  BY <1>1, <3>1, <3>2, OneLink
  <2>. QED  BY <2>1, <2>2, <2>3, Zenon
<1>. QED  BY <1>2, <1>3, <1>4, <1>5, <1>6

LEMMA ListsAre ==
  ASSUME NEW x, NEW y, NEW f, NEW g, NEW v, NEW w, NEW s, TextsBoth(x, y, f, g, v, w, s),
         NEW p, BothStand(s, p, v.value, w.value), x.kind = "list", y.kind = "list"
  PROVE  x = y /\ Len(v.value) = Len(w.value)
<1>1. x = List(x.items) /\ y = List(y.items)
  BY DEF TextsBoth, IsTextual
<1>2. ListText(x, f, v) /\ ListText(y, g, w) /\ s \in Seq(Nat)
  BY DEF TextsBoth, JsonShape
<1>3. Parts(x) = {x.items[k] : k \in DOMAIN x.items} /\ Parts(y) = {y.items[k] : k \in DOMAIN y.items}
  BY PartsAre DEF PartsOf
<1>4. Told(s, f, g, {x.items[k] : k \in DOMAIN x.items}, {y.items[k] : k \in DOMAIN y.items})
  BY <1>3, Zenon DEF TextsBoth
<1>5. SameText(x, y, v, w)
  BY <1>1, <1>2, <1>4, ListsTell, Zenon
<1>. QED  BY <1>5 DEF SameText

\* A map is not what bytes or a link is.
LEMMA ReservedApart ==
  ASSUME NEW x, IsTextual(x), x.kind = "map", NEW f, TextsAre(f, Parts(x)), NEW v, JsonShape(x, f, v),
         NEW s \in Seq(Nat), NEW p, Stands(s, p, v.value), ReservedAt(s, p)
  PROVE  FALSE
<1>1. /\ IsFiniteSet(DOMAIN x.of) /\ DOMAIN x.of \subseteq Seq(Byte)
  BY DEF IsTextual
<1>2. MapText(x, f, v)
  BY DEF JsonShape
<1>3. TextsAre(f, {x.of[key] : key \in DOMAIN x.of})
  BY PartsAre, Zenon DEF PartsOf
<1>. QED  BY <1>1, <1>2, <1>3, NoMapIsReserved, Zenon

\* What opens bytes or a link.
LEMMA ReservedOpens ==
  ASSUME NEW x, IsTextual(x), NEW f, NEW v, JsonShape(x, f, v), NEW s \in Seq(Nat), NEW p, Stands(s, p, v.value)
  PROVE  /\ x.kind = "bytes" => ReservedAt(s, p) /\ s[p + 6] = OpenBrace
         /\ x.kind = "link" => ReservedAt(s, p) /\ s[p + 6] = Quote
<1>1. CASE x.kind = "bytes"
  <2>. DEFINE b == x.bytes
  <2>1. b \in Seq(Byte)
    BY <1>1 DEF IsTextual
  <2>2. v.value = BytesText(b)
    BY <1>1 DEF JsonShape, Single
  <2>3. Stands(s, p, BytesText(b))
    BY <2>2, Zenon
  <2>. HIDE DEF b
  <2>4. ReservedAt(s, p) /\ s[p + 6] = OpenBrace
    BY <2>1, <2>3, BytesReserved
  <2>. QED  BY <1>1, <2>4
<1>2. CASE x.kind = "link"
  <2>. DEFINE b == x.bytes
  <2>1. b \in Cids
    BY <1>2 DEF IsTextual
  <2>2. v.value = LinkText(b)
    BY <1>2 DEF JsonShape, Single
  <2>3. Stands(s, p, LinkText(b))
    BY <2>2, Zenon
  <2>. HIDE DEF b
  <2>4. ReservedAt(s, p) /\ s[p + 6] = Quote
    BY <2>1, <2>3, LinkReserved
  <2>. QED  BY <1>2, <2>4
<1>. QED  BY <1>1, <1>2

LEMMA BracesAre ==
  ASSUME NEW x, NEW y, NEW f, NEW g, NEW v, NEW w, NEW s, TextsBoth(x, y, f, g, v, w, s),
         NEW p, BothStand(s, p, v.value, w.value),
         x.kind \in {"bytes", "map", "link"}, y.kind \in {"bytes", "map", "link"}
  PROVE  x.kind = y.kind
<1>1. /\ IsTextual(x) /\ IsTextual(y) /\ TextsAre(f, Parts(x)) /\ TextsAre(g, Parts(y))
      /\ JsonShape(x, f, v) /\ JsonShape(y, g, w) /\ s \in Seq(Nat)
      /\ Stands(s, p, v.value) /\ Stands(s, p, w.value)
  BY DEF TextsBoth, BothStand
<1>2. Quote # OpenBrace
  BY LeadsAre DEF StartingFacts
<1>3. /\ x.kind = "bytes" => ReservedAt(s, p) /\ s[p + 6] = OpenBrace
      /\ x.kind = "link" => ReservedAt(s, p) /\ s[p + 6] = Quote
  BY <1>1, ReservedOpens
<1>4. /\ y.kind = "bytes" => ReservedAt(s, p) /\ s[p + 6] = OpenBrace
      /\ y.kind = "link" => ReservedAt(s, p) /\ s[p + 6] = Quote
  BY <1>1, ReservedOpens
<1>5. x.kind = "map" => ~ReservedAt(s, p)
  BY <1>1, ReservedApart
<1>6. y.kind = "map" => ~ReservedAt(s, p)
  BY <1>1, ReservedApart
<1>. QED  BY <1>2, <1>3, <1>4, <1>5, <1>6

LEMMA MapsAre ==
  ASSUME NEW x, NEW y, NEW f, NEW g, NEW v, NEW w, NEW s, TextsBoth(x, y, f, g, v, w, s),
         NEW p, BothStand(s, p, v.value, w.value), x.kind = "map", y.kind = "map"
  PROVE  x = y /\ Len(v.value) = Len(w.value)
<1>1. /\ x = Map(x.of) /\ y = Map(y.of) /\ IsKeyed(x.of) /\ IsKeyed(y.of)
      /\ x.of = [key \in DOMAIN x.of |-> x.of[key]] /\ y.of = [key \in DOMAIN y.of |-> y.of[key]]
  BY DEF TextsBoth, IsTextual, IsKeyed
<1>2. MapText(x, f, v) /\ MapText(y, g, w) /\ s \in Seq(Nat)
  BY DEF TextsBoth, JsonShape
<1>3. Parts(x) = {x.of[key] : key \in DOMAIN x.of} /\ Parts(y) = {y.of[key] : key \in DOMAIN y.of}
  BY PartsAre DEF PartsOf
<1>4. /\ TextsAre(f, {x.of[key] : key \in DOMAIN x.of}) /\ TextsAre(g, {y.of[key] : key \in DOMAIN y.of})
      /\ Told(s, f, g, {x.of[key] : key \in DOMAIN x.of}, {y.of[key] : key \in DOMAIN y.of})
  BY <1>3, Zenon DEF TextsBoth
<1>5. SameText(x, y, v, w)
  BY <1>1, <1>2, <1>4, MapsTell, Zenon
<1>. QED  BY <1>5 DEF SameText

LEMMA TextsTell ==
  ASSUME NEW x, NEW y, NEW f, NEW g, NEW v, NEW w, NEW s, TextsBoth(x, y, f, g, v, w, s)
  PROVE  ToldAt(s, x, y, v, w)
<1>. SUFFICES ASSUME NEW p, BothStand(s, p, v.value, w.value) PROVE x = y /\ Len(v.value) = Len(w.value)
  BY Zenon DEF ToldAt
<1>1. JsonText(v) /\ JsonText(w) /\ s \in Seq(Nat)
  BY DEF TextsBoth, JsonShape
<1>2. v.value[1] = w.value[1]
  <2>1. SameStart(v, w)
    BY <1>1, LeadsTell, Zenon
  <2>. QED  BY <2>1 DEF SameStart
<1>3. GroupOf(x) = GroupOf(y) /\ x.kind # "float" /\ y.kind # "float" /\ IsTextual(x) /\ IsTextual(y)
  BY <1>2, Zenon DEF TextsBoth, JsonShape
<1>4. \/ x.kind = "simple" /\ y.kind = "simple" /\ x.name = y.name
      \/ x.kind = "integer" /\ y.kind = "integer"
      \/ x.kind = "text" /\ y.kind = "text"
      \/ x.kind = "list" /\ y.kind = "list"
      \/ x.kind \in {"bytes", "map", "link"} /\ y.kind \in {"bytes", "map", "link"}
  BY <1>3, GroupsAre
<1>5. CASE x.kind = "list" /\ y.kind = "list"
  BY <1>5, ListsAre
<1>6. CASE x.kind \in {"bytes", "map", "link"} /\ y.kind \in {"bytes", "map", "link"}
  <2>1. x.kind = y.kind
    BY <1>6, BracesAre
  <2>2. CASE x.kind = "map"
    BY <2>1, <2>2, MapsAre
  <2>3. CASE x.kind # "map"
    <3>1. x.kind \in {"simple", "integer", "text", "bytes", "link"} /\ x.kind # "simple"
      BY <1>6, <2>3
    <3>. QED  BY <2>1, <3>1, SimplesTell
  <2>. QED  BY <2>2, <2>3
<1>7. CASE x.kind = y.kind /\ x.kind \in {"simple", "integer", "text"} /\ (x.kind = "simple" => x.name = y.name)
  BY <1>7, SimplesTell
<1>. QED  BY <1>4, <1>5, <1>6, <1>7
=============================================================================
