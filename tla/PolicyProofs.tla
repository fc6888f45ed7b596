---------------------------- MODULE PolicyProofs ----------------------------
(***************************************************************************)
(* The policy language: numbers compare by value, selectors, equality, and *)
(* the wire form of statements (PolicyEval).                               *)
(***************************************************************************)
EXTENDS PolicyEval, WellFoundedInduction, TLAPS

----------------------------------------------------------------------------
(* Induction and recursion on numbers, stated of sets and functions, so    *)
(* that a proof can use them for the case it has.                          *)

LEMMA Least ==
  ASSUME NEW T, T \subseteq Nat, T # {}
  PROVE  \E x \in T : \A y \in T : x <= y
<1>. DEFINE R == OpToRel(<, Nat)
<1>1. IsWellFoundedOn(R, Nat)
  BY NatLessThanWellFounded
<1>2. \A x, y \in Nat : <<y, x>> \in R <=> y < x
  BY DEF OpToRel
<1>. HIDE DEF R
<1>3. PICK x \in T : \A y \in T : <<y, x>> \notin R
  BY <1>1, WFMin
<1>4. ASSUME NEW y \in T PROVE x <= y
  <2>1. x \in Nat /\ y \in Nat
    OBVIOUS
  <2>2. <<y, x>> \notin R
    BY <1>3
  <2>3. ~(y < x)
    BY <1>2, <2>1, <2>2
  <2>. QED  BY <2>1, <2>3
<1>. QED  BY <1>4

\* What holds of 0 and, when of n, of n + 1, holds of every number up to m.
LEMMA InductionUpTo ==
  ASSUME NEW m \in Nat, NEW S, 0 \in S,
         \A n \in 0 .. m - 1 : n \in S => n + 1 \in S
  PROVE  0 .. m \subseteq S
<1>. SUFFICES ASSUME ~(0 .. m \subseteq S) PROVE FALSE
  OBVIOUS
<1>. DEFINE Missing == {n \in 0 .. m : n \notin S}
<1>1. Missing \subseteq Nat /\ Missing # {}
  OBVIOUS
<1>2. PICK n \in Missing : \A k \in Missing : n <= k
  BY <1>1, Least
<1>3. n # 0 /\ n - 1 \in 0 .. m - 1
  BY <1>2
<1>4. n - 1 \in S
  BY <1>2, <1>3
<1>. QED  BY <1>2, <1>3, <1>4

LEMMA Induction ==
  ASSUME NEW S, 0 \in S, \A n \in Nat : n \in S => n + 1 \in S
  PROVE  Nat \subseteq S
<1>. SUFFICES ASSUME NEW m \in Nat PROVE m \in S
  OBVIOUS
<1>1. 0 .. m \subseteq S
  BY InductionUpTo
<1>. QED  BY <1>1

\* f is m steps of step, in T, from first.
Iterates(f, m, T, first, step) ==
  /\ f \in [0 .. m -> T]
  /\ f[0] = first
  /\ \A k \in 1 .. m : f[k] = step[k][f[k - 1]]

\* A first value and a step from each value to the next determine a sequence.
LEMMA Iteration ==
  ASSUME NEW m \in Nat, NEW T, NEW first \in T, NEW step \in [1 .. m -> [T -> T]]
  PROVE  \E f : Iterates(f, m, T, first, step)
<1>. DEFINE Upto(n) ==
       {f \in [0 .. n -> T] : f[0] = first /\ \A k \in 1 .. n : f[k] = step[k][f[k - 1]]}
            Reached == {n \in 0 .. m : Upto(n) # {}}
<1>1. 0 \in Reached
  <2>1. [k \in 0 .. 0 |-> first] \in Upto(0)
    OBVIOUS
  <2>. QED  BY <2>1
<1>2. ASSUME NEW n \in 0 .. m - 1, n \in Reached PROVE n + 1 \in Reached
  <2>1. PICK f \in [0 .. n -> T] :
          f[0] = first /\ \A k \in 1 .. n : f[k] = step[k][f[k - 1]]
    BY <1>2
  <2>. DEFINE g == [k \in 0 .. n + 1 |-> IF k = n + 1 THEN step[n + 1][f[n]] ELSE f[k]]
  <2>2. f[n] \in T /\ n + 1 \in 1 .. m
    OBVIOUS
  <2>3. step[n + 1][f[n]] \in T
    BY <2>2
  <2>4. g \in [0 .. n + 1 -> T]
    BY <2>3
  <2>5. g[0] = first
    BY <2>1
  <2>6. ASSUME NEW k \in 1 .. n + 1 PROVE g[k] = step[k][g[k - 1]]
    <3>1. CASE k = n + 1
      <4>1. k - 1 = n /\ g[k - 1] = f[n]
        BY <3>1
      <4>. QED  BY <3>1, <4>1
    <3>2. CASE k # n + 1
      <4>1. k \in 1 .. n /\ g[k] = f[k] /\ g[k - 1] = f[k - 1]
        BY <3>2
      <4>. QED  BY <2>1, <4>1
    <3>. QED  BY <3>1, <3>2
  <2>. HIDE DEF g
  <2>7. g \in Upto(n + 1)
    BY <2>4, <2>5, <2>6
  <2>. QED  BY <2>7
<1>. HIDE DEF Reached
<1>3. m \in Reached
  <2>1. 0 .. m \subseteq Reached
    BY <1>1, <1>2, InductionUpTo
  <2>. QED  BY <2>1
<1>. QED  BY <1>3 DEF Reached, Iterates

\* ... all of it of the type that the steps keep.
LEMMA IterationType ==
  ASSUME NEW m \in Nat, NEW T, NEW f, f[0] \in T,
         \A n \in 0 .. m - 1 : f[n] \in T => f[n + 1] \in T
  PROVE  \A k \in 0 .. m : f[k] \in T
<1>. DEFINE S == {k \in 0 .. m : f[k] \in T}
<1>1. 0 \in S
  OBVIOUS
<1>2. ASSUME NEW n \in 0 .. m - 1, n \in S PROVE n + 1 \in S
  BY <1>2
<1>. HIDE DEF S
<1>3. 0 .. m \subseteq S
  BY <1>1, <1>2, InductionUpTo
<1>. QED  BY <1>3 DEF S

----------------------------------------------------------------------------
(* Rounding.                                                               *)

IsSpacing(unit, m) ==
  unit = [n \in 0 .. m |-> IF n < Significand THEN 1 ELSE 2 * unit[n \div 2]]

LEMMA SignificandType ==
  Significand \in Nat /\ Significand >= 2 /\ Significand = 2 * (Significand \div 2)
  BY IpldAssumption

LEMMA SpacingAt ==
  ASSUME NEW m, NEW unit, IsSpacing(unit, m), NEW n \in 0 .. m
  PROVE  unit[n] = IF n < Significand THEN 1 ELSE 2 * unit[n \div 2]
<1>. DEFINE g == [k \in 0 .. m |-> IF k < Significand THEN 1 ELSE 2 * unit[k \div 2]]
<1>1. g[n] = IF n < Significand THEN 1 ELSE 2 * unit[n \div 2]
  BY Zenon
<1>2. unit = g
  BY DEF IsSpacing
<1>. QED  BY <1>1, <1>2, Zenon

LEMMA HalfIsLess == ASSUME NEW n \in Nat, n # 0 PROVE n \div 2 \in 0 .. n - 1
  OBVIOUS

LEMMA SpacingExists == \A m \in Nat : \E unit : IsSpacing(unit, m)
<1>. DEFINE S == {m \in Nat : \E unit : IsSpacing(unit, m)}
<1>1. 0 \in S
  <2>1. IsSpacing([n \in 0 .. 0 |-> 1], 0)
    BY IpldAssumption DEF IsSpacing
  <2>. QED  BY <2>1
<1>2. ASSUME NEW m \in Nat, m \in S PROVE m + 1 \in S
  <2>1. PICK unit : IsSpacing(unit, m)
    BY <1>2
  <2>. DEFINE g == [n \in 0 .. m + 1 |-> IF n < Significand THEN 1 ELSE 2 * unit[n \div 2]]
  <2>2. \A n \in 0 .. m : g[n] = unit[n]
    BY <2>1, SpacingAt
  <2>3. \A n \in 0 .. m + 1 : n >= Significand => n \div 2 \in 0 .. m
    BY HalfIsLess, SignificandType
  <2>4. \A n \in 0 .. m + 1 :
          g[n] = IF n < Significand THEN 1 ELSE 2 * g[n \div 2]
    <3>1. ASSUME NEW n \in 0 .. m + 1
          PROVE  g[n] = IF n < Significand THEN 1 ELSE 2 * unit[n \div 2]
      BY <3>1, Zenon
    <3>. HIDE DEF g
    <3>. QED  BY <2>2, <2>3, <3>1, SignificandType
  <2>5. IsSpacing(g, m + 1)
    <3>. DEFINE h == [n \in 0 .. m + 1 |-> IF n < Significand THEN 1 ELSE 2 * g[n \div 2]]
    <3>1. \A n \in 0 .. m + 1 : g[n] = h[n]
      BY <2>4
    <3>2. g = h
      BY <3>1
    <3>. QED  BY <3>2 DEF IsSpacing
  <2>. QED  BY <2>5
<1>. HIDE DEF S
<1>3. Nat \subseteq S
  BY <1>1, <1>2, Induction
<1>. QED  BY <1>3 DEF S

\* Below Significand every whole number is a float; beyond, spacings double.
SpacingFits(u, n) ==
  /\ u \in Nat \ {0}
  /\ n < Significand => u = 1
  /\ n >= Significand => u >= 2 /\ u * (Significand \div 2) <= n

LEMMA SpacingIsRight == ASSUME NEW m \in Nat PROVE SpacingFits(Spacing(m), m)
<1>1. PICK unit : IsSpacing(unit, m)
  BY SpacingExists
<1>2. IsSpacing(CHOOSE u : IsSpacing(u, m), m)
  BY <1>1
<1>. DEFINE u == CHOOSE u : IsSpacing(u, m)
<1>3. Spacing(m) = u[m]
  BY Zenon DEF Spacing, IsSpacing
<1>. HIDE DEF u
<1>4. \A n \in 0 .. m : u[n] = IF n < Significand THEN 1 ELSE 2 * u[n \div 2]
  BY <1>2, SpacingAt DEF u
<1>. DEFINE Bad == {n \in 0 .. m : ~SpacingFits(u[n], n)}
<1>5. Bad = {}
  <2>. SUFFICES ASSUME Bad # {} PROVE FALSE
    OBVIOUS
  <2>1. PICK n \in Bad : \A k \in Bad : n <= k
    BY Least, Bad \subseteq Nat
  <2>2. n \in 0 .. m /\ ~SpacingFits(u[n], n)
    OBVIOUS
  <2>3. CASE n < Significand
    BY <1>4, <2>2, <2>3, SignificandType DEF SpacingFits
  <2>4. CASE n >= Significand
    <3>. DEFINE k == n \div 2
                H == Significand \div 2
    <3>1. k \in 0 .. m /\ k < n /\ 2 * k <= n
      BY <2>2, <2>4, HalfIsLess, IpldAssumption
    <3>2. SpacingFits(u[k], k)
      BY <2>1, <3>1, <2>2
    <3>3. u[n] = 2 * u[k]
      BY <1>4, <2>2, <2>4, SignificandType
    <3>4. H \in Nat \ {0} /\ 2 * H = Significand
      BY IpldAssumption
    <3>5. (2 * u[k]) * H <= n
      <4>1. CASE k < Significand
        BY <3>2, <4>1, <3>4, <2>4 DEF SpacingFits
      <4>2. CASE k >= Significand
        <5>1. u[k] \in Nat /\ u[k] * H <= k
          BY <3>2, <4>2, IpldAssumption DEF SpacingFits
        <5>2. (2 * u[k]) * H = 2 * (u[k] * H) /\ u[k] * H \in Nat
          BY <5>1, <3>4
        <5>. QED  BY <5>1, <5>2, <3>1, <2>2
      <4>. QED  BY <4>1, <4>2, <3>1, IpldAssumption
    <3>6. u[k] \in Nat \ {0}
      BY <3>2 DEF SpacingFits
    <3>. HIDE DEF k, H
    <3>7. SpacingFits(u[n], n)
      BY <3>3, <3>5, <3>6, <2>4, <2>2, SignificandType DEF SpacingFits, H
    <3>. QED  BY <3>7, <2>2
  <2>. QED  BY <2>2, <2>3, <2>4, IpldAssumption
<1>. QED  BY <1>3, <1>5

LEMMA DivMod ==
  ASSUME NEW m \in Nat, NEW u \in Nat \ {0}
  PROVE  m \div u \in Nat /\ m % u \in 0 .. u - 1 /\ m = u * (m \div u) + (m % u)
  OBVIOUS

LEMMA RoundedSmall ==
  ASSUME NEW i \in Int, Magnitude(i) < Significand
  PROVE  Rounded(i) = i
<1>1. Magnitude(i) \in Nat
  BY DEF Magnitude
<1>2. Spacing(Magnitude(i)) = 1
  BY <1>1, SpacingIsRight DEF SpacingFits
<1>3. Magnitude(i) \div 1 = Magnitude(i) /\ Magnitude(i) % 1 = 0
  BY <1>1
<1>. QED  BY <1>1, <1>2, <1>3 DEF Rounded, Magnitude

LEMMA RoundedLarge ==
  ASSUME NEW i \in Int, Magnitude(i) >= Significand
  PROVE  \E size \in Nat :
           /\ Rounded(i) = IF i < 0 THEN -size ELSE size
           /\ Significand <= size /\ size <= 2 * Magnitude(i)
<1>. DEFINE m == Magnitude(i)
            unit == Spacing(m)
            H == Significand \div 2
            below == m \div unit
            rest == 2 * (m % unit)
            up == rest > unit \/ (rest = unit /\ below % 2 = 1)
            size == unit * (IF up THEN below + 1 ELSE below)
<1>1. m \in Nat /\ m >= Significand
  BY DEF Magnitude
<1>2. unit \in Nat \ {0} /\ unit >= 2 /\ unit * H <= m
  BY <1>1, SpacingIsRight, IpldAssumption DEF SpacingFits
<1>3. H \in Nat \ {0} /\ 2 * H = Significand
  BY IpldAssumption
<1>4. below \in Nat /\ m % unit \in 0 .. unit - 1 /\ m = unit * below + (m % unit)
  <2>. HIDE DEF m, unit
  <2>. QED  BY <1>1, <1>2, DivMod
<1>5. Rounded(i) = IF i < 0 THEN -size ELSE size
  BY DEF Rounded
<1>6. size = unit * below \/ size = unit * (below + 1)
  OBVIOUS
<1>. HIDE DEF size, below, unit, m, H
<1>7. below >= H
  <2>. SUFFICES ASSUME below + 1 <= H PROVE FALSE
    BY <1>3, <1>4
  <2>1. unit * (below + 1) <= unit * H
    BY <1>2, <1>3, <1>4
  <2>2. unit * (below + 1) = unit * below + unit
    BY <1>2, <1>4
  <2>. DEFINE P == unit * below
              Q == unit * (below + 1)
              R == unit * H
  <2>3. P \in Int /\ Q \in Int /\ R \in Int /\ unit \in Int /\ m % unit \in Int
    BY <1>2, <1>3, <1>4
  <2>4. Q <= R /\ Q = P + unit /\ R <= m /\ m = P + (m % unit) /\ m % unit < unit
    BY <1>2, <1>4, <2>1, <2>2
  <2>. HIDE DEF P, Q, R
  <2>. QED  BY <1>1, <2>3, <2>4
<1>8. unit * below >= Significand
  <2>1. unit * below >= 2 * below
    BY <1>2, <1>4
  <2>. QED  BY <2>1, <1>2, <1>3, <1>4, <1>7
<1>9. unit * (below + 1) = unit * below + unit /\ unit * below \in Nat /\ unit * below <= m
  BY <1>1, <1>2, <1>4
<1>10. unit <= m
  <2>1. unit <= unit * H
    BY <1>2, <1>3
  <2>. QED  BY <2>1, <1>1, <1>2, <1>3
<1>11. size \in Nat /\ Significand <= size /\ size <= 2 * m
  BY <1>1, <1>2, <1>6, <1>8, <1>9, <1>10, IpldAssumption
<1>. QED  BY <1>5, <1>11 DEF m

----------------------------------------------------------------------------
(* The order of numbers.                                                   *)

LEMMA IntFloatIsExact ==
  ASSUME NEW i \in Int, 2 * Magnitude(i) < FloatLimit,
         NEW twice \in Int, twice % 2 = 1 => Magnitude(twice) < Significand
  PROVE  IntFloat(i, twice) = Cmp(2 * i, twice)
<1>0. FloatLimit \in Nat /\ Magnitude(i) \in Nat /\ Magnitude(twice) \in Nat
  BY IpldAssumption DEF Magnitude
<1>1. CASE Magnitude(twice) < 2 * FloatLimit /\ twice % 2 = 0
  BY <1>1 DEF IntFloat
<1>2. CASE Magnitude(i) < Significand
  BY <1>2, RoundedSmall DEF IntFloat
<1>3. CASE /\ ~(Magnitude(twice) < 2 * FloatLimit /\ twice % 2 = 0)
           /\ Magnitude(i) >= Significand
  <2>1. PICK size \in Nat :
          /\ Rounded(i) = IF i < 0 THEN -size ELSE size
          /\ Significand <= size /\ size <= 2 * Magnitude(i)
    BY <1>3, RoundedLarge
  <2>2. IntFloat(i, twice) = Cmp(2 * Rounded(i), twice)
    BY <1>3 DEF IntFloat
  <2>3. \/ Magnitude(twice) < 2 * size /\ Magnitude(twice) < 2 * Magnitude(i)
        \/ 2 * size < Magnitude(twice) /\ 2 * Magnitude(i) < Magnitude(twice)
    <3>1. twice % 2 \in {0, 1}
      OBVIOUS
    <3>2. CASE twice % 2 = 1
      BY <1>0, <1>3, <2>1, <3>2, SignificandType
    <3>3. CASE twice % 2 = 0
      BY <1>0, <1>3, <2>1, <3>3, SignificandType
    <3>. QED  BY <3>1, <3>2, <3>3
  <2>. QED  BY <1>0, <1>3, <2>1, <2>2, <2>3, SignificandType DEF Cmp, Magnitude
<1>. QED  BY <1>0, <1>1, <1>2, <1>3, SignificandType

LEMMA NumberType ==
  ASSUME NEW x, IsValue(x), IsNumber(x)
  PROVE  /\ x.num \in Int
         /\ \/ x.kind = "integer" /\ 2 * Magnitude(x.num) < FloatLimit
            \/ x.kind = "float" /\ (x.num % 2 = 1 => Magnitude(x.num) < Significand)
  BY DEF IsValue, IsNumber, IsInteger, IsFloat, IsText, IsBytes, IsList, IsMap, Null

LEMMA OrderedByValue ==
  ASSUME NEW x, IsValue(x), IsNumber(x), NEW y, IsValue(y), IsNumber(y)
  PROVE  Twice(x) \in Int /\ Twice(y) \in Int /\ Order(x, y) = Cmp(Twice(x), Twice(y))
<1>1. x.num \in Int /\ y.num \in Int /\ Twice(x) \in Int /\ Twice(y) \in Int
  BY NumberType DEF Twice
<1>2. CASE x.kind = y.kind
  BY <1>1, <1>2 DEF Order, Cmp, Twice
<1>3. CASE x.kind = "integer" /\ y.kind = "float"
  <2>1. IntFloat(x.num, y.num) = Cmp(2 * x.num, y.num)
    BY <1>1, <1>3, NumberType, IntFloatIsExact
  <2>2. Order(x, y) = IntFloat(x.num, y.num)
    BY <1>3, Zenon DEF Order
  <2>3. Twice(x) = 2 * x.num /\ Twice(y) = y.num
    BY <1>3 DEF Twice
  <2>. QED  BY <1>1, <2>1, <2>2, <2>3
<1>4. CASE x.kind = "float" /\ y.kind = "integer"
  <2>1. IntFloat(y.num, x.num) = Cmp(2 * y.num, x.num)
    BY <1>1, <1>4, NumberType, IntFloatIsExact
  <2>2. Reversed(Cmp(2 * y.num, x.num)) = Cmp(x.num, 2 * y.num)
    BY <1>1 DEF Reversed, Cmp
  <2>3. Order(x, y) = Reversed(IntFloat(y.num, x.num))
    BY <1>4, Zenon DEF Order
  <2>4. Twice(x) = x.num /\ Twice(y) = 2 * y.num
    BY <1>4 DEF Twice
  <2>. QED  BY <1>1, <2>1, <2>2, <2>3, <2>4
<1>. QED  BY <1>1, <1>2, <1>3, <1>4, NumberType

----------------------------------------------------------------------------
(* Deep equality.                                                          *)

LEMMA ShapeOf ==
  ASSUME NEW v, IsValue(v)
  PROVE  /\ v.kind = "list" => IsList(v)
         /\ v.kind = "map" => IsMap(v)
         /\ v.kind = "bytes" => IsBytes(v)
         /\ v.kind = "string" => IsText(v)
         /\ v.kind \in {"null", "integer", "float", "string", "bytes", "list", "map"}
         /\ v # Failed
  BY DEF IsValue, IsInteger, IsFloat, IsText, IsBytes, IsList, IsMap, Null, Failed

\* The values nested less than n deep.
Shallow(n) == {v \in Values : Depth[v] < n}

LEMMA PartsAreShallow ==
  ASSUME NEW n \in Nat, NEW v \in Shallow(n + 1)
  PROVE  /\ v \in Values /\ IsValue(v)
         /\ v.kind = "list" => \A k \in DOMAIN v.items : v.items[k] \in Shallow(n)
         /\ v.kind = "map" => \A k \in DOMAIN v.of : v.of[k] \in Shallow(n)
<1>1. v \in Values /\ IsValue(v) /\ Depth[v] \in Nat /\ Depth[v] < n + 1
  BY ValuesAssumption DEF Shallow
<1>2. \A p \in Values : Depth[p] \in Nat
  BY ValuesAssumption
<1>3. \A p \in Parts(v) : Depth[p] < Depth[v]
  BY <1>1, ValuesAssumption
<1>4. ASSUME v.kind = "list", NEW k \in DOMAIN v.items PROVE v.items[k] \in Shallow(n)
  <2>1. v.items \in Seq(Values)
    BY <1>1, <1>4, ShapeOf DEF IsList
  <2>2. v.items[k] \in Values
    BY <2>1
  <2>3. v.items[k] \in Parts(v)
    BY <1>4 DEF Parts
  <2>. QED  BY <1>1, <1>2, <1>3, <2>2, <2>3 DEF Shallow
<1>5. ASSUME v.kind = "map", NEW k \in DOMAIN v.of PROVE v.of[k] \in Shallow(n)
  <2>1. v.of \in [DOMAIN v.of -> Values]
    BY <1>1, <1>5, ShapeOf DEF IsMap
  <2>2. v.of[k] \in Values
    BY <2>1
  <2>3. v.of[k] \in Parts(v)
    BY <1>5 DEF Parts
  <2>. QED  BY <1>1, <1>2, <1>3, <2>2, <2>3 DEF Shallow
<1>. QED  BY <1>1, <1>4, <1>5

LEMMA AllAreShallow == Values = Shallow(MaxDepth + 1)
<1>1. \A v \in Values : Depth[v] \in Nat /\ Depth[v] < MaxDepth + 1
  BY ValuesAssumption
<1>. QED  BY <1>1 DEF Shallow

LEMMA NoneIsShallow == Shallow(0) = {}
  BY ValuesAssumption DEF Shallow

IsSame(same, n) ==
  same = [pair \in Shallow(n) \X Values |-> Alike(pair[1], pair[2], same)]

LEMMA SameAt ==
  ASSUME NEW n, NEW same, IsSame(same, n), NEW a \in Shallow(n), NEW b \in Values
  PROVE  same[<<a, b>>] = Alike(a, b, same)
<1>. DEFINE g == [pair \in Shallow(n) \X Values |-> Alike(pair[1], pair[2], same)]
<1>1. g[<<a, b>>] = Alike(a, b, same)
  OBVIOUS
<1>2. same = g
  BY DEF IsSame
<1>. QED  BY <1>1, <1>2, Zenon

\* Only what is said of the parts matters.
LEMMA AlikeByParts ==
  ASSUME NEW n \in Nat, NEW a \in Shallow(n + 1), NEW b \in Values, NEW f, NEW g,
         \A x \in Shallow(n), y \in Values : f[<<x, y>>] = g[<<x, y>>]
  PROVE  Alike(a, b, f) = Alike(a, b, g)
<1>1. IsValue(a) /\ IsValue(b)
  BY PartsAreShallow, ValuesAssumption
<1>2. CASE a.kind = "list" /\ b.kind = "list"
  <2>1. a.items \in Seq(Values) /\ b.items \in Seq(Values)
    BY <1>1, <1>2, ShapeOf DEF IsList
  <2>2. Len(a.items) = Len(b.items) =>
          \A k \in DOMAIN a.items : f[<<a.items[k], b.items[k]>>] = g[<<a.items[k], b.items[k]>>]
    <3>1. SUFFICES ASSUME Len(a.items) = Len(b.items), NEW k \in DOMAIN a.items
                   PROVE  f[<<a.items[k], b.items[k]>>] = g[<<a.items[k], b.items[k]>>]
      OBVIOUS
    <3>2. a.items[k] \in Shallow(n)
      BY <1>2, PartsAreShallow
    <3>3. b.items[k] \in Values
      BY <2>1, <3>1
    <3>. QED  BY <3>2, <3>3
  <2>. QED  BY <1>2, <2>2 DEF Alike, IsNumber
<1>3. CASE a.kind = "map" /\ b.kind = "map"
  <2>1. DOMAIN a.of = DOMAIN b.of =>
          \A k \in DOMAIN a.of : f[<<a.of[k], b.of[k]>>] = g[<<a.of[k], b.of[k]>>]
    <3>1. SUFFICES ASSUME DOMAIN a.of = DOMAIN b.of, NEW k \in DOMAIN a.of
                   PROVE  f[<<a.of[k], b.of[k]>>] = g[<<a.of[k], b.of[k]>>]
      OBVIOUS
    <3>2. a.of[k] \in Shallow(n)
      BY <1>3, PartsAreShallow
    <3>3. b.of[k] \in Values
      BY <1>1, <1>3, <3>1, ShapeOf DEF IsMap
    <3>. QED  BY <3>2, <3>3
  <2>. QED  BY <1>3, <2>1 DEF Alike, IsNumber
<1>. QED  BY <1>2, <1>3, Zenon DEF Alike

LEMMA SameExists == \E same : IsSame(same, MaxDepth + 1)
<1>. DEFINE S == {n \in Nat : \E same : IsSame(same, n)}
<1>1. 0 \in S
  <2>. DEFINE f == [pair \in {} |-> TRUE]
              g == [pair \in Shallow(0) \X Values |-> Alike(pair[1], pair[2], f)]
  <2>1. f = g
    BY NoneIsShallow
  <2>2. IsSame(f, 0)
    BY <2>1 DEF IsSame
  <2>. QED  BY <2>2
<1>2. ASSUME NEW n \in Nat, n \in S PROVE n + 1 \in S
  <2>1. PICK f : IsSame(f, n)
    BY <1>2
  <2>. DEFINE g == [pair \in Shallow(n + 1) \X Values |-> Alike(pair[1], pair[2], f)]
              h == [pair \in Shallow(n + 1) \X Values |-> Alike(pair[1], pair[2], g)]
  <2>2. \A a \in Shallow(n), b \in Values : a \in Shallow(n + 1)
    BY ValuesAssumption DEF Shallow
  <2>3. \A a \in Shallow(n), b \in Values : f[<<a, b>>] = g[<<a, b>>]
    BY <2>1, <2>2, SameAt
  <2>. HIDE DEF g
  <2>4. \A a \in Shallow(n + 1), b \in Values : Alike(a, b, f) = Alike(a, b, g)
    BY <2>3, AlikeByParts
  <2>5. g = h
    BY <2>4 DEF g
  <2>6. IsSame(g, n + 1)
    BY <2>5 DEF IsSame
  <2>. QED  BY <2>6
<1>. HIDE DEF S
<1>3. Nat \subseteq S
  BY <1>1, <1>2, Induction
<1>. QED  BY <1>3, ValuesAssumption DEF S

LEMMA SameIsAlike ==
  \A a, b \in Values : Same[<<a, b>>] = Alike(a, b, Same)
<1>1. \E same : same = [pair \in Values \X Values |-> Alike(pair[1], pair[2], same)]
  BY SameExists, AllAreShallow, Zenon DEF IsSame
<1>2. Same = [pair \in Values \X Values |-> Alike(pair[1], pair[2], Same)]
  BY <1>1, Zenon DEF Same
<1>3. IsSame(Same, MaxDepth + 1)
  BY <1>2, AllAreShallow, Zenon DEF IsSame
<1>. QED  BY <1>3, SameAt, AllAreShallow, Zenon

SameItems(a, b) ==
  Len(a.items) = Len(b.items) /\ \A k \in DOMAIN a.items : Same[<<a.items[k], b.items[k]>>]

SameEntries(a, b) ==
  DOMAIN a.of = DOMAIN b.of /\ \A k \in DOMAIN a.of : Same[<<a.of[k], b.of[k]>>]

EqualInKind(a, b) ==
  \/ IsNumber(a) /\ IsNumber(b) /\ Twice(a) = Twice(b)
  \/ a.kind = "list" /\ b.kind = "list" /\ SameItems(a, b)
  \/ a.kind = "map" /\ b.kind = "map" /\ SameEntries(a, b)
  \/ a.kind \in {"null", "string", "bytes"} /\ a = b

LEMMA EqualCases ==
  ASSUME NEW a, IsValue(a), NEW b, IsValue(b)
  PROVE  Equal(a, b) <=> EqualInKind(a, b)
<1>1. CASE IsNumber(a) /\ IsNumber(b)
  <2>1. Order(a, b) = "Equal" <=> Twice(a) = Twice(b)
    BY <1>1, OrderedByValue DEF Cmp
  <2>2. a.kind \in {"integer", "float"} /\ b.kind \in {"integer", "float"}
    BY <1>1 DEF IsNumber
  <2>3. Equal(a, b) <=> Order(a, b) = "Equal"
    BY <1>1 DEF Equal, Alike
  <2>. QED  BY <1>1, <2>1, <2>2, <2>3 DEF EqualInKind
<1>2. CASE a.kind = "list" /\ b.kind = "list"
  BY <1>2 DEF Equal, Alike, EqualInKind, SameItems, IsNumber
<1>3. CASE a.kind = "map" /\ b.kind = "map"
  BY <1>3 DEF Equal, Alike, EqualInKind, SameEntries, IsNumber
<1>4. CASE /\ ~(IsNumber(a) /\ IsNumber(b)) /\ ~(a.kind = "list" /\ b.kind = "list")
           /\ ~(a.kind = "map" /\ b.kind = "map")
  <2>1. Equal(a, b) <=> a = b
    BY <1>4, Zenon DEF Equal, Alike
  <2>2. a = b => a.kind \in {"null", "string", "bytes"}
    BY <1>4, ShapeOf DEF IsNumber
  <2>. QED  BY <1>4, <2>1, <2>2 DEF EqualInKind
<1>. QED  BY <1>1, <1>2, <1>3, <1>4

PartsIn(v, T) ==
  /\ v.kind = "list" => \A k \in DOMAIN v.items : v.items[k] \in T
  /\ v.kind = "map" => \A k \in DOMAIN v.of : v.of[k] \in T

LEMMA PartsInValues == ASSUME NEW v, IsValue(v) PROVE PartsIn(v, Values)
<1>1. ASSUME v.kind = "list", NEW k \in DOMAIN v.items PROVE v.items[k] \in Values
  <2>1. v.items \in Seq(Values)
    BY <1>1, ShapeOf DEF IsList
  <2>. QED  BY <2>1, <1>1
<1>2. ASSUME v.kind = "map", NEW k \in DOMAIN v.of PROVE v.of[k] \in Values
  <2>1. v.of \in [DOMAIN v.of -> Values]
    BY <1>2, ShapeOf DEF IsMap
  <2>. QED  BY <2>1, <1>2
<1>. QED  BY <1>1, <1>2 DEF PartsIn

\* Lists that are alike have positions alike.
LEMMA SamePositions ==
  ASSUME NEW a, IsValue(a), NEW b, IsValue(b), a.kind = "list", b.kind = "list",
         Len(a.items) = Len(b.items)
  PROVE  DOMAIN a.items = DOMAIN b.items
<1>1. a.items \in Seq(Values) /\ b.items \in Seq(Values)
  BY ShapeOf DEF IsList
<1>. QED  BY <1>1

SymmetricOn(T) == \A x \in T, y \in Values : Same[<<x, y>>] => Same[<<y, x>>]

LEMMA EqualTurns ==
  ASSUME NEW T, SymmetricOn(T), NEW a, IsValue(a), PartsIn(a, T), NEW b, IsValue(b),
         Equal(a, b)
  PROVE  Equal(b, a)
<1>1. EqualInKind(a, b)
  BY EqualCases
<1>2. CASE a.kind = "list" /\ b.kind = "list" /\ SameItems(a, b)
  <2>1. DOMAIN a.items = DOMAIN b.items
    BY <1>2, SamePositions DEF SameItems
  <2>2. ASSUME NEW k \in DOMAIN b.items PROVE Same[<<b.items[k], a.items[k]>>]
    <3>1. a.items[k] \in T /\ b.items[k] \in Values /\ Same[<<a.items[k], b.items[k]>>]
      BY <1>2, <2>1, PartsInValues DEF PartsIn, SameItems
    <3>. QED  BY <3>1 DEF SymmetricOn
  <2>3. SameItems(b, a)
    BY <1>2, <2>2 DEF SameItems
  <2>. QED  BY <1>2, <2>3, EqualCases DEF EqualInKind
<1>3. CASE a.kind = "map" /\ b.kind = "map" /\ SameEntries(a, b)
  <2>1. ASSUME NEW k \in DOMAIN b.of PROVE Same[<<b.of[k], a.of[k]>>]
    <3>1. a.of[k] \in T /\ b.of[k] \in Values /\ Same[<<a.of[k], b.of[k]>>]
      BY <1>3, PartsInValues DEF PartsIn, SameEntries
    <3>. QED  BY <3>1 DEF SymmetricOn
  <2>2. SameEntries(b, a)
    BY <1>3, <2>1 DEF SameEntries
  <2>. QED  BY <1>3, <2>2, EqualCases DEF EqualInKind
<1>4. CASE \/ IsNumber(a) /\ IsNumber(b) /\ Twice(a) = Twice(b)
           \/ a.kind \in {"null", "string", "bytes"} /\ a = b
  <2>1. EqualInKind(b, a)
    BY <1>4 DEF EqualInKind
  <2>. QED  BY <2>1, EqualCases
<1>. QED  BY <1>1, <1>2, <1>3, <1>4 DEF EqualInKind

TransitiveOn(T) ==
  \A x \in T, y, z \in Values : Same[<<x, y>>] /\ Same[<<y, z>>] => Same[<<x, z>>]

LEMMA EqualCarries ==
  ASSUME NEW T, TransitiveOn(T), NEW a, IsValue(a), PartsIn(a, T), NEW b, IsValue(b),
         NEW c, IsValue(c), Equal(a, b), Equal(b, c)
  PROVE  Equal(a, c)
<1>1. EqualInKind(a, b) /\ EqualInKind(b, c)
  BY EqualCases
<1>2. CASE a.kind = "list" /\ b.kind = "list" /\ SameItems(a, b)
  <2>1. c.kind = "list" /\ SameItems(b, c)
    BY <1>1, <1>2 DEF EqualInKind, IsNumber
  <2>2. DOMAIN a.items = DOMAIN b.items /\ DOMAIN b.items = DOMAIN c.items
    BY <1>2, <2>1, SamePositions DEF SameItems
  <2>3. ASSUME NEW k \in DOMAIN a.items PROVE Same[<<a.items[k], c.items[k]>>]
    <3>1. a.items[k] \in T /\ b.items[k] \in Values /\ c.items[k] \in Values
      BY <1>2, <2>1, <2>2, PartsInValues DEF PartsIn
    <3>2. Same[<<a.items[k], b.items[k]>>] /\ Same[<<b.items[k], c.items[k]>>]
      BY <1>2, <2>1, <2>2 DEF SameItems
    <3>. QED  BY <3>1, <3>2 DEF TransitiveOn
  <2>4. SameItems(a, c)
    BY <1>2, <2>1, <2>3 DEF SameItems
  <2>. QED  BY <1>2, <2>1, <2>4, EqualCases DEF EqualInKind
<1>3. CASE a.kind = "map" /\ b.kind = "map" /\ SameEntries(a, b)
  <2>1. c.kind = "map" /\ SameEntries(b, c)
    BY <1>1, <1>3 DEF EqualInKind, IsNumber
  <2>2. ASSUME NEW k \in DOMAIN a.of PROVE Same[<<a.of[k], c.of[k]>>]
    <3>1. a.of[k] \in T /\ b.of[k] \in Values /\ c.of[k] \in Values
      BY <1>3, <2>1, PartsInValues DEF PartsIn, SameEntries
    <3>2. Same[<<a.of[k], b.of[k]>>] /\ Same[<<b.of[k], c.of[k]>>]
      BY <1>3, <2>1 DEF SameEntries
    <3>. QED  BY <3>1, <3>2 DEF TransitiveOn
  <2>3. SameEntries(a, c)
    BY <1>3, <2>1, <2>2 DEF SameEntries
  <2>. QED  BY <1>3, <2>1, <2>3, EqualCases DEF EqualInKind
<1>4. CASE \/ IsNumber(a) /\ IsNumber(b) /\ Twice(a) = Twice(b)
           \/ a.kind \in {"null", "string", "bytes"} /\ a = b
  <2>1. EqualInKind(a, c)
    BY <1>1, <1>4 DEF EqualInKind, IsNumber
  <2>. QED  BY <2>1, EqualCases
<1>. QED  BY <1>1, <1>2, <1>3, <1>4 DEF EqualInKind

LEMMA SameIsEquivalence == SymmetricOn(Values) /\ TransitiveOn(Values)
<1>. DEFINE S == {n \in Nat : SymmetricOn(Shallow(n)) /\ TransitiveOn(Shallow(n))}
<1>1. 0 \in S
  BY NoneIsShallow DEF SymmetricOn, TransitiveOn
<1>2. ASSUME NEW n \in Nat, n \in S PROVE n + 1 \in S
  <2>1. \A x \in Shallow(n + 1) : x \in Values /\ IsValue(x) /\ PartsIn(x, Shallow(n))
    BY PartsAreShallow DEF PartsIn
  <2>2. \A x \in Values : IsValue(x)
    BY ValuesAssumption
  <2>3. \A x, y \in Values : Same[<<x, y>>] = Equal(x, y)
    BY SameIsAlike DEF Equal
  <2>4. ASSUME NEW x \in Shallow(n + 1), NEW y \in Values, Same[<<x, y>>]
        PROVE  Same[<<y, x>>]
    <3>1. Equal(x, y)
      BY <2>1, <2>3, <2>4
    <3>2. SymmetricOn(Shallow(n))
      BY <1>2
    <3>3. IsValue(x) /\ IsValue(y) /\ PartsIn(x, Shallow(n))
      BY <2>1, <2>2
    <3>4. Equal(y, x)
      BY <3>1, <3>2, <3>3, EqualTurns
    <3>. QED  BY <2>1, <2>3, <3>4
  <2>5. ASSUME NEW x \in Shallow(n + 1), NEW y \in Values, NEW z \in Values,
               Same[<<x, y>>], Same[<<y, z>>]
        PROVE  Same[<<x, z>>]
    <3>1. Equal(x, y) /\ Equal(y, z)
      BY <2>1, <2>3, <2>5
    <3>2. TransitiveOn(Shallow(n))
      BY <1>2
    <3>3. IsValue(x) /\ IsValue(y) /\ IsValue(z) /\ PartsIn(x, Shallow(n))
      BY <2>1, <2>2
    <3>4. Equal(x, z)
      BY <3>1, <3>2, <3>3, EqualCarries
    <3>. QED  BY <2>1, <2>3, <3>4
  <2>. QED  BY <2>4, <2>5 DEF SymmetricOn, TransitiveOn
<1>. HIDE DEF S
<1>3. Nat \subseteq S
  BY <1>1, <1>2, Induction
<1>. QED  BY <1>3, ValuesAssumption, AllAreShallow DEF S

LEMMA EqualIsEquivalence ==
  ASSUME NEW a, IsValue(a), NEW b, IsValue(b), Equal(a, b)
  PROVE  /\ Equal(b, a)
         /\ \A c : IsValue(c) /\ Equal(b, c) => Equal(a, c)
<1>1. PartsIn(a, Values) /\ SymmetricOn(Values) /\ TransitiveOn(Values)
  BY PartsInValues, SameIsEquivalence
<1>2. Equal(b, a)
  BY <1>1, EqualTurns
<1>3. ASSUME NEW c, IsValue(c), Equal(b, c) PROVE Equal(a, c)
  BY <1>1, <1>3, EqualCarries
<1>. QED  BY <1>2, <1>3

----------------------------------------------------------------------------
(* What a selector finds.                                                  *)

Octets == {n \in Nat : Integer(n) \in Values}

\* Values, and the lists and byte strings that selectors cut out of them.
Things == Values \cup {List(s) : s \in Seq(Values)} \cup {Bytes(s) : s \in Seq(Octets)}

Outcomes == Things \cup {Failed}

LEMMA ThingIsValue == \A v \in Things : IsValue(v)
<1>1. \A v \in Values : IsValue(v)
  BY ValuesAssumption
<1>2. ASSUME NEW s \in Seq(Values) PROVE IsValue(List(s))
  BY DEF IsValue, IsList, List
<1>3. ASSUME NEW s \in Seq(Octets) PROVE IsValue(Bytes(s))
  BY DEF IsValue, IsBytes, Bytes, Octets
<1>. QED  BY <1>1, <1>2, <1>3 DEF Things

LEMMA FailedIsNoThing == Failed \notin Things
  BY ThingIsValue, ShapeOf

\* The values of a map up to each place in the order of keys.
Gathers(u, map) ==
  /\ u \in [0 .. Len(KeyOrder) -> Seq(Values)]
  /\ u[0] = << >>
  /\ \A n \in 1 .. Len(KeyOrder) :
       u[n] = IF KeyOrder[n] \in DOMAIN map.of
              THEN Append(u[n - 1], map.of[KeyOrder[n]]) ELSE u[n - 1]

LEMMA Gathered ==
  ASSUME NEW map, IsMap(map)
  PROVE  \E u : Gathers(u, map) /\ ValuesOf(map) = u[Len(KeyOrder)]
<1>. DEFINE m == Len(KeyOrder)
            T == Seq(Values)
            step == [n \in 1 .. m |-> [s \in T |->
                       IF KeyOrder[n] \in DOMAIN map.of
                       THEN Append(s, map.of[KeyOrder[n]]) ELSE s]]
            Body(u) == [n \in 0 .. m |->
                          IF n = 0 THEN << >>
                          ELSE IF KeyOrder[n] \in DOMAIN map.of
                          THEN Append(u[n - 1], map.of[KeyOrder[n]])
                          ELSE u[n - 1]]
<1>1. m \in Nat /\ << >> \in T
  BY IpldAssumption
<1>2. map.of \in [DOMAIN map.of -> Values]
  BY DEF IsMap
<1>3. step \in [1 .. m -> [T -> T]]
  <2>1. ASSUME NEW n \in 1 .. m, NEW s \in T
        PROVE  (IF KeyOrder[n] \in DOMAIN map.of
                THEN Append(s, map.of[KeyOrder[n]]) ELSE s) \in T
    <3>1. CASE KeyOrder[n] \in DOMAIN map.of
      <4>1. map.of[KeyOrder[n]] \in Values
        BY <1>2, <3>1
      <4>. QED  BY <3>1, <4>1
    <3>. QED  BY <3>1
  <2>. HIDE DEF T, m
  <2>. QED  BY <2>1
<1>4. PICK f : Iterates(f, m, T, << >>, step)
  <2>. HIDE DEF m, T, step
  <2>. QED  BY <1>1, <1>3, Iteration
<1>5. /\ f \in [0 .. m -> T] /\ f[0] = << >>
      /\ \A n \in 1 .. m : f[n] = IF KeyOrder[n] \in DOMAIN map.of
                                THEN Append(f[n - 1], map.of[KeyOrder[n]]) ELSE f[n - 1]
  <2>1. f \in [0 .. m -> T] /\ f[0] = << >> /\ \A n \in 1 .. m : f[n] = step[n][f[n - 1]]
    BY <1>4 DEF Iterates
  <2>2. ASSUME NEW n \in 1 .. m
        PROVE  f[n] = IF KeyOrder[n] \in DOMAIN map.of
                      THEN Append(f[n - 1], map.of[KeyOrder[n]]) ELSE f[n - 1]
    <3>1. n - 1 \in 0 .. m
      BY <1>1
    <3>2. f[n - 1] \in T
      BY <2>1, <3>1
    <3>3. step[n][f[n - 1]] = IF KeyOrder[n] \in DOMAIN map.of
                              THEN Append(f[n - 1], map.of[KeyOrder[n]]) ELSE f[n - 1]
      BY <3>2, Zenon
    <3>. QED  BY <2>1, <3>3
  <2>. QED  BY <2>1, <2>2
<1>. HIDE DEF m, T, step
<1>6. f = Body(f)
  <2>1. \A n \in 0 .. m : f[n] = Body(f)[n]
    <3>1. ASSUME NEW n \in 0 .. m
          PROVE  Body(f)[n] = IF n = 0 THEN << >>
                              ELSE IF KeyOrder[n] \in DOMAIN map.of
                              THEN Append(f[n - 1], map.of[KeyOrder[n]]) ELSE f[n - 1]
      BY Zenon
    <3>2. \A n \in 0 .. m : n = 0 \/ n \in 1 .. m
      BY <1>1
    <3>. HIDE DEF Body
    <3>. QED  BY <1>1, <1>5, <3>1, <3>2
  <2>2. f = [n \in 0 .. m |-> f[n]]
    BY <1>5
  <2>3. Body(f) = [n \in 0 .. m |-> Body(f)[n]]
    OBVIOUS
  <2>. HIDE DEF Body
  <2>. QED  BY <2>1, <2>2, <2>3
<1>. DEFINE u == CHOOSE g : g = Body(g)
<1>7. u = Body(u)
  BY <1>6
<1>8. ValuesOf(map) = u[m]
  BY Zenon DEF ValuesOf, m
<1>. HIDE DEF u
<1>9. /\ u[0] = << >>
      /\ \A n \in 1 .. m : u[n] = IF KeyOrder[n] \in DOMAIN map.of
                                THEN Append(u[n - 1], map.of[KeyOrder[n]]) ELSE u[n - 1]
  <2>. DEFINE g == Body(u)
  <2>1. /\ g[0] = << >>
        /\ \A n \in 1 .. m : g[n] = IF KeyOrder[n] \in DOMAIN map.of
                                  THEN Append(u[n - 1], map.of[KeyOrder[n]]) ELSE u[n - 1]
    BY <1>1
  <2>2. u = g
    BY <1>7
  <2>. HIDE DEF g
  <2>. QED  BY <2>1, <2>2
<1>10. \A n \in 0 .. m : u[n] \in T
  <2>1. u[0] \in T
    BY <1>1, <1>9
  <2>2. ASSUME NEW n \in 0 .. m - 1, u[n] \in T PROVE u[n + 1] \in T
    <3>1. n + 1 \in 1 .. m /\ n + 1 - 1 = n
      BY <1>1
    <3>2. u[n + 1] = IF KeyOrder[n + 1] \in DOMAIN map.of
                     THEN Append(u[n], map.of[KeyOrder[n + 1]]) ELSE u[n]
      BY <1>9, <3>1
    <3>3. KeyOrder[n + 1] \in DOMAIN map.of => map.of[KeyOrder[n + 1]] \in Values
      BY <1>2
    <3>. QED  BY <2>2, <3>2, <3>3 DEF T
  <2>. QED  BY <1>1, <2>1, <2>2, IterationType
<1>11. u \in [0 .. m -> T]
  <2>1. u = [n \in 0 .. m |-> u[n]]
    BY <1>7
  <2>. QED  BY <1>10, <2>1
<1>. QED  BY <1>8, <1>9, <1>11 DEF Gathers, m, T

LEMMA ValuesOfType == ASSUME NEW map, IsMap(map) PROVE ValuesOf(map) \in Seq(Values)
<1>1. PICK u : Gathers(u, map) /\ ValuesOf(map) = u[Len(KeyOrder)]
  BY Gathered
<1>2. Len(KeyOrder) \in 0 .. Len(KeyOrder)
  BY IpldAssumption
<1>. QED  BY <1>1, <1>2 DEF Gathers

\* Sequences with the same values in the same places.
AlikeItems(s, t) ==
  Len(s) = Len(t) /\ \A k \in 1 .. Len(s) : Same[<<s[k], t[k]>>]

LEMMA ValuesOfAlike ==
  ASSUME NEW a, IsMap(a), NEW b, IsMap(b), SameEntries(a, b)
  PROVE  AlikeItems(ValuesOf(a), ValuesOf(b))
<1>1. PICK u : Gathers(u, a) /\ ValuesOf(a) = u[Len(KeyOrder)]
  BY Gathered
<1>2. PICK w : Gathers(w, b) /\ ValuesOf(b) = w[Len(KeyOrder)]
  BY Gathered
<1>. DEFINE m == Len(KeyOrder)
            S == {n \in 0 .. m : AlikeItems(u[n], w[n])}
<1>3. m \in Nat
  BY IpldAssumption
<1>4. 0 \in S
  <2>1. u[0] = << >> /\ w[0] = << >>
    BY <1>1, <1>2 DEF Gathers
  <2>2. AlikeItems(<< >>, << >>)
    BY DEF AlikeItems
  <2>. QED  BY <1>3, <2>1, <2>2
<1>5. ASSUME NEW n \in 0 .. m - 1, n \in S PROVE n + 1 \in S
  <2>. DEFINE key == KeyOrder[n + 1]
              s == u[n]
              t == w[n]
  <2>1. n + 1 \in 1 .. m /\ n + 1 - 1 = n /\ n \in 0 .. m
    BY <1>3
  <2>2. /\ u[n + 1] = IF key \in DOMAIN a.of THEN Append(s, a.of[key]) ELSE s
        /\ s \in Seq(Values)
    BY <1>1, <2>1 DEF Gathers
  <2>3. /\ w[n + 1] = IF key \in DOMAIN b.of THEN Append(t, b.of[key]) ELSE t
        /\ t \in Seq(Values)
    BY <1>2, <2>1 DEF Gathers
  <2>4. AlikeItems(s, t)
    BY <1>5
  <2>. HIDE DEF key, s, t
  <2>5. CASE key \notin DOMAIN a.of
    <3>1. key \notin DOMAIN b.of
      BY <2>5 DEF SameEntries
    <3>2. AlikeItems(u[n + 1], w[n + 1])
      BY <2>2, <2>3, <2>4, <2>5, <3>1
    <3>. QED  BY <3>2, <2>1, <1>3
  <2>6. CASE key \in DOMAIN a.of
    <3>. DEFINE x == a.of[key]
                y == b.of[key]
    <3>1. key \in DOMAIN b.of /\ Same[<<x, y>>]
      BY <2>6 DEF SameEntries
    <3>2. x \in Values /\ y \in Values
      BY <2>6, <3>1 DEF IsMap
    <3>3. u[n + 1] = Append(s, x) /\ w[n + 1] = Append(t, y)
      BY <2>2, <2>3, <2>6, <3>1
    <3>. HIDE DEF x, y
    <3>4. AlikeItems(Append(s, x), Append(t, y))
      <4>1. Len(s) = Len(t) /\ \A k \in 1 .. Len(s) : Same[<<s[k], t[k]>>]
        BY <2>4 DEF AlikeItems
      <4>2. Len(Append(s, x)) = Len(s) + 1 /\ Len(Append(t, y)) = Len(t) + 1 /\ Len(s) \in Nat
        BY <2>2, <2>3, <3>2
      <4>3. ASSUME NEW k \in 1 .. Len(s) + 1
            PROVE  Same[<<Append(s, x)[k], Append(t, y)[k]>>]
        <5>1. CASE k = Len(s) + 1
          <6>1. Append(s, x)[k] = x /\ Append(t, y)[k] = y
            BY <2>2, <2>3, <3>2, <4>1, <5>1
          <6>. QED  BY <3>1, <6>1
        <5>2. CASE k # Len(s) + 1
          <6>1. k \in 1 .. Len(s)
            BY <4>2, <5>2
          <6>2. Append(s, x)[k] = s[k] /\ Append(t, y)[k] = t[k]
            BY <2>2, <2>3, <3>2, <4>1, <6>1
          <6>. QED  BY <4>1, <6>1, <6>2
        <5>. QED  BY <5>1, <5>2
      <4>. QED  BY <4>1, <4>2, <4>3 DEF AlikeItems
    <3>5. AlikeItems(u[n + 1], w[n + 1])
      BY <3>3, <3>4, Zenon
    <3>. QED  BY <3>5, <2>1, <1>3
  <2>. QED  BY <2>5, <2>6
<1>. HIDE DEF S
<1>6. 0 .. m \subseteq S
  BY <1>3, <1>4, <1>5, InductionUpTo
<1>7. m \in S
  BY <1>3, <1>6
<1>. QED  BY <1>1, <1>2, <1>7 DEF S

----------------------------------------------------------------------------
(* Positions.                                                              *)

\* Place k is at position at or after it.
FromOn(len, k, at) == IF at < 0 THEN k - len >= at ELSE k >= at

LEMMA IndexIsPosition ==
  ASSUME NEW len \in Nat, NEW at \in Int
  PROVE  \/ Index(len, at) = None
         \/ /\ Index(len, at) \in 0 .. len - 1
            /\ FromOn(len, Index(len, at), at) /\ ~FromOn(len, Index(len, at) - 1, at)
<1>1. CASE at < 0 /\ -at <= len
  <2>1. Index(len, at) = len + at
    BY <1>1 DEF Index
  <2>. QED  BY <1>1, <2>1 DEF FromOn
<1>2. CASE ~(at < 0) /\ at < len
  <2>1. Index(len, at) = at
    BY <1>2 DEF Index
  <2>. QED  BY <1>2, <2>1 DEF FromOn
<1>3. CASE (at < 0 /\ ~(-at <= len)) \/ (~(at < 0) /\ ~(at < len))
  BY <1>3, Zenon DEF Index
<1>. QED  BY <1>1, <1>2, <1>3, Zenon

LEMMA BoundsAreOrdered ==
  ASSUME NEW len \in Nat, NEW from \in Int \cup {None}, NEW to \in Int \cup {None}
  PROVE  \E first \in 0 .. len : \E last \in first .. len : Bounds(len, from, to) = <<first, last>>
<1>. DEFINE start == IF from = None THEN 0 ELSE Clamp(len, from)
            end == IF to = None THEN len ELSE Clamp(len, to)
            last == IF end < start THEN start ELSE end
<1>1. start \in 0 .. len /\ end \in 0 .. len
  BY DEF Clamp
<1>2. last \in start .. len
  BY <1>1
<1>3. Bounds(len, from, to) = <<start, last>>
  BY DEF Bounds
<1>. QED  BY <1>1, <1>2, <1>3

IsSlice(v, from, to, first, last) ==
  /\ Bounds(Len(v.items), from, to) = <<first, last>>
  /\ SliceOf(v, from, to) = [v EXCEPT !.items = SubSeq(v.items, first + 1, last)]

LEMMA SliceIsPart ==
  ASSUME NEW v, IsList(v) \/ IsBytes(v),
         NEW from \in Int \cup {None}, NEW to \in Int \cup {None}
  PROVE  \E first \in 0 .. Len(v.items) : \E last \in first .. Len(v.items) :
           IsSlice(v, from, to, first, last)
<1>1. Len(v.items) \in Nat
  BY DEF IsList, IsBytes
<1>2. PICK first \in 0 .. Len(v.items) : \E last \in first .. Len(v.items) :
        Bounds(Len(v.items), from, to) = <<first, last>>
  BY <1>1, BoundsAreOrdered
<1>3. PICK last \in first .. Len(v.items) : Bounds(Len(v.items), from, to) = <<first, last>>
  BY <1>2
<1>4. first <= last
  BY <1>1
<1>5. SliceOf(v, from, to) = [v EXCEPT !.items = SubSeq(v.items, first + 1, last)]
  BY <1>3, <1>4 DEF SliceOf
<1>. QED  BY <1>3, <1>5 DEF IsSlice

----------------------------------------------------------------------------
(* One segment.                                                            *)

LEMMA SegmentKinds ==
  ASSUME NEW s, IsSegment(s)
  PROVE  /\ s.kind \in {"key", "values", "index", "slice"} /\ s.optional \in BOOLEAN
         /\ s.kind = "index" => s.at \in Int
         /\ s.kind = "slice" => s.from \in Int \cup {None} /\ s.to \in Int \cup {None}
<1>1. s.optional \in BOOLEAN /\ s.kind \in {"key", "values", "index", "slice"}
  BY DEF IsSegment
<1>2. ASSUME s.kind = "index" PROVE s.at \in Int
  BY <1>2 DEF IsSegment
<1>3. ASSUME s.kind = "slice" PROVE s.from \in Int \cup {None} /\ s.to \in Int \cup {None}
  BY <1>3 DEF IsSegment
<1>. QED  BY <1>1, <1>2, <1>3

\* Which of its arms a step takes.
LEMMA StepCases ==
  ASSUME NEW v, IsValue(v), NEW s, IsSegment(s)
  PROVE  \/ s.kind = "key" /\ v.kind = "map"
         \/ s.kind = "values" /\ v.kind \in {"list", "map"}
         \/ s.kind = "index" /\ v.kind \in {"list", "bytes"}
         \/ s.kind = "slice" /\ v.kind \in {"list", "bytes"}
         \/ Step(v, s) = Failed
BY Zenon, SegmentKinds, ShapeOf DEF Step

LEMMA KeyStep ==
  ASSUME NEW v, NEW s, s.kind = "key", v.kind = "map"
  PROVE  Step(v, s) = IF s.key \in DOMAIN v.of THEN v.of[s.key] ELSE Null
BY DEF Step

LEMMA ValuesStep ==
  ASSUME NEW v, NEW s, s.kind = "values"
  PROVE  /\ v.kind = "list" => Step(v, s) = v
         /\ v.kind = "map" => Step(v, s) = List(ValuesOf(v))
BY DEF Step

LEMMA IndexStep ==
  ASSUME NEW v, NEW s, s.kind = "index", v.kind \in {"list", "bytes"}
  PROVE  LET at == Index(Len(v.items), s.at)
         IN  Step(v, s) = IF at = None THEN Failed
                          ELSE IF v.kind = "list" THEN v.items[at + 1]
                          ELSE Integer(v.items[at + 1])
BY DEF Step

LEMMA SliceStep ==
  ASSUME NEW v, NEW s, s.kind = "slice", v.kind \in {"list", "bytes"}
  PROVE  Step(v, s) = SliceOf(v, s.from, s.to)
BY DEF Step

LEMMA SliceIsThing ==
  ASSUME NEW v, IsList(v) \/ IsBytes(v),
         NEW from, NEW to, NEW first \in 0 .. Len(v.items), NEW last \in first .. Len(v.items),
         IsSlice(v, from, to, first, last)
  PROVE  /\ v.kind = "list" =>
              /\ SubSeq(v.items, first + 1, last) \in Seq(Values)
              /\ SliceOf(v, from, to) = List(SubSeq(v.items, first + 1, last))
         /\ v.kind = "bytes" =>
              /\ SubSeq(v.items, first + 1, last) \in Seq(Octets)
              /\ SliceOf(v, from, to) = Bytes(SubSeq(v.items, first + 1, last))
<1>1. Len(v.items) \in Nat
  BY DEF IsList, IsBytes
<1>. DEFINE part == SubSeq(v.items, first + 1, last)
<1>4. ASSUME v.kind = "list" PROVE part \in Seq(Values) /\ [v EXCEPT !.items = part] = List(part)
  <2>1. v = List(v.items) /\ v.items \in Seq(Values)
    BY <1>4 DEF IsList, IsBytes
  <2>2. part \in Seq(Values)
    BY <2>1, <1>1
  <2>. HIDE DEF part
  <2>3. [v EXCEPT !.items = part] = List(part)
    BY <2>1 DEF List
  <2>. QED  BY <2>2, <2>3
<1>5. ASSUME v.kind = "bytes" PROVE part \in Seq(Octets) /\ [v EXCEPT !.items = part] = Bytes(part)
  <2>1. v = Bytes(v.items) /\ v.items \in Seq(Octets)
    BY <1>5 DEF IsList, IsBytes, Octets
  <2>2. part \in Seq(Octets)
    BY <2>1, <1>1
  <2>. HIDE DEF part
  <2>3. [v EXCEPT !.items = part] = Bytes(part)
    BY <2>1 DEF Bytes
  <2>. QED  BY <2>2, <2>3
<1>. QED  BY <1>4, <1>5 DEF IsSlice

LEMMA StepIsOutcome ==
  ASSUME NEW v \in Things, NEW s, IsSegment(s)
  PROVE  Step(v, s) \in Outcomes
<1>1. IsValue(v)
  BY ThingIsValue
<1>2. CASE s.kind = "key" /\ v.kind = "map"
  <2>1. IsMap(v)
    BY <1>1, <1>2, ShapeOf
  <2>2. s.key \in DOMAIN v.of => v.of[s.key] \in Values
    BY <2>1 DEF IsMap
  <2>. QED  BY <1>2, <2>2, KeyStep, ValuesAssumption DEF Outcomes, Things
<1>3. CASE s.kind = "values" /\ v.kind = "list"
  BY <1>3, ValuesStep DEF Outcomes
<1>4. CASE s.kind = "values" /\ v.kind = "map"
  <2>1. ValuesOf(v) \in Seq(Values)
    BY <1>1, <1>4, ShapeOf, ValuesOfType
  <2>2. List(ValuesOf(v)) \in Things
    BY <2>1 DEF Things
  <2>. QED  BY <1>4, <2>2, ValuesStep DEF Outcomes
<1>5. CASE s.kind = "index" /\ v.kind \in {"list", "bytes"}
  <2>. DEFINE at == Index(Len(v.items), s.at)
  <2>1. Len(v.items) \in Nat
    BY <1>1, <1>5, ShapeOf DEF IsList, IsBytes
  <2>2. at = None \/ at \in 0 .. Len(v.items) - 1
    BY <1>5, <2>1, SegmentKinds, IndexIsPosition
  <2>3. Step(v, s) = IF at = None THEN Failed
                     ELSE IF v.kind = "list" THEN v.items[at + 1] ELSE Integer(v.items[at + 1])
    BY <1>5, IndexStep
  <2>. HIDE DEF at
  <2>4. ASSUME at # None, v.kind = "list" PROVE v.items[at + 1] \in Values
    <3>1. v.items \in Seq(Values)
      BY <1>1, <2>4, ShapeOf DEF IsList
    <3>2. at + 1 \in 1 .. Len(v.items)
      BY <2>1, <2>2, <2>4
    <3>. QED  BY <3>1, <3>2
  <2>5. ASSUME at # None, v.kind = "bytes" PROVE Integer(v.items[at + 1]) \in Values
    <3>1. v.items \in Seq(Octets)
      BY <1>1, <2>5, ShapeOf DEF IsBytes, Octets
    <3>2. at + 1 \in 1 .. Len(v.items)
      BY <2>1, <2>2, <2>5
    <3>3. v.items[at + 1] \in Octets
      BY <3>1, <3>2
    <3>. QED  BY <3>3 DEF Octets
  <2>. QED  BY <1>5, <2>3, <2>4, <2>5 DEF Outcomes, Things
<1>6. CASE s.kind = "slice" /\ v.kind \in {"list", "bytes"}
  <2>1. IsList(v) \/ IsBytes(v)
    BY <1>1, <1>6, ShapeOf
  <2>2. s.from \in Int \cup {None} /\ s.to \in Int \cup {None}
    BY <1>6, SegmentKinds
  <2>3. PICK first \in 0 .. Len(v.items) : \E last \in first .. Len(v.items) :
          IsSlice(v, s.from, s.to, first, last)
    BY <2>1, <2>2, SliceIsPart
  <2>4. PICK last \in first .. Len(v.items) : IsSlice(v, s.from, s.to, first, last)
    BY <2>3
  <2>5. SliceOf(v, s.from, s.to) \in Things
    <3>1. /\ v.kind = "list" =>
               /\ SubSeq(v.items, first + 1, last) \in Seq(Values)
               /\ SliceOf(v, s.from, s.to) = List(SubSeq(v.items, first + 1, last))
          /\ v.kind = "bytes" =>
               /\ SubSeq(v.items, first + 1, last) \in Seq(Octets)
               /\ SliceOf(v, s.from, s.to) = Bytes(SubSeq(v.items, first + 1, last))
      BY <2>1, <2>4, SliceIsThing
    <3>. QED  BY <1>6, <3>1, Zenon DEF Things
  <2>. QED  BY <1>6, <2>5, SliceStep DEF Outcomes
<1>7. CASE Step(v, s) = Failed
  BY <1>7 DEF Outcomes
<1>. QED  BY <1>1, <1>2, <1>3, <1>4, <1>5, <1>6, <1>7, StepCases

AlikeOutcomes(x, y) ==
  \/ x = Failed /\ y = Failed
  \/ x \in Things /\ y \in Things /\ Equal(x, y)

LEMMA NullIsAlike == AlikeOutcomes(Null, Null)
<1>1. Null \in Things /\ IsValue(Null)
  BY ValuesAssumption DEF Things, IsValue
<1>2. EqualInKind(Null, Null)
  BY DEF EqualInKind, Null
<1>. QED  BY <1>1, <1>2, EqualCases DEF AlikeOutcomes

LEMMA SameIsAlikeOutcome ==
  ASSUME NEW x \in Values, NEW y \in Values, Same[<<x, y>>]
  PROVE  AlikeOutcomes(x, y)
BY SameIsAlike DEF AlikeOutcomes, Things, Equal

LEMMA ListsAreAlike ==
  ASSUME NEW s \in Seq(Values), NEW t \in Seq(Values), AlikeItems(s, t)
  PROVE  AlikeOutcomes(List(s), List(t))
<1>1. List(s) \in Things /\ List(t) \in Things
  BY DEF Things
<1>2. SameItems(List(s), List(t))
  BY DEF SameItems, AlikeItems, List
<1>3. EqualInKind(List(s), List(t))
  BY <1>2 DEF EqualInKind, List
<1>. QED  BY <1>1, <1>3, ThingIsValue, EqualCases DEF AlikeOutcomes

LEMMA MapsStepAlike ==
  ASSUME NEW a \in Things, NEW b \in Things, a.kind = "map", b.kind = "map", SameEntries(a, b),
         NEW s, IsSegment(s)
  PROVE  AlikeOutcomes(Step(a, s), Step(b, s))
<1>1. IsValue(a) /\ IsValue(b) /\ IsMap(a) /\ IsMap(b)
  BY ThingIsValue, ShapeOf
<1>2. CASE s.kind = "key" /\ s.key \in DOMAIN a.of
  <2>1. Step(a, s) = a.of[s.key] /\ Step(b, s) = b.of[s.key] /\ Same[<<a.of[s.key], b.of[s.key]>>]
    BY <1>2, KeyStep DEF SameEntries
  <2>2. a.of[s.key] \in Values /\ b.of[s.key] \in Values
    BY <1>1, <1>2 DEF IsMap, SameEntries
  <2>. QED  BY <2>1, <2>2, SameIsAlikeOutcome
<1>3. CASE s.kind = "key" /\ s.key \notin DOMAIN a.of
  <2>1. Step(a, s) = Null /\ Step(b, s) = Null
    BY <1>3, KeyStep DEF SameEntries
  <2>. QED  BY <2>1, NullIsAlike
<1>4. CASE s.kind = "values"
  <2>1. Step(a, s) = List(ValuesOf(a)) /\ Step(b, s) = List(ValuesOf(b))
    BY <1>4, ValuesStep
  <2>2. AlikeItems(ValuesOf(a), ValuesOf(b))
    BY <1>1, ValuesOfAlike
  <2>3. ValuesOf(a) \in Seq(Values) /\ ValuesOf(b) \in Seq(Values)
    BY <1>1, ValuesOfType
  <2>. QED  BY <2>1, <2>2, <2>3, ListsAreAlike
<1>5. CASE s.kind \notin {"key", "values"}
  <2>1. Step(a, s) = Failed /\ Step(b, s) = Failed
    BY <1>1, <1>5, StepCases
  <2>. QED  BY <2>1 DEF AlikeOutcomes
<1>. QED  BY <1>2, <1>3, <1>4, <1>5

LEMMA ListsStepAlike ==
  ASSUME NEW a \in Things, NEW b \in Things, a.kind = "list", b.kind = "list", SameItems(a, b),
         NEW s, IsSegment(s)
  PROVE  AlikeOutcomes(Step(a, s), Step(b, s))
<1>1. IsValue(a) /\ IsValue(b) /\ IsList(a) /\ IsList(b)
  BY ThingIsValue, ShapeOf
<1>2. a.items \in Seq(Values) /\ b.items \in Seq(Values) /\ Len(a.items) = Len(b.items)
  BY <1>1 DEF IsList, SameItems
<1>3. \A k \in 1 .. Len(a.items) : Same[<<a.items[k], b.items[k]>>]
  BY <1>2 DEF SameItems
<1>4. CASE s.kind = "values"
  <2>1. Step(a, s) = a /\ Step(b, s) = b
    BY <1>4, ValuesStep
  <2>2. Equal(a, b)
    BY <1>1, EqualCases DEF EqualInKind
  <2>. QED  BY <2>1, <2>2 DEF AlikeOutcomes
<1>5. CASE s.kind = "index"
  <2>. DEFINE at == Index(Len(a.items), s.at)
  <2>1. /\ Step(a, s) = IF at = None THEN Failed ELSE a.items[at + 1]
        /\ Step(b, s) = IF at = None THEN Failed ELSE b.items[at + 1]
    BY <1>2, <1>5, IndexStep
  <2>2. at = None \/ at \in 0 .. Len(a.items) - 1
    BY <1>2, <1>5, SegmentKinds, IndexIsPosition
  <2>. HIDE DEF at
  <2>3. CASE at = None
    BY <2>1, <2>3 DEF AlikeOutcomes
  <2>4. CASE at # None
    <3>1. at + 1 \in 1 .. Len(a.items)
      BY <1>2, <2>2, <2>4
    <3>2. a.items[at + 1] \in Values /\ b.items[at + 1] \in Values
      BY <1>2, <3>1
    <3>3. Same[<<a.items[at + 1], b.items[at + 1]>>]
      BY <1>3, <3>1
    <3>. QED  BY <2>1, <2>4, <3>2, <3>3, SameIsAlikeOutcome
  <2>. QED  BY <2>3, <2>4
<1>6. CASE s.kind = "slice"
  <2>1. s.from \in Int \cup {None} /\ s.to \in Int \cup {None}
    BY <1>6, SegmentKinds
  <2>2. PICK first \in 0 .. Len(a.items) : \E last \in first .. Len(a.items) :
          IsSlice(a, s.from, s.to, first, last)
    BY <1>1, <2>1, SliceIsPart
  <2>3. PICK last \in first .. Len(a.items) : IsSlice(a, s.from, s.to, first, last)
    BY <2>2
  <2>4. IsSlice(b, s.from, s.to, first, last)
    <3>1. Bounds(Len(b.items), s.from, s.to) = <<first, last>>
      BY <1>2, <2>3 DEF IsSlice
    <3>2. first <= last
      BY <1>2
    <3>. QED  BY <3>1, <3>2 DEF IsSlice, SliceOf
  <2>. DEFINE x == SubSeq(a.items, first + 1, last)
              y == SubSeq(b.items, first + 1, last)
  <2>5. x \in Seq(Values) /\ SliceOf(a, s.from, s.to) = List(x)
    BY <1>1, <2>3, SliceIsThing
  <2>6. y \in Seq(Values) /\ SliceOf(b, s.from, s.to) = List(y)
    <3>1. first \in 0 .. Len(b.items) /\ last \in first .. Len(b.items)
      BY <1>2
    <3>. QED  BY <1>1, <2>4, <3>1, SliceIsThing
  <2>7. AlikeItems(x, y)
    <3>1. /\ Len(x) = last - first /\ Len(y) = last - first
          /\ \A k \in 1 .. last - first : x[k] = a.items[k + first] /\ y[k] = b.items[k + first]
      BY <1>2
    <3>2. \A k \in 1 .. last - first : k + first \in 1 .. Len(a.items)
      BY <1>2
    <3>. HIDE DEF x, y
    <3>. QED  BY <1>3, <3>1, <3>2 DEF AlikeItems
  <2>8. Step(a, s) = List(x) /\ Step(b, s) = List(y)
    BY <1>6, <2>5, <2>6, SliceStep
  <2>. HIDE DEF x, y
  <2>. QED  BY <2>5, <2>6, <2>7, <2>8, ListsAreAlike
<1>7. CASE s.kind = "key"
  <2>1. Step(a, s) = Failed /\ Step(b, s) = Failed
    BY <1>1, <1>7, StepCases
  <2>. QED  BY <2>1 DEF AlikeOutcomes
<1>. QED  BY <1>4, <1>5, <1>6, <1>7, SegmentKinds

\* A byte string has only parts that equal themselves.
LEMMA BytesStepAlike ==
  ASSUME NEW a \in Things, a.kind \in {"null", "string", "bytes"}, NEW s, IsSegment(s)
  PROVE  AlikeOutcomes(Step(a, s), Step(a, s))
<1>1. IsValue(a) /\ Step(a, s) \in Outcomes
  BY ThingIsValue, StepIsOutcome
<1>2. CASE Step(a, s) = Failed
  BY <1>2 DEF AlikeOutcomes
<1>3. CASE Step(a, s) # Failed
  <2>1. a.kind = "bytes" /\ s.kind \in {"index", "slice"} /\ IsBytes(a)
    BY <1>1, <1>3, StepCases, ShapeOf
  <2>2. Step(a, s) \in Things /\ IsValue(Step(a, s))
    BY <1>1, <1>3, ThingIsValue DEF Outcomes
  <2>3. Step(a, s).kind \in {"integer", "bytes"}
    <3>1. CASE s.kind = "index"
      <4>1. \E n : Step(a, s) = Integer(n)
        BY <1>3, <2>1, <3>1, IndexStep
      <4>. QED  BY <4>1 DEF Integer
    <3>2. CASE s.kind = "slice"
      <4>1. s.from \in Int \cup {None} /\ s.to \in Int \cup {None}
        BY <3>2, SegmentKinds
      <4>2. PICK first \in 0 .. Len(a.items) : \E last \in first .. Len(a.items) :
              IsSlice(a, s.from, s.to, first, last)
        BY <2>1, <4>1, SliceIsPart
      <4>3. PICK last \in first .. Len(a.items) : IsSlice(a, s.from, s.to, first, last)
        BY <4>2
      <4>4. SliceOf(a, s.from, s.to) = Bytes(SubSeq(a.items, first + 1, last))
        BY <2>1, <4>3, SliceIsThing
      <4>. QED  BY <2>1, <3>2, <4>4, SliceStep DEF Bytes
    <3>. QED  BY <2>1, <3>1, <3>2
  <2>4. EqualInKind(Step(a, s), Step(a, s))
    BY <2>3 DEF EqualInKind, IsNumber
  <2>. QED  BY <2>2, <2>4, EqualCases DEF AlikeOutcomes
<1>. QED  BY <1>2, <1>3

LEMMA StepsAlike ==
  ASSUME NEW a \in Things, NEW b \in Things, Equal(a, b), NEW s, IsSegment(s)
  PROVE  AlikeOutcomes(Step(a, s), Step(b, s))
<1>1. IsValue(a) /\ IsValue(b) /\ EqualInKind(a, b)
  BY ThingIsValue, EqualCases
<1>2. CASE IsNumber(a) /\ IsNumber(b)
  <2>1. Step(a, s) = Failed /\ Step(b, s) = Failed
    BY <1>1, <1>2, StepCases DEF IsNumber
  <2>. QED  BY <2>1 DEF AlikeOutcomes
<1>3. CASE a.kind = "list" /\ b.kind = "list" /\ SameItems(a, b)
  BY <1>3, ListsStepAlike
<1>4. CASE a.kind = "map" /\ b.kind = "map" /\ SameEntries(a, b)
  BY <1>4, MapsStepAlike
<1>5. CASE a.kind \in {"null", "string", "bytes"} /\ a = b
  BY <1>5, BytesStepAlike
<1>. QED  BY <1>1, <1>2, <1>3, <1>4, <1>5 DEF EqualInKind

----------------------------------------------------------------------------
(* Resolution.                                                             *)

IsSelector(segments) ==
  /\ Len(segments) \in Nat /\ DOMAIN segments = 1 .. Len(segments)
  /\ \A k \in 1 .. Len(segments) : IsSegment(segments[k])

LEMMA SelectorsAreTyped == \A sel \in Selectors : IsSelector(SelectorOf[sel])
<1>. SUFFICES ASSUME NEW sel \in Selectors PROVE IsSelector(SelectorOf[sel])
  OBVIOUS
<1>. DEFINE segments == SelectorOf[sel]
            S == {segments[k] : k \in DOMAIN segments}
<1>1. segments \in Seq(S) /\ \A s \in S : IsSegment(s)
  BY PolicyAssumption, Zenon
<1>2. Len(segments) \in Nat /\ DOMAIN segments = 1 .. Len(segments)
  <2>. HIDE DEF S, segments
  <2>. QED  BY <1>1
<1>3. \A k \in DOMAIN segments : segments[k] \in S
  OBVIOUS
<1>. HIDE DEF S
<1>. QED  BY <1>1, <1>2, <1>3 DEF IsSelector

Results == {r \in [value : Outcomes, done : BOOLEAN] : r.value = Failed => r.done}

LEMMA TurnIsResult ==
  ASSUME NEW r \in Results, NEW s, IsSegment(s)
  PROVE  Turn(r, s) \in Results
<1>1. CASE r.done
  BY <1>1 DEF Turn
<1>2. CASE ~r.done
  <2>1. r.value \in Things
    BY <1>2 DEF Results, Outcomes
  <2>2. Step(r.value, s) \in Outcomes
    BY <2>1, StepIsOutcome
  <2>3. Null \in Outcomes /\ Null # Failed /\ Failed \in Outcomes
    BY ValuesAssumption DEF Outcomes, Things, Null, Failed
  <2>. DEFINE next == Step(r.value, s)
  <2>4. Turn(r, s) = IF next # Failed THEN [value |-> next, done |-> FALSE]
                     ELSE [value |-> IF s.optional THEN Null ELSE Failed, done |-> TRUE]
    BY <1>2 DEF Turn
  <2>. HIDE DEF next
  <2>5. next \in Outcomes
    BY <2>2 DEF next
  <2>. QED  BY <2>3, <2>4, <2>5 DEF Results
<1>. QED  BY <1>1, <1>2

\* The results after each segment.
Follows(after, segments, root) ==
  /\ after \in [0 .. Len(segments) -> Results]
  /\ after[0] = [value |-> root, done |-> FALSE]
  /\ \A n \in 1 .. Len(segments) : after[n] = Turn(after[n - 1], segments[n])

LEMMA Followed ==
  ASSUME NEW segments, IsSelector(segments), NEW root \in Things
  PROVE  \E after : Follows(after, segments, root)
                     /\ Resolve(segments, root) = after[Len(segments)].value
<1>. DEFINE m == Len(segments)
            start == [value |-> root, done |-> FALSE]
            step == [n \in 1 .. m |-> [r \in Results |-> Turn(r, segments[n])]]
            Body(a) == [n \in 0 .. m |-> IF n = 0 THEN [value |-> root, done |-> FALSE]
                                         ELSE Turn(a[n - 1], segments[n])]
<1>1. m \in Nat
  BY DEF IsSelector
<1>2. start \in Results
  BY FailedIsNoThing DEF Results, Outcomes
<1>3. \A n \in 1 .. m : \A r \in Results : Turn(r, segments[n]) \in Results
  BY TurnIsResult DEF IsSelector
<1>4. step \in [1 .. m -> [Results -> Results]]
  BY <1>3
<1>5. PICK f : Iterates(f, m, Results, start, step)
  <2>. HIDE DEF m, start, step
  <2>. QED  BY <1>1, <1>2, <1>4, Iteration
<1>6. f \in [0 .. m -> Results] /\ f[0] = start /\ \A n \in 1 .. m : f[n] = step[n][f[n - 1]]
  BY <1>5 DEF Iterates
<1>7. \A n \in 1 .. m : f[n] = Turn(f[n - 1], segments[n])
  <2>1. ASSUME NEW n \in 1 .. m PROVE f[n] = Turn(f[n - 1], segments[n])
    <3>1. f[n - 1] \in Results
      BY <1>1, <1>6
    <3>2. step[n][f[n - 1]] = Turn(f[n - 1], segments[n])
      BY <3>1, Zenon
    <3>. QED  BY <1>6, <3>2
  <2>. QED  BY <2>1
<1>8. f = Body(f)
  <2>1. ASSUME NEW n \in 0 .. m PROVE f[n] = Body(f)[n]
    <3>1. Body(f)[n] = IF n = 0 THEN start ELSE Turn(f[n - 1], segments[n])
      BY Zenon
    <3>2. n = 0 \/ n \in 1 .. m
      BY <1>1
    <3>. HIDE DEF Body, start
    <3>. QED  BY <1>1, <1>6, <1>7, <3>1, <3>2
  <2>2. f = [n \in 0 .. m |-> f[n]]
    BY <1>6
  <2>3. Body(f) = [n \in 0 .. m |-> Body(f)[n]]
    OBVIOUS
  <2>. HIDE DEF Body
  <2>. QED  BY <2>1, <2>2, <2>3
<1>. DEFINE after == CHOOSE a : a = Body(a)
<1>9. after = Body(after)
  BY <1>8
<1>10. Resolve(segments, root) = after[m].value
  BY Zenon DEF Resolve, m
<1>. HIDE DEF after, start, step, m
<1>11. /\ after[0] = start
       /\ \A n \in 1 .. m : after[n] = Turn(after[n - 1], segments[n])
  <2>. DEFINE g == Body(after)
  <2>1. g[0] = start /\ \A n \in 1 .. m : g[n] = Turn(after[n - 1], segments[n])
    BY <1>1 DEF start
  <2>2. after = g
    BY <1>9
  <2>. HIDE DEF g
  <2>. QED  BY <2>1, <2>2
<1>12. \A n \in 0 .. m : after[n] \in Results
  <2>1. ASSUME NEW n \in 0 .. m - 1, after[n] \in Results PROVE after[n + 1] \in Results
    <3>1. n + 1 \in 1 .. m /\ n + 1 - 1 = n
      BY <1>1
    <3>2. after[n + 1] = Turn(after[n], segments[n + 1])
      BY <1>11, <3>1
    <3>. QED  BY <1>3, <2>1, <3>1, <3>2
  <2>2. after[0] \in Results
    BY <1>2, <1>11
  <2>. QED  BY <1>1, <2>1, <2>2, IterationType
<1>13. after \in [0 .. m -> Results]
  <2>1. after = [n \in 0 .. m |-> after[n]]
    BY <1>9
  <2>. QED  BY <1>12, <2>1
<1>. QED  BY <1>10, <1>11, <1>13 DEF Follows, m, start

LEMMA ResolvesToOutcome ==
  ASSUME NEW segments, IsSelector(segments), NEW root \in Things
  PROVE  Resolve(segments, root) \in Outcomes
<1>1. PICK after : Follows(after, segments, root)
                   /\ Resolve(segments, root) = after[Len(segments)].value
  BY Followed
<1>2. after[Len(segments)] \in Results
  BY <1>1 DEF Follows, IsSelector
<1>. QED  BY <1>1, <1>2 DEF Results

AlikeResults(q, r) == q.done = r.done /\ AlikeOutcomes(q.value, r.value)

LEMMA TurnsAlike ==
  ASSUME NEW q \in Results, NEW r \in Results, AlikeResults(q, r), NEW s, IsSegment(s)
  PROVE  AlikeResults(Turn(q, s), Turn(r, s))
<1>1. CASE q.done
  BY <1>1 DEF Turn, AlikeResults
<1>2. CASE ~q.done
  <2>. DEFINE x == Step(q.value, s)
              y == Step(r.value, s)
  <2>1. q.value # Failed /\ r.done = q.done
    BY <1>2 DEF Results, AlikeResults
  <2>2. q.value \in Things /\ r.value \in Things /\ Equal(q.value, r.value)
    BY <2>1 DEF AlikeResults, AlikeOutcomes
  <2>3. AlikeOutcomes(x, y)
    BY <2>2, StepsAlike
  <2>4. /\ Turn(q, s) = IF x # Failed THEN [value |-> x, done |-> FALSE]
                        ELSE [value |-> IF s.optional THEN Null ELSE Failed, done |-> TRUE]
        /\ Turn(r, s) = IF y # Failed THEN [value |-> y, done |-> FALSE]
                        ELSE [value |-> IF s.optional THEN Null ELSE Failed, done |-> TRUE]
    BY <1>2, <2>1 DEF Turn
  <2>. HIDE DEF x, y
  <2>5. x = Failed <=> y = Failed
    BY <2>3, FailedIsNoThing DEF AlikeOutcomes
  <2>6. AlikeOutcomes(Failed, Failed)
    BY DEF AlikeOutcomes
  <2>. QED  BY <2>3, <2>4, <2>5, <2>6, NullIsAlike DEF AlikeResults
<1>. QED  BY <1>1, <1>2

LEMMA ResolvesAlike ==
  ASSUME NEW segments, IsSelector(segments), NEW a \in Things, NEW b \in Things, Equal(a, b)
  PROVE  AlikeOutcomes(Resolve(segments, a), Resolve(segments, b))
<1>1. PICK f : Follows(f, segments, a) /\ Resolve(segments, a) = f[Len(segments)].value
  BY Followed
<1>2. PICK g : Follows(g, segments, b) /\ Resolve(segments, b) = g[Len(segments)].value
  BY Followed
<1>. DEFINE m == Len(segments)
            S == {n \in 0 .. m : AlikeResults(f[n], g[n])}
<1>3. m \in Nat
  BY DEF IsSelector
<1>4. 0 \in S
  <2>1. f[0] = [value |-> a, done |-> FALSE] /\ g[0] = [value |-> b, done |-> FALSE]
    BY <1>1, <1>2 DEF Follows
  <2>2. AlikeOutcomes(a, b)
    BY DEF AlikeOutcomes
  <2>3. AlikeResults(f[0], g[0])
    BY <2>1, <2>2 DEF AlikeResults
  <2>. QED  BY <1>3, <2>3
<1>5. ASSUME NEW n \in 0 .. m - 1, n \in S PROVE n + 1 \in S
  <2>1. n + 1 \in 1 .. m /\ n + 1 - 1 = n /\ n \in 0 .. m
    BY <1>3
  <2>2. f[n + 1] = Turn(f[n], segments[n + 1]) /\ f[n] \in Results
    BY <1>1, <2>1 DEF Follows
  <2>3. g[n + 1] = Turn(g[n], segments[n + 1]) /\ g[n] \in Results
    BY <1>2, <2>1 DEF Follows
  <2>4. IsSegment(segments[n + 1]) /\ AlikeResults(f[n], g[n])
    BY <1>5, <2>1 DEF IsSelector
  <2>5. AlikeResults(f[n + 1], g[n + 1])
    BY <2>2, <2>3, <2>4, TurnsAlike
  <2>. QED  BY <1>3, <2>1, <2>5
<1>. HIDE DEF S
<1>6. 0 .. m \subseteq S
  BY <1>3, <1>4, <1>5, InductionUpTo
<1>7. m \in S
  BY <1>3, <1>6
<1>. QED  BY <1>1, <1>2, <1>7 DEF S, AlikeResults

----------------------------------------------------------------------------
(* What was checked, and how.                                              *)

EvalInv ==
  /\ wire # None => wire \in Wires /\ policy = PolicyOf(wire)
  /\ args # None => args \in Arguments /\ Parsed /\ verdict = FirstFailing(policy, args)

LEMMA EvalInvHolds == Spec => []EvalInv
<1>1. Init => EvalInv
  BY DEF Init, EvalInv
<1>2. ASSUME EvalInv, [Next]_vars PROVE EvalInv'
  <2>1. CASE UNCHANGED vars
    BY <1>2, <2>1 DEF vars, EvalInv, Parsed
  <2>2. ASSUME NEW w \in Wires, Load(w) PROVE EvalInv'
    <3>1. args = None
      BY <1>2, <2>2 DEF Load, EvalInv, Parsed
    <3>. QED  BY <2>2, <3>1 DEF Load, EvalInv
  <2>3. ASSUME NEW v \in Arguments, Check(v) PROVE EvalInv'
    BY <1>2, <2>3 DEF Check, EvalInv, Parsed
  <2>. QED  BY <1>2, <2>1, <2>2, <2>3 DEF Next
<1>. QED  BY <1>1, <1>2, PTL DEF Spec

LEMMA ArgumentsAreThings ==
  ASSUME EvalInv, args # None
  PROVE  /\ args \in Values /\ args \in Things
         /\ \A sel \in Selectors : Found(sel, args) \in Outcomes
<1>1. args \in Values /\ args \in Things
  BY PolicyAssumption, Zenon DEF EvalInv, Things
<1>2. ASSUME NEW sel \in Selectors PROVE Found(sel, args) \in Outcomes
  BY <1>1, SelectorsAreTyped, ResolvesToOutcome DEF Found
<1>. QED  BY <1>1, <1>2

\* A leaf says what its selector finds.
LEMMA LeavesMeet ==
  ASSUME NEW st, NEW v, st.op \notin Connectives \cup Quantifiers \cup {"not"}
  PROVE  Holds(st, v) <=> Meets(st.op, Found(st.sel, v), st.operand)
BY Zenon DEF Holds, Decides, Connectives, Quantifiers

LEMMA FoundIsValue ==
  \A found \in Outcomes : IsNumber(found) => found # Failed /\ IsValue(found)
BY ThingIsValue DEF Outcomes, IsNumber, Failed

LEMMA AcceptedByValue ==
  ASSUME NEW a \in Int, NEW b \in Int, NEW op \in Comparisons
  PROVE  Cmp(a, b) \in Accepted(op) <=> IsByValue(op, a, b)
<1>1. CASE op = "<"
  BY <1>1 DEF Cmp, IsByValue, Accepted
<1>2. CASE op = "<="
  BY <1>2 DEF Cmp, IsByValue, Accepted
<1>3. CASE op = ">"
  BY <1>3 DEF Cmp, IsByValue, Accepted
<1>4. CASE op = ">="
  BY <1>4 DEF Cmp, IsByValue, Accepted
<1>. QED  BY <1>1, <1>2, <1>3, <1>4 DEF Comparisons

LEMMA ComparedByValue ==
  ASSUME NEW found \in Outcomes, NEW n \in Numbers, NEW op \in Comparisons \cup {"=="}
  PROVE  Meets(op, found, n) <=> IsNumber(found) /\ IsByValue(op, Twice(found), Twice(n))
<1>1. IsValue(n) /\ IsNumber(n)
  BY PolicyAssumption, ValuesAssumption
<1>2. CASE op = "=="
  <2>1. Meets(op, found, n) <=> found # Failed /\ Equal(found, n)
    BY <1>2, Zenon DEF Meets, Comparisons
  <2>2. IsByValue(op, Twice(found), Twice(n)) <=> Twice(found) = Twice(n)
    BY <1>2, Zenon DEF IsByValue
  <2>3. n.kind \in {"integer", "float"}
    BY <1>1 DEF IsNumber
  <2>4. CASE found = Failed
    BY <2>1, <2>4 DEF IsNumber, Failed
  <2>5. CASE found # Failed
    <3>1. IsValue(found)
      BY <2>5, ThingIsValue DEF Outcomes
    <3>2. Equal(found, n) <=> EqualInKind(found, n)
      BY <1>1, <3>1, EqualCases
    <3>3. EqualInKind(found, n) <=> IsNumber(found) /\ Twice(found) = Twice(n)
      BY <1>1, <2>3 DEF EqualInKind, IsNumber
    <3>. QED  BY <2>1, <2>2, <2>5, <3>2, <3>3
  <2>. QED  BY <2>4, <2>5
<1>3. CASE op \in Comparisons
  <2>1. Meets(op, found, n) <=> IsNumber(found) /\ Order(found, n) \in Accepted(op)
    BY <1>3, Zenon DEF Meets, Compares, Comparisons
  <2>2. ASSUME IsNumber(found)
        PROVE  Order(found, n) \in Accepted(op) <=> IsByValue(op, Twice(found), Twice(n))
    <3>1. /\ Twice(found) \in Int /\ Twice(n) \in Int
          /\ Order(found, n) = Cmp(Twice(found), Twice(n))
      BY <1>1, <2>2, FoundIsValue, OrderedByValue
    <3>. QED  BY <1>3, <3>1, AcceptedByValue
  <2>. QED  BY <2>1, <2>2
<1>. QED  BY <1>2, <1>3

\* OrderIsByValue: numbers of any size compare by value in every comparison,
\* though an integer beyond 2 ^ 53 is no float and floats are rounded to.
THEOREM NumbersCompareByValue == Spec => []OrderIsByValue
<1>1. EvalInv => OrderIsByValue
  <2>. SUFFICES ASSUME EvalInv, args # None, NEW sel \in Selectors, NEW n \in Numbers,
                       NEW op \in Comparisons \cup {"=="}
                PROVE  Holds([op |-> op, sel |-> sel, operand |-> n], args)
                         <=> /\ IsNumber(Found(sel, args))
                             /\ IsByValue(op, Twice(Found(sel, args)), Twice(n))
    BY Zenon DEF OrderIsByValue
  <2>. DEFINE st == [op |-> op, sel |-> sel, operand |-> n]
  <2>1. st.op = op /\ st.sel = sel /\ st.operand = n
    OBVIOUS
  <2>2. op \notin Connectives \cup Quantifiers \cup {"not"}
    BY DEF Comparisons, Connectives, Quantifiers
  <2>. HIDE DEF st
  <2>3. Holds(st, args) <=> Meets(op, Found(sel, args), n)
    BY <2>1, <2>2, LeavesMeet
  <2>4. Found(sel, args) \in Outcomes
    BY ArgumentsAreThings
  <2>. QED  BY <2>3, <2>4, ComparedByValue DEF st
<1>. QED  BY <1>1, EvalInvHolds, PTL

----------------------------------------------------------------------------
(* Positions in a list or a byte string.                                   *)

Between(len, k, from, to) ==
  (from # None => FromOn(len, k, from)) /\ (to # None => ~FromOn(len, k, to))

LEMMA ClampIsPosition ==
  ASSUME NEW len \in Nat, NEW at \in Int, NEW k \in 0 .. len - 1
  PROVE  FromOn(len, k, at) <=> k >= Clamp(len, at)
BY DEF FromOn, Clamp

LEMMA BoundsAreBetween ==
  ASSUME NEW len \in Nat, NEW from \in Int \cup {None}, NEW to \in Int \cup {None},
         NEW first \in 0 .. len, NEW last \in first .. len,
         Bounds(len, from, to) = <<first, last>>
  PROVE  {k \in 0 .. len - 1 : Between(len, k, from, to)} = first .. last - 1
<1>. DEFINE start == IF from = None THEN 0 ELSE Clamp(len, from)
            end == IF to = None THEN len ELSE Clamp(len, to)
<1>1. start \in 0 .. len /\ end \in 0 .. len
  BY DEF Clamp
<1>2. first = start /\ last = IF end < start THEN start ELSE end
  BY DEF Bounds
<1>3. ASSUME NEW k \in 0 .. len - 1
      PROVE  Between(len, k, from, to) <=> start <= k /\ k < end
  <2>0. (to # None => ~FromOn(len, k, to)) <=> k < end
    <3>1. CASE to # None
      <4>1. to \in Int /\ end = Clamp(len, to)
        BY <3>1
      <4>2. FromOn(len, k, to) <=> k >= Clamp(len, to)
        BY <4>1, ClampIsPosition
      <4>. HIDE DEF end
      <4>. QED  BY <1>1, <3>1, <4>1, <4>2
    <3>2. CASE to = None
      BY <3>2
    <3>. QED  BY <3>1, <3>2
  <2>1. CASE from # None
    <3>1. from \in Int /\ (FromOn(len, k, from) <=> k >= Clamp(len, from))
      BY <2>1, ClampIsPosition
    <3>2. FromOn(len, k, from) <=> start <= k
      BY <1>1, <2>1, <3>1
    <3>. HIDE DEF start
    <3>. QED  BY <2>1, <2>0, <3>2 DEF Between
  <2>2. CASE from = None
    <3>. QED  BY <2>2, <2>0, <1>1 DEF Between
  <2>. QED  BY <2>1, <2>2
<1>. HIDE DEF start, end
<1>4. ASSUME NEW k \in 0 .. len - 1
      PROVE  Between(len, k, from, to) <=> k \in first .. last - 1
  BY <1>1, <1>2, <1>3
<1>5. first .. last - 1 \subseteq 0 .. len - 1
  OBVIOUS
<1>. QED  BY <1>4, <1>5

NamedBy(len, k, at) == k = at \/ k - len = at
IndexAt(at) == [kind |-> "index", at |-> at, optional |-> FALSE]

LEMMA IndexNames ==
  ASSUME NEW len \in Nat, NEW at \in Int
  PROVE  /\ \A k \in 0 .. len - 1 : NamedBy(len, k, at) => Index(len, at) = k
         /\ (\A k \in 0 .. len - 1 : ~NamedBy(len, k, at)) => Index(len, at) = None
<1>1. ASSUME NEW k \in 0 .. len - 1, NamedBy(len, k, at) PROVE Index(len, at) = k
  BY <1>1 DEF Index, NamedBy
<1>2. ASSUME \A k \in 0 .. len - 1 : ~NamedBy(len, k, at) PROVE Index(len, at) = None
  <2>1. CASE at < 0 /\ -at <= len
    <3>1. len + at \in 0 .. len - 1 /\ NamedBy(len, len + at, at)
      BY <2>1 DEF NamedBy
    <3>. QED  BY <1>2, <3>1
  <2>2. CASE ~(at < 0) /\ at < len
    <3>1. at \in 0 .. len - 1 /\ NamedBy(len, at, at)
      BY <2>2 DEF NamedBy
    <3>. QED  BY <1>2, <3>1
  <2>3. CASE (at < 0 /\ ~(-at <= len)) \/ (~(at < 0) /\ ~(at < len))
    BY <2>3, Zenon DEF Index
  <2>. QED  BY <2>1, <2>2, <2>3, Zenon
<1>. QED  BY <1>1, <1>2

\* SlicesAreRanges, of the lists and byte strings that arguments hold and of any
\* positions: an index gives the item its position names and fails only where
\* there is none; no slice fails, and none takes an item outside its bounds.
THEOREM SlicesTakeRanges == Spec => []SlicesAreRanges
<1>1. EvalInv => SlicesAreRanges
  <2>. SUFFICES ASSUME EvalInv, args # None, NEW sel \in Selectors,
                       Found(sel, args).kind \in {"list", "bytes"}
                PROVE  LET found == Found(sel, args)
                           len == Len(found.items)
                       IN  /\ \A from, to \in Positions \cup {None} :
                                \E first \in 0 .. len : \E last \in first .. len :
                                /\ {k \in 0 .. len - 1 : Between(len, k, from, to)} = first .. last - 1
                                /\ SliceOf(found, from, to)
                                     = [found EXCEPT !.items = SubSeq(found.items, first + 1, last)]
                           /\ \A at \in Positions :
                                /\ \A k \in 0 .. len - 1 :
                                     NamedBy(len, k, at) =>
                                       Step(found, IndexAt(at)) =
                                         IF found.kind = "list" THEN found.items[k + 1]
                                         ELSE Integer(found.items[k + 1])
                                /\ (\A k \in 0 .. len - 1 : ~NamedBy(len, k, at)) =>
                                     Step(found, IndexAt(at)) = Failed
    BY Zenon DEF SlicesAreRanges, Between, FromOn, NamedBy, IndexAt
  <2>. DEFINE found == Found(sel, args)
              len == Len(found.items)
  <2>1. found \in Things /\ IsValue(found)
    <3>1. found \in Outcomes
      BY ArgumentsAreThings
    <3>. QED  BY <3>1, ThingIsValue DEF Outcomes, Failed
  <2>0. found.kind \in {"list", "bytes"}
    OBVIOUS
  <2>. HIDE DEF found
  <2>2. (IsList(found) \/ IsBytes(found)) /\ len \in Nat
    <3>1. found.kind = "list" => IsList(found)
      BY <2>1, ShapeOf
    <3>2. found.kind = "bytes" => IsBytes(found)
      BY <2>1, ShapeOf
    <3>3. IsList(found) \/ IsBytes(found)
      BY <2>0, <3>1, <3>2
    <3>4. IsList(found) => Len(found.items) \in Nat
      BY DEF IsList
    <3>5. IsBytes(found) => Len(found.items) \in Nat
      BY DEF IsBytes
    <3>. QED  BY <3>3, <3>4, <3>5
  <2>3. ASSUME NEW from \in Positions \cup {None}, NEW to \in Positions \cup {None}
        PROVE  \E first \in 0 .. len : \E last \in first .. len :
                 /\ {k \in 0 .. len - 1 : Between(len, k, from, to)} = first .. last - 1
                 /\ SliceOf(found, from, to)
                      = [found EXCEPT !.items = SubSeq(found.items, first + 1, last)]
    <3>1. from \in Int \cup {None} /\ to \in Int \cup {None}
      BY PolicyAssumption
    <3>2. PICK first \in 0 .. len : \E last \in first .. len : IsSlice(found, from, to, first, last)
      BY <2>2, <3>1, SliceIsPart
    <3>3. PICK last \in first .. len : IsSlice(found, from, to, first, last)
      BY <3>2
    <3>4. Bounds(len, from, to) = <<first, last>>
      BY <3>3 DEF IsSlice
    <3>5. SliceOf(found, from, to) = [found EXCEPT !.items = SubSeq(found.items, first + 1, last)]
      BY <3>3 DEF IsSlice
    <3>. HIDE DEF len
    <3>6. {k \in 0 .. len - 1 : Between(len, k, from, to)} = first .. last - 1
      BY <2>2, <3>1, <3>4, BoundsAreBetween
    <3>. QED  BY <3>5, <3>6
  <2>4. ASSUME NEW at \in Positions
        PROVE  /\ \A k \in 0 .. len - 1 :
                    NamedBy(len, k, at) =>
                      Step(found, IndexAt(at)) = IF found.kind = "list" THEN found.items[k + 1]
                                                 ELSE Integer(found.items[k + 1])
               /\ (\A k \in 0 .. len - 1 : ~NamedBy(len, k, at)) =>
                    Step(found, IndexAt(at)) = Failed
    <3>1. at \in Int /\ IndexAt(at).kind = "index" /\ IndexAt(at).at = at
      BY PolicyAssumption DEF IndexAt
    <3>3. Step(found, IndexAt(at)) =
            IF Index(len, at) = None THEN Failed
            ELSE IF found.kind = "list" THEN found.items[Index(len, at) + 1]
            ELSE Integer(found.items[Index(len, at) + 1])
      BY <2>0, <3>1, IndexStep
    <3>4. \A k \in 0 .. len - 1 : k # None
      BY <2>2, SelectorAssumption
    <3>. HIDE DEF len
    <3>5. /\ \A k \in 0 .. len - 1 : NamedBy(len, k, at) => Index(len, at) = k
          /\ (\A k \in 0 .. len - 1 : ~NamedBy(len, k, at)) => Index(len, at) = None
      BY <2>2, <3>1, IndexNames
    <3>. QED  BY <3>3, <3>4, <3>5
  <2>. QED  BY <2>3, <2>4 DEF found, len
<1>. QED  BY <1>1, EvalInvHolds, PTL

----------------------------------------------------------------------------
(* The first segment that fails.                                           *)

Leads(upto, segments, root) ==
  /\ upto \in [0 .. Len(segments) -> Outcomes]
  /\ upto[0] = root
  /\ \A n \in 1 .. Len(segments) :
       upto[n] = IF upto[n - 1] = Failed THEN Failed ELSE Step(upto[n - 1], segments[n])

LEMMA PathLeads ==
  ASSUME NEW segments, IsSelector(segments), NEW root \in Things
  PROVE  Leads(Path(segments, root), segments, root)
<1>. DEFINE m == Len(segments)
            Onward(x, n) == IF x = Failed THEN Failed ELSE Step(x, segments[n])
            step == [n \in 1 .. m |-> [x \in Outcomes |-> Onward(x, n)]]
            Body(a) == [n \in 0 .. m |->
                          IF n = 0 THEN root
                          ELSE IF a[n - 1] = Failed THEN Failed ELSE Step(a[n - 1], segments[n])]
<1>1. m \in Nat /\ root \in Outcomes
  BY DEF IsSelector, Outcomes
<1>2. \A n \in 1 .. m : \A x \in Outcomes : Onward(x, n) \in Outcomes
  BY StepIsOutcome DEF IsSelector, Outcomes
<1>3. step \in [1 .. m -> [Outcomes -> Outcomes]]
  <2>. HIDE DEF Onward
  <2>. QED  BY <1>2
<1>4. PICK f : Iterates(f, m, Outcomes, root, step)
  <2>. HIDE DEF m, step
  <2>. QED  BY <1>1, <1>3, Iteration
<1>5. f \in [0 .. m -> Outcomes] /\ f[0] = root /\ \A n \in 1 .. m : f[n] = step[n][f[n - 1]]
  BY <1>4 DEF Iterates
<1>6. ASSUME NEW n \in 1 .. m PROVE f[n] = Onward(f[n - 1], n)
  <2>1. f[n - 1] \in Outcomes
    BY <1>1, <1>5
  <2>2. step[n][f[n - 1]] = Onward(f[n - 1], n)
    BY <2>1, Zenon
  <2>. QED  BY <1>5, <2>2
<1>7. f = Body(f)
  <2>1. ASSUME NEW n \in 0 .. m PROVE f[n] = Body(f)[n]
    <3>1. Body(f)[n] = IF n = 0 THEN root ELSE Onward(f[n - 1], n)
      BY Zenon
    <3>2. n = 0 \/ n \in 1 .. m
      BY <1>1
    <3>. HIDE DEF Body, Onward
    <3>. QED  BY <1>1, <1>5, <1>6, <3>1, <3>2
  <2>2. f = [n \in 0 .. m |-> f[n]]
    BY <1>5
  <2>3. Body(f) = [n \in 0 .. m |-> Body(f)[n]]
    OBVIOUS
  <2>. HIDE DEF Body
  <2>. QED  BY <2>1, <2>2, <2>3
<1>. DEFINE upto == CHOOSE a : a = Body(a)
<1>8. upto = Body(upto)
  BY <1>7
<1>9. Path(segments, root) = upto
  BY Zenon DEF Path, m
<1>. HIDE DEF upto, step, m
<1>10. upto[0] = root /\ \A n \in 1 .. m : upto[n] = Onward(upto[n - 1], n)
  <2>. DEFINE g == Body(upto)
  <2>1. g[0] = root /\ \A n \in 1 .. m : g[n] = Onward(upto[n - 1], n)
    BY <1>1
  <2>2. upto = g
    BY <1>8
  <2>. HIDE DEF g, Onward
  <2>. QED  BY <2>1, <2>2
<1>. HIDE DEF Onward
<1>11. \A n \in 0 .. m : upto[n] \in Outcomes
  <2>1. ASSUME NEW n \in 0 .. m - 1, upto[n] \in Outcomes PROVE upto[n + 1] \in Outcomes
    <3>1. n + 1 \in 1 .. m /\ n + 1 - 1 = n
      BY <1>1
    <3>. QED  BY <1>2, <1>10, <2>1, <3>1
  <2>2. upto[0] \in Outcomes
    BY <1>1, <1>10
  <2>. QED  BY <1>1, <2>1, <2>2, IterationType
<1>12. upto \in [0 .. m -> Outcomes]
  <2>1. upto = [n \in 0 .. m |-> upto[n]]
    BY <1>8
  <2>. QED  BY <1>11, <2>1
<1>. QED  BY <1>9, <1>10, <1>12 DEF Leads, Onward, m

\* The first of the segments that fails.
FailsFirst(upto, k) == upto[k] = Failed /\ \A j \in 1 .. k - 1 : upto[j] # Failed

StopsAt(segments, k) ==
  [value |-> IF segments[k].optional THEN Null ELSE Failed, done |-> TRUE]

ResultsAgree(after, upto, segments, n) ==
  /\ (\A k \in 1 .. n : upto[k] # Failed) => after[n] = [value |-> upto[n], done |-> FALSE]
  /\ \A k \in 1 .. n : FailsFirst(upto, k) => after[n] = StopsAt(segments, k)

LEMMA ResolutionStops ==
  ASSUME NEW segments, IsSelector(segments), NEW root \in Things,
         NEW after, Follows(after, segments, root), NEW upto, Leads(upto, segments, root)
  PROVE  ResultsAgree(after, upto, segments, Len(segments))
<1>. DEFINE m == Len(segments)
            S == {n \in 0 .. m : ResultsAgree(after, upto, segments, n)}
<1>1. m \in Nat
  BY DEF IsSelector
<1>2. 0 \in S
  BY <1>1 DEF ResultsAgree, Follows, Leads
<1>3. ASSUME NEW n \in 0 .. m - 1, n \in S PROVE n + 1 \in S
  <2>1. n + 1 \in 1 .. m /\ n + 1 - 1 = n /\ n \in Nat
    BY <1>1
  <2>2. after[n + 1] = Turn(after[n], segments[n + 1])
    BY <2>1 DEF Follows
  <2>3. upto[n + 1] = IF upto[n] = Failed THEN Failed ELSE Step(upto[n], segments[n + 1])
    BY <2>1 DEF Leads
  <2>4. ResultsAgree(after, upto, segments, n)
    BY <1>3
  <2>5. CASE \A k \in 1 .. n : upto[k] # Failed
    <3>1. after[n] = [value |-> upto[n], done |-> FALSE]
      BY <2>4, <2>5 DEF ResultsAgree
    <3>2. upto[n] # Failed
      <4>1. CASE n = 0
        BY <4>1, FailedIsNoThing DEF Leads
      <4>2. CASE n # 0
        BY <2>1, <2>5, <4>2
      <4>. QED  BY <4>1, <4>2
    <3>3. upto[n + 1] = Step(upto[n], segments[n + 1])
      BY <2>3, <3>2
    <3>4. CASE upto[n + 1] # Failed
      <4>1. after[n + 1] = [value |-> upto[n + 1], done |-> FALSE]
        BY <2>2, <3>1, <3>3, <3>4 DEF Turn
      <4>2. \A k \in 1 .. n + 1 : upto[k] # Failed
        BY <2>1, <2>5, <3>4
      <4>. QED  BY <1>1, <4>1, <4>2 DEF ResultsAgree, FailsFirst
    <3>5. CASE upto[n + 1] = Failed
      <4>0. /\ after[n].value = upto[n] /\ ~after[n].done
            /\ Step(upto[n], segments[n + 1]) = Failed
        BY <3>1, <3>3, <3>5
      <4>1. after[n + 1] = StopsAt(segments, n + 1)
        BY <2>2, <4>0, Zenon DEF Turn, StopsAt
      <4>2. \A k \in 1 .. n + 1 : FailsFirst(upto, k) => k = n + 1
        BY <2>1, <2>5 DEF FailsFirst
      <4>. QED  BY <1>1, <2>1, <3>5, <4>1, <4>2 DEF ResultsAgree
    <3>. QED  BY <3>4, <3>5
  <2>6. CASE ~(\A k \in 1 .. n : upto[k] # Failed)
    <3>. DEFINE Failing == {k \in 1 .. n : upto[k] = Failed}
    <3>1. PICK k \in Failing : \A j \in Failing : k <= j
      BY <2>6, Least, Failing \subseteq Nat, Failing # {}
    <3>2. k \in 1 .. n /\ FailsFirst(upto, k)
      BY <2>1, <3>1 DEF FailsFirst
    <3>3. after[n] = StopsAt(segments, k)
      BY <2>4, <3>2 DEF ResultsAgree
    <3>4. after[n + 1] = StopsAt(segments, k)
      BY <2>2, <3>3 DEF Turn, StopsAt
    <3>5. \A j \in 1 .. n + 1 : FailsFirst(upto, j) => j = k
      BY <2>1, <3>2 DEF FailsFirst
    <3>6. ~(\A j \in 1 .. n + 1 : upto[j] # Failed)
      BY <2>1, <2>6
    <3>. QED  BY <1>1, <3>4, <3>5, <3>6 DEF ResultsAgree
  <2>. QED  BY <2>5, <2>6
<1>. HIDE DEF S
<1>4. 0 .. m \subseteq S
  BY <1>1, <1>2, <1>3, InductionUpTo
<1>5. m \in S
  BY <1>1, <1>4
<1>. QED  BY <1>5 DEF S

\* FirstFailureDecides, for selectors of any length: an optional segment that
\* fails ends the selector with null, any other fails it, and what comes later
\* is never looked at.
THEOREM FirstFailureSettles == Spec => []FirstFailureDecides
<1>1. EvalInv => FirstFailureDecides
  <2>. SUFFICES ASSUME EvalInv, args # None, NEW sel \in Selectors
                PROVE  LET segments == SelectorOf[sel]
                           upto == Path(segments, args)
                           failing == {n \in DOMAIN segments : upto[n] = Failed}
                           first == CHOOSE n \in failing : \A m \in failing : n <= m
                       IN  Found(sel, args) = IF failing = {} THEN upto[Len(segments)]
                                              ELSE IF segments[first].optional THEN Null ELSE Failed
    BY Zenon DEF FirstFailureDecides
  <2>. DEFINE segments == SelectorOf[sel]
              upto == Path(segments, args)
              failing == {n \in DOMAIN segments : upto[n] = Failed}
              first == CHOOSE n \in failing : \A m \in failing : n <= m
  <2>1. IsSelector(segments) /\ args \in Things
    BY SelectorsAreTyped, ArgumentsAreThings
  <2>2. Found(sel, args) = Resolve(segments, args)
    BY DEF Found
  <2>. HIDE DEF segments, upto
  <2>3. PICK after : Follows(after, segments, args)
                     /\ Resolve(segments, args) = after[Len(segments)].value
    BY <2>1, Followed
  <2>4. Leads(upto, segments, args)
    BY <2>1, PathLeads DEF upto
  <2>5. ResultsAgree(after, upto, segments, Len(segments))
    BY <2>1, <2>3, <2>4, ResolutionStops
  <2>6. failing = {n \in 1 .. Len(segments) : upto[n] = Failed} /\ failing \subseteq Nat
    BY <2>1 DEF IsSelector
  <2>7. CASE failing = {}
    <3>1. after[Len(segments)].value = upto[Len(segments)]
      BY <2>5, <2>6, <2>7 DEF ResultsAgree
    <3>. QED  BY <2>2, <2>3, <2>7, <3>1 DEF segments, upto
  <2>8. CASE failing # {}
    <3>. HIDE DEF failing
    <3>1. \E n \in failing : \A m \in failing : n <= m
      BY <2>6, <2>8, Least
    <3>2. first \in failing /\ \A m \in failing : first <= m
      BY <3>1
    <3>. HIDE DEF first
    <3>3. first \in 1 .. Len(segments) /\ FailsFirst(upto, first)
      BY <2>1, <2>6, <3>2 DEF FailsFirst, IsSelector
    <3>4. after[Len(segments)] = StopsAt(segments, first)
      BY <2>5, <3>3 DEF ResultsAgree
    <3>5. Found(sel, args) = IF segments[first].optional THEN Null ELSE Failed
      BY <2>2, <2>3, <3>4 DEF StopsAt
    <3>. QED  BY <2>8, <3>5 DEF first, failing, segments, upto
  <2>. QED  BY <2>7, <2>8
<1>. QED  BY <1>1, EvalInvHolds, PTL

----------------------------------------------------------------------------
(* The forms of a statement.                                               *)

OpOf(v) == v.items[1].text

\* An operator with operands of the right number and kind, whatever the
\* statements inside.
Fits(v) ==
  /\ v.kind = "list" /\ v.items # << >> /\ v.items[1].kind = "string"
  /\ OpOf(v) \in Leaves \cup Connectives \cup Quantifiers \cup {"not"}
  /\ Len(v.items) = Arity(OpOf(v))
  /\ OperandError(OpOf(v), v.items) = "Ok"

\* Where statements are looked for inside.
Inners(v) ==
  IF OpOf(v) \in Connectives
  THEN {v.items[2].items[k] : k \in DOMAIN v.items[2].items}
  ELSE IF OpOf(v) = "not" THEN {v.items[2]}
  ELSE IF OpOf(v) \in Quantifiers THEN {v.items[3]} ELSE {}

LEMMA OperatorsDiffer ==
  /\ \A op \in Connectives : op \notin Leaves \cup Quantifiers \cup {"not"} /\ Arity(op) = 2
  /\ \A op \in Quantifiers : op \notin Leaves \cup Connectives \cup {"not"} /\ Arity(op) = 3
  /\ \A op \in Leaves : op \notin Connectives \cup Quantifiers \cup {"not"} /\ Arity(op) = 3
  /\ "not" \notin Leaves \cup Connectives \cup Quantifiers /\ Arity("not") = 2
  /\ "error" \notin Leaves \cup Connectives \cup Quantifiers \cup {"not"}
BY DEF Connectives, Quantifiers, Leaves, Equalities, Comparisons, Arity

LEMMA MisfitsAreRefused ==
  ASSUME NEW v, ~Fits(v), NEW f, NEW g
  PROVE  StatementOf(v, f) = StatementOf(v, g) /\ IsError(StatementOf(v, f))
<1>1. CASE v.kind # "list"
  BY <1>1 DEF StatementOf, IsError, Error
<1>2. CASE v.kind = "list" /\ (v.items = << >> \/ v.items[1].kind # "string")
  BY <1>2 DEF StatementOf, IsError, Error
<1>3. CASE v.kind = "list" /\ ~(v.items = << >> \/ v.items[1].kind # "string")
  <2>. DEFINE op == OpOf(v)
  <2>1. CASE op \notin Leaves \cup Connectives \cup Quantifiers \cup {"not"}
    <3>1. \A h : StatementOf(v, h) = Error("UnknownOperator")
      BY <1>3, <2>1, Zenon DEF StatementOf, OpOf
    <3>. QED  BY <3>1 DEF IsError, Error
  <2>2. CASE /\ op \in Leaves \cup Connectives \cup Quantifiers \cup {"not"}
             /\ Len(v.items) # Arity(op)
    <3>1. \A h : StatementOf(v, h) = Error("Arity")
      BY <1>3, <2>2, Zenon DEF StatementOf, OpOf, IsMisfit
    <3>. QED  BY <3>1 DEF IsError, Error
  <2>3. CASE /\ op \in Leaves \cup Connectives \cup Quantifiers \cup {"not"}
             /\ Len(v.items) = Arity(op) /\ OperandError(op, v.items) # "Ok"
    <3>1. \A h : StatementOf(v, h) = Error(OperandError(op, v.items))
      BY <1>3, <2>3, Zenon DEF StatementOf, OpOf, IsMisfit
    <3>. QED  BY <3>1 DEF IsError, Error
  <2>. QED  BY <1>3, <2>1, <2>2, <2>3 DEF Fits
<1>. QED  BY <1>1, <1>2, <1>3

StatementsIn(v, f) == [k \in DOMAIN v.items[2].items |-> f[v.items[2].items[k]]]

\* What is made of the four forms.
LEMMA FormsAreRead ==
  ASSUME NEW v, Fits(v), NEW f
  PROVE  /\ OpOf(v) \in Connectives =>
              LET list == Collected(StatementsIn(v, f))
              IN  StatementOf(v, f) = AroundAll(list, [op |-> OpOf(v), list |-> list])
         /\ OpOf(v) = "not" =>
              StatementOf(v, f) = Around(f[v.items[2]], [op |-> OpOf(v), inner |-> f[v.items[2]]])
         /\ OpOf(v) \in Quantifiers =>
              StatementOf(v, f) =
                Around(f[v.items[3]],
                       [op |-> OpOf(v), sel |-> v.items[2].text, inner |-> f[v.items[3]]])
         /\ OpOf(v) \in Leaves =>
              StatementOf(v, f) =
                [op |-> OpOf(v), sel |-> v.items[2].text, operand |-> v.items[3]]
<1>. DEFINE op == OpOf(v)
            items == v.items
            inner == f[items[Arity(op)]]
            list == Collected(StatementsIn(v, f))
<1>1. StatementOf(v, f) =
        CASE op \in Connectives -> AroundAll(list, [op |-> op, list |-> list])
          [] op = "not" -> Around(inner, [op |-> op, inner |-> inner])
          [] op \in Quantifiers ->
               Around(inner, [op |-> op, sel |-> items[2].text, inner |-> inner])
          [] OTHER -> [op |-> op, sel |-> items[2].text, operand |-> items[3]]
  BY Zenon DEF StatementOf, Fits, OpOf, IsMisfit, StatementsIn
<1>. HIDE DEF list, inner
<1>2. ASSUME op \in Connectives
      PROVE  StatementOf(v, f) = AroundAll(list, [op |-> op, list |-> list])
  BY <1>1, <1>2, OperatorsDiffer, Zenon
<1>3. ASSUME op = "not"
      PROVE  StatementOf(v, f) = Around(inner, [op |-> op, inner |-> inner])
  BY <1>1, <1>3, OperatorsDiffer, Zenon
<1>4. ASSUME op \in Quantifiers
      PROVE  StatementOf(v, f) =
               Around(inner, [op |-> op, sel |-> items[2].text, inner |-> inner])
  BY <1>1, <1>4, OperatorsDiffer, Zenon
<1>5. ASSUME op \in Leaves
      PROVE  StatementOf(v, f) = [op |-> op, sel |-> items[2].text, operand |-> items[3]]
  BY <1>1, <1>5, OperatorsDiffer, Zenon
<1>. QED  BY <1>2, <1>3, <1>4, <1>5, OperatorsDiffer, Zenon DEF list, inner

\* collect: what a list holds, or an error.
LEMMA CollectedCases ==
  ASSUME NEW m \in Nat, NEW s, s = [k \in 1 .. m |-> s[k]], NEW st
  PROVE  \/ /\ \A k \in 1 .. m : ~IsError(s[k])
            /\ Collected(s) = s /\ AroundAll(s, st) = st
         \/ /\ \E k \in 1 .. m : IsError(s[k])
            /\ \E e : Collected(s) = <<e>> /\ IsError(e) /\ AroundAll(Collected(s), st) = e
<1>. DEFINE bad == {k \in DOMAIN s : IsError(s[k])}
            first == CHOOSE k \in bad : \A j \in bad : k <= j
<1>0. DOMAIN s = 1 .. m
  OBVIOUS
<1>1. CASE bad = {}
  <2>1. \A k \in 1 .. m : ~IsError(s[k])
    BY <1>0, <1>1
  <2>2. Collected(s) = s
    BY <1>1, Zenon DEF Collected
  <2>3. s # << >> => 1 \in 1 .. m
    BY <1>0
  <2>4. AroundAll(s, st) = st
    BY <2>1, <2>3, Zenon DEF AroundAll
  <2>. QED  BY <2>1, <2>2, <2>4
<1>2. CASE bad # {}
  <2>1. bad \subseteq Nat
    BY <1>0
  <2>. HIDE DEF bad
  <2>2. first \in bad
    BY <1>2, <2>1, Least
  <2>. HIDE DEF first
  <2>3. IsError(s[first]) /\ first \in 1 .. m
    BY <1>0, <2>2 DEF bad
  <2>4. Collected(s) = <<s[first]>>
    BY <1>2, Zenon DEF Collected, bad, first
  <2>5. <<s[first]>> # << >> /\ <<s[first]>>[1] = s[first]
    OBVIOUS
  <2>6. AroundAll(Collected(s), st) = s[first]
    BY <2>3, <2>4, <2>5, Zenon DEF AroundAll
  <2>. QED  BY <2>3, <2>4, <2>6
<1>. QED  BY <1>1, <1>2

LEMMA ShallowGrows == ASSUME NEW n \in Nat PROVE Shallow(n) \subseteq Shallow(n + 1)
BY ValuesAssumption DEF Shallow

\* The operands of each form.
Operands(v) ==
  /\ v = List(v.items) /\ v.items \in Seq(Values) /\ v.items[1] = Text(OpOf(v))
  /\ OpOf(v) \in Connectives =>
       /\ Len(v.items) = 2 /\ v.items[2] \in Values
       /\ v.items[2] = List(v.items[2].items) /\ v.items[2].items \in Seq(Values)
  /\ OpOf(v) = "not" => Len(v.items) = 2 /\ v.items[2] \in Values
  /\ OpOf(v) \in Quantifiers \cup Leaves =>
       /\ Len(v.items) = 3 /\ v.items[3] \in Values
       /\ v.items[2] = Text(v.items[2].text) /\ v.items[2].text \in Selectors
  /\ OpOf(v) \in Comparisons => IsNumber(v.items[3])
  /\ OpOf(v) = "like" => v.items[3].kind = "string"

LEMMA FittingOperands == ASSUME NEW v, IsValue(v), Fits(v) PROVE Operands(v)
<1>. DEFINE items == v.items
            op == OpOf(v)
<1>1. v = List(items) /\ items \in Seq(Values) /\ items # << >>
  BY ShapeOf DEF Fits, IsList
<1>2. Len(items) \in Nat /\ \A k \in 1 .. Len(items) : items[k] \in Values /\ IsValue(items[k])
  BY <1>1, ValuesAssumption
<1>3. Len(items) = Arity(op) /\ OperandError(op, items) = "Ok"
  BY DEF Fits
<1>4. items[1] = Text(op)
  <2>1. IsValue(items[1]) /\ items[1].kind = "string"
    BY <1>1, <1>2 DEF Fits
  <2>. QED  BY <2>1, ShapeOf DEF IsText, OpOf
<1>5. ASSUME op \in Connectives
      PROVE  /\ Len(items) = 2 /\ items[2] \in Values
             /\ items[2] = List(items[2].items) /\ items[2].items \in Seq(Values)
  <2>1. Len(items) = 2 /\ op \notin Comparisons /\ op # "like" /\ op # "not"
    BY <1>3, <1>5, OperatorsDiffer DEF Leaves
  <2>2. items[2].kind = "list"
    BY <1>3, <1>5, <2>1, Zenon DEF OperandError
  <2>3. items[2] \in Values /\ IsValue(items[2])
    BY <1>2, <2>1
  <2>. QED  BY <2>1, <2>2, <2>3, ShapeOf DEF IsList
<1>6. ASSUME op = "not" PROVE Len(items) = 2 /\ items[2] \in Values
  <2>1. Len(items) = 2
    BY <1>3, <1>6, OperatorsDiffer
  <2>. QED  BY <1>2, <2>1
<1>7. ASSUME op \in Quantifiers \cup Leaves
      PROVE  /\ Len(items) = 3 /\ items[3] \in Values
             /\ items[2] = Text(items[2].text) /\ items[2].text \in Selectors
  <2>1. Len(items) = 3 /\ op \notin Connectives \cup {"not"}
    BY <1>3, <1>7, OperatorsDiffer
  <2>2. items[3] \in Values /\ IsValue(items[2])
    BY <1>2, <2>1
  <2>3. SelectorError(items[2]) = "Ok"
    BY <1>3, <2>1 DEF OperandError
  <2>4. items[2].kind = "string" /\ items[2].text \in Selectors
    BY <2>3 DEF SelectorError
  <2>. QED  BY <2>1, <2>2, <2>4, ShapeOf DEF IsText
<1>8. ASSUME op \in Comparisons PROVE IsNumber(items[3])
  <2>1. op # "like" /\ op \in Leaves
    BY <1>8 DEF Comparisons, Leaves
  <2>2. SelectorError(items[2]) = "Ok"
    BY <1>3, <2>1, OperatorsDiffer DEF OperandError
  <2>. QED  BY <1>3, <1>8, <2>1, <2>2, OperatorsDiffer DEF OperandError
<1>9. ASSUME op = "like" PROVE items[3].kind = "string"
  BY <1>3, <1>9 DEF OperandError
<1>. QED  BY <1>1, <1>4, <1>5, <1>6, <1>7, <1>8, <1>9 DEF Operands

LEMMA InnersAreShallow ==
  ASSUME NEW n \in Nat, NEW v \in Shallow(n + 1), Fits(v)
  PROVE  Inners(v) \subseteq Shallow(n)
<1>1. IsValue(v) /\ v.kind = "list" /\ \A k \in DOMAIN v.items : v.items[k] \in Shallow(n)
  BY PartsAreShallow DEF Fits
<1>2. Operands(v)
  BY <1>1, FittingOperands
<1>3. \A k \in 1 .. Len(v.items) : v.items[k] \in Shallow(n)
  BY <1>1, <1>2 DEF Operands
<1>4. CASE OpOf(v) \in Connectives
  <2>1. v.items[2] \in Shallow(n + 1) /\ v.items[2].kind = "list"
    BY <1>2, <1>3, <1>4, ShallowGrows DEF Operands, List
  <2>2. \A k \in DOMAIN v.items[2].items : v.items[2].items[k] \in Shallow(n)
    BY <2>1, PartsAreShallow
  <2>. QED  BY <1>4, <2>2 DEF Inners
<1>5. CASE OpOf(v) = "not"
  BY <1>2, <1>3, <1>5, OperatorsDiffer DEF Operands, Inners
<1>6. CASE OpOf(v) \in Quantifiers
  BY <1>2, <1>3, <1>6, OperatorsDiffer DEF Operands, Inners
<1>. QED  BY <1>4, <1>5, <1>6 DEF Inners

\* A statement is read from a value and from what its inner statements are.
LEMMA ReadByInners ==
  ASSUME NEW v, IsValue(v), Fits(v), NEW f, NEW g, \A p \in Inners(v) : f[p] = g[p]
  PROVE  StatementOf(v, f) = StatementOf(v, g)
<1>1. CASE OpOf(v) \in Connectives
  <2>. DEFINE x == Collected(StatementsIn(v, f))
              y == Collected(StatementsIn(v, g))
  <2>1. x = y
    <3>1. StatementsIn(v, f) = StatementsIn(v, g)
      BY <1>1 DEF Inners, StatementsIn
    <3>. QED  BY <3>1, Zenon
  <2>2. /\ StatementOf(v, f) = AroundAll(x, [op |-> OpOf(v), list |-> x])
        /\ StatementOf(v, g) = AroundAll(y, [op |-> OpOf(v), list |-> y])
    BY <1>1, FormsAreRead, Zenon
  <2>. HIDE DEF x, y
  <2>. QED  BY <2>1, <2>2
<1>2. CASE OpOf(v) = "not"
  <2>. DEFINE x == f[v.items[2]]
              y == g[v.items[2]]
  <2>1. x = y
    BY <1>2, OperatorsDiffer DEF Inners
  <2>2. /\ StatementOf(v, f) = Around(x, [op |-> OpOf(v), inner |-> x])
        /\ StatementOf(v, g) = Around(y, [op |-> OpOf(v), inner |-> y])
    BY <1>2, FormsAreRead, Zenon
  <2>. HIDE DEF x, y
  <2>. QED  BY <2>1, <2>2
<1>3. CASE OpOf(v) \in Quantifiers
  <2>. DEFINE x == f[v.items[3]]
              y == g[v.items[3]]
              Quantified(z) == [op |-> OpOf(v), sel |-> v.items[2].text, inner |-> z]
  <2>1. x = y
    BY <1>3, OperatorsDiffer DEF Inners
  <2>2. /\ StatementOf(v, f) = Around(x, Quantified(x))
        /\ StatementOf(v, g) = Around(y, Quantified(y))
    BY <1>3, FormsAreRead, Zenon
  <2>. HIDE DEF x, y
  <2>. QED  BY <2>1, <2>2
<1>4. CASE OpOf(v) \in Leaves
  BY <1>4, FormsAreRead, Zenon
<1>. QED  BY <1>1, <1>2, <1>3, <1>4 DEF Fits

LEMMA AroundCases ==
  ASSUME NEW inner, NEW st
  PROVE  \/ ~IsError(inner) /\ Around(inner, st) = st
         \/ IsError(inner) /\ Around(inner, st) = inner
BY DEF Around

\* It is refused when it does not fit or a statement inside is refused.
LEMMA RefusedForInners ==
  ASSUME NEW v, IsValue(v), NEW f
  PROVE  ~IsError(StatementOf(v, f)) <=> Fits(v) /\ \A p \in Inners(v) : ~IsError(f[p])
<1>0. CASE ~Fits(v)
  BY <1>0, MisfitsAreRefused
<1>1. CASE Fits(v) /\ OpOf(v) \in Connectives
  <2>. DEFINE s == StatementsIn(v, f)
              m == Len(v.items[2].items)
              list == Collected(s)
              st == [op |-> OpOf(v), list |-> list]
  <2>1. m \in Nat /\ DOMAIN v.items[2].items = 1 .. m
    BY <1>1, FittingOperands DEF Operands
  <2>2. s = [k \in 1 .. m |-> s[k]] /\ \A k \in 1 .. m : s[k] = f[v.items[2].items[k]]
    BY <2>1 DEF StatementsIn
  <2>3. StatementOf(v, f) = AroundAll(list, st)
    BY <1>1, FormsAreRead, Zenon
  <2>4. ~IsError(st)
    BY <1>1, OperatorsDiffer DEF IsError
  <2>5. Inners(v) = {v.items[2].items[k] : k \in 1 .. m}
    BY <1>1, <2>1 DEF Inners
  <2>6. (\A p \in Inners(v) : ~IsError(f[p])) <=> \A k \in 1 .. m : ~IsError(s[k])
    BY <2>2, <2>5
  <2>. HIDE DEF st, s, m
  <2>7. \/ (\A k \in 1 .. m : ~IsError(s[k])) /\ AroundAll(list, st) = st
        \/ (\E k \in 1 .. m : IsError(s[k])) /\ IsError(AroundAll(list, st))
    BY <2>1, <2>2, CollectedCases
  <2>. QED  BY <1>1, <2>3, <2>4, <2>6, <2>7
<1>2. CASE Fits(v) /\ OpOf(v) = "not"
  <2>1. StatementOf(v, f) = Around(f[v.items[2]], [op |-> OpOf(v), inner |-> f[v.items[2]]])
    BY <1>2, FormsAreRead, Zenon
  <2>2. Inners(v) = {v.items[2]}
    BY <1>2, OperatorsDiffer DEF Inners
  <2>3. ~IsError([op |-> OpOf(v), inner |-> f[v.items[2]]])
    BY <1>2 DEF IsError
  <2>. QED  BY <1>2, <2>1, <2>2, <2>3, AroundCases
<1>3. CASE Fits(v) /\ OpOf(v) \in Quantifiers
  <2>. DEFINE st == [op |-> OpOf(v), sel |-> v.items[2].text, inner |-> f[v.items[3]]]
  <2>1. StatementOf(v, f) = Around(f[v.items[3]], st)
    BY <1>3, FormsAreRead, Zenon
  <2>2. Inners(v) = {v.items[3]}
    BY <1>3, OperatorsDiffer DEF Inners
  <2>3. ~IsError(st)
    BY <1>3, OperatorsDiffer DEF IsError
  <2>. QED  BY <1>3, <2>1, <2>2, <2>3, AroundCases
<1>4. CASE Fits(v) /\ OpOf(v) \in Leaves
  <2>1. StatementOf(v, f) = [op |-> OpOf(v), sel |-> v.items[2].text, operand |-> v.items[3]]
    BY <1>4, FormsAreRead, Zenon
  <2>2. Inners(v) = {}
    BY <1>4, OperatorsDiffer DEF Inners
  <2>3. ~IsError(StatementOf(v, f))
    BY <1>4, <2>1, OperatorsDiffer DEF IsError
  <2>. QED  BY <1>4, <2>2, <2>3
<1>. QED  BY <1>0, <1>1, <1>2, <1>3, <1>4 DEF Fits

----------------------------------------------------------------------------
(* Parsing.                                                                *)

IsParser(f, n) == f = [v \in Shallow(n) |-> StatementOf(v, f)]

LEMMA ParserAt ==
  ASSUME NEW n, NEW f, IsParser(f, n), NEW v \in Shallow(n)
  PROVE  f[v] = StatementOf(v, f)
<1>. DEFINE g == [w \in Shallow(n) |-> StatementOf(w, f)]
<1>1. g[v] = StatementOf(v, f)
  OBVIOUS
<1>2. f = g
  BY DEF IsParser
<1>. QED  BY <1>1, <1>2, Zenon

LEMMA ParserExists == \E f : IsParser(f, MaxDepth + 1)
<1>. DEFINE S == {n \in Nat : \E f : IsParser(f, n)}
<1>1. 0 \in S
  <2>. DEFINE f == [v \in {} |-> TRUE]
              g == [v \in Shallow(0) |-> StatementOf(v, f)]
  <2>1. f = g
    BY NoneIsShallow
  <2>2. IsParser(f, 0)
    BY <2>1 DEF IsParser
  <2>. QED  BY <2>2
<1>2. ASSUME NEW n \in Nat, n \in S PROVE n + 1 \in S
  <2>1. PICK f : IsParser(f, n)
    BY <1>2
  <2>. DEFINE g == [v \in Shallow(n + 1) |-> StatementOf(v, f)]
              h == [v \in Shallow(n + 1) |-> StatementOf(v, g)]
  <2>2. \A v \in Shallow(n) : f[v] = g[v]
    BY <2>1, ShallowGrows, ParserAt
  <2>. HIDE DEF g
  <2>3. ASSUME NEW v \in Shallow(n + 1) PROVE StatementOf(v, f) = StatementOf(v, g)
    <3>1. CASE Fits(v)
      <4>1. IsValue(v) /\ \A p \in Inners(v) : f[p] = g[p]
        BY <2>2, <3>1, PartsAreShallow, InnersAreShallow
      <4>. QED  BY <3>1, <4>1, ReadByInners
    <3>2. CASE ~Fits(v)
      BY <3>2, MisfitsAreRefused
    <3>. QED  BY <3>1, <3>2
  <2>4. g = h
    BY <2>3 DEF g
  <2>5. IsParser(g, n + 1)
    BY <2>4 DEF IsParser
  <2>. QED  BY <2>5
<1>. HIDE DEF S
<1>3. Nat \subseteq S
  BY <1>1, <1>2, Induction
<1>. QED  BY <1>3, ValuesAssumption DEF S

LEMMA Parses == \A v \in Values : FromIpld[v] = StatementOf(v, FromIpld)
<1>1. \E f : f = [v \in Values |-> StatementOf(v, f)]
  BY ParserExists, AllAreShallow, Zenon DEF IsParser
<1>2. FromIpld = [v \in Values |-> StatementOf(v, FromIpld)]
  BY <1>1, Zenon DEF FromIpld
<1>3. IsParser(FromIpld, MaxDepth + 1)
  BY <1>2, AllAreShallow, Zenon DEF IsParser
<1>. QED  BY <1>3, ParserAt, AllAreShallow, Zenon

----------------------------------------------------------------------------
(* The documented forms.                                                   *)

LEMMA FormsOfOperands ==
  ASSUME NEW v, IsValue(v), NEW fits
  PROVE  HasForm(v, fits) <=> Fits(v) /\ \A p \in Inners(v) : fits[p]
<1>. DEFINE items == v.items
            op == OpOf(v)
            Begins == v.kind = "list" /\ items # << >> /\ items[1].kind = "string"
<1>0. CASE ~Begins
  BY <1>0 DEF HasForm, Fits
<1>. DEFINE Shape ==
       \/ op \in Equalities /\ HasSelector(items)
       \/ op \in Comparisons /\ HasSelector(items) /\ IsNumber(items[3])
       \/ op = "like" /\ HasSelector(items) /\ items[3].kind = "string"
       \/ op \in Quantifiers /\ HasSelector(items) /\ fits[items[3]]
       \/ op = "not" /\ Len(items) = 2 /\ fits[items[2]]
       \/ /\ op \in Connectives /\ Len(items) = 2 /\ items[2].kind = "list"
          /\ \A k \in DOMAIN items[2].items : fits[items[2].items[k]]
<1>a. Begins => (HasForm(v, fits) <=> Shape)
  BY Zenon DEF HasForm, OpOf
<1>b. Begins => (Fits(v) <=> /\ op \in Leaves \cup Connectives \cup Quantifiers \cup {"not"}
                             /\ Len(items) = Arity(op) /\ OperandError(op, items) = "Ok")
  BY DEF Fits
<1>c. HasSelector(items) <=> Len(items) = 3 /\ SelectorError(items[2]) = "Ok"
  BY DEF HasSelector, SelectorError
<1>. HIDE DEF Begins, op, items
<1>1. CASE Begins /\ op \in Connectives
  <2>1. Shape <=> /\ Len(items) = 2 /\ items[2].kind = "list"
                  /\ \A k \in DOMAIN items[2].items : fits[items[2].items[k]]
    BY <1>1 DEF Connectives, Equalities, Comparisons, Quantifiers
  <2>2. OperandError(op, items) = "Ok" <=> items[2].kind = "list"
    BY <1>1 DEF OperandError, Connectives, Comparisons
  <2>3. Inners(v) = {items[2].items[k] : k \in DOMAIN items[2].items}
    BY <1>1 DEF Inners, op, items
  <2>4. Fits(v) <=> Len(items) = 2 /\ items[2].kind = "list"
    BY <1>1, <1>b, <2>2, OperatorsDiffer
  <2>. QED  BY <1>1, <1>a, <2>1, <2>3, <2>4
<1>2. CASE Begins /\ op = "not"
  <2>1. Shape <=> Len(items) = 2 /\ fits[items[2]]
    BY <1>2 DEF Connectives, Equalities, Comparisons, Quantifiers
  <2>2. OperandError(op, items) = "Ok"
    BY <1>2 DEF OperandError, Connectives, Comparisons
  <2>3. Inners(v) = {items[2]}
    BY <1>2, OperatorsDiffer DEF Inners, op, items
  <2>. QED  BY <1>2, <1>a, <1>b, <2>1, <2>2, <2>3, OperatorsDiffer
<1>3. CASE Begins /\ op \in Quantifiers
  <2>1. Shape <=> HasSelector(items) /\ fits[items[3]]
    BY <1>3 DEF Connectives, Equalities, Comparisons, Quantifiers
  <2>2. OperandError(op, items) = "Ok" <=> SelectorError(items[2]) = "Ok"
    BY <1>3 DEF OperandError, Connectives, Comparisons, Quantifiers
  <2>3. Inners(v) = {items[3]}
    BY <1>3, OperatorsDiffer DEF Inners, op, items
  <2>. QED  BY <1>3, <1>a, <1>b, <1>c, <2>1, <2>2, <2>3, OperatorsDiffer
<1>4. CASE Begins /\ op \in Leaves
  <2>1. Shape <=> /\ HasSelector(items)
                  /\ op \in Comparisons => IsNumber(items[3])
                  /\ op = "like" => items[3].kind = "string"
    BY <1>4 DEF Leaves, Connectives, Equalities, Comparisons, Quantifiers
  <2>2. OperandError(op, items) = "Ok"
          <=> /\ SelectorError(items[2]) = "Ok"
              /\ op \in Comparisons => IsNumber(items[3])
              /\ op = "like" => items[3].kind = "string"
    BY <1>4 DEF OperandError, Leaves, Equalities, Connectives, Comparisons
  <2>3. Inners(v) = {}
    BY <1>4, OperatorsDiffer DEF Inners, op
  <2>. QED  BY <1>4, <1>a, <1>b, <1>c, <2>1, <2>2, <2>3, OperatorsDiffer
<1>5. CASE Begins /\ op \notin Leaves \cup Connectives \cup Quantifiers \cup {"not"}
  BY <1>5, <1>a, <1>b DEF Leaves
<1>. QED  BY <1>0, <1>1, <1>2, <1>3, <1>4, <1>5

IsJudge(f, n) == f = [v \in Shallow(n) |-> HasForm(v, f)]

LEMMA JudgeAt ==
  ASSUME NEW n, NEW f, IsJudge(f, n), NEW v \in Shallow(n)
  PROVE  f[v] = HasForm(v, f)
<1>. DEFINE g == [w \in Shallow(n) |-> HasForm(w, f)]
<1>1. g[v] = HasForm(v, f)
  OBVIOUS
<1>2. f = g
  BY DEF IsJudge
<1>. QED  BY <1>1, <1>2, Zenon

LEMMA JudgeExists == \E f : IsJudge(f, MaxDepth + 1)
<1>. DEFINE S == {n \in Nat : \E f : IsJudge(f, n)}
<1>1. 0 \in S
  <2>. DEFINE f == [v \in {} |-> TRUE]
              g == [v \in Shallow(0) |-> HasForm(v, f)]
  <2>1. f = g
    BY NoneIsShallow
  <2>2. IsJudge(f, 0)
    BY <2>1 DEF IsJudge
  <2>. QED  BY <2>2
<1>2. ASSUME NEW n \in Nat, n \in S PROVE n + 1 \in S
  <2>1. PICK f : IsJudge(f, n)
    BY <1>2
  <2>. DEFINE g == [v \in Shallow(n + 1) |-> HasForm(v, f)]
              h == [v \in Shallow(n + 1) |-> HasForm(v, g)]
  <2>2. \A v \in Shallow(n) : f[v] = g[v]
    BY <2>1, ShallowGrows, JudgeAt
  <2>. HIDE DEF g
  <2>3. ASSUME NEW v \in Shallow(n + 1) PROVE HasForm(v, f) = HasForm(v, g)
    <3>1. IsValue(v)
      BY PartsAreShallow
    <3>2. Fits(v) => \A p \in Inners(v) : f[p] = g[p]
      BY <2>2, InnersAreShallow
    <3>3. (Fits(v) /\ \A p \in Inners(v) : f[p]) <=> (Fits(v) /\ \A p \in Inners(v) : g[p])
      BY <3>2
    <3>. QED  BY <3>1, <3>3, FormsOfOperands DEF HasForm
  <2>4. g = h
    BY <2>3 DEF g
  <2>5. IsJudge(g, n + 1)
    BY <2>4 DEF IsJudge
  <2>. QED  BY <2>5
<1>. HIDE DEF S
<1>3. Nat \subseteq S
  BY <1>1, <1>2, Induction
<1>. QED  BY <1>3, ValuesAssumption DEF S

LEMMA Judges == \A v \in Values : IsStatement[v] = HasForm(v, IsStatement)
<1>1. \E f : f = [v \in Values |-> HasForm(v, f)]
  BY JudgeExists, AllAreShallow, Zenon DEF IsJudge
<1>2. IsStatement = [v \in Values |-> HasForm(v, IsStatement)]
  BY <1>1, Zenon DEF IsStatement
<1>3. IsJudge(IsStatement, MaxDepth + 1)
  BY <1>2, AllAreShallow, Zenon DEF IsJudge
<1>. QED  BY <1>3, JudgeAt, AllAreShallow, Zenon

\* What parses is what has one of the documented forms.
LEMMA ParsesWhatHasForm == \A v \in Values : ~IsError(FromIpld[v]) <=> IsStatement[v]
<1>. DEFINE S == {n \in Nat : \A v \in Shallow(n) : ~IsError(FromIpld[v]) <=> IsStatement[v]}
<1>1. 0 \in S
  BY NoneIsShallow
<1>2. ASSUME NEW n \in Nat, n \in S PROVE n + 1 \in S
  <2>1. ASSUME NEW v \in Shallow(n + 1) PROVE ~IsError(FromIpld[v]) <=> IsStatement[v]
    <3>1. v \in Values /\ IsValue(v)
      BY PartsAreShallow
    <3>2. ~IsError(FromIpld[v]) <=> Fits(v) /\ \A p \in Inners(v) : ~IsError(FromIpld[p])
      BY <3>1, Parses, RefusedForInners
    <3>3. IsStatement[v] <=> Fits(v) /\ \A p \in Inners(v) : IsStatement[p]
      BY <3>1, Judges, FormsOfOperands
    <3>4. Fits(v) => \A p \in Inners(v) : ~IsError(FromIpld[p]) <=> IsStatement[p]
      BY <1>2, InnersAreShallow
    <3>. QED  BY <3>2, <3>3, <3>4
  <2>. QED  BY <2>1
<1>. HIDE DEF S
<1>3. Nat \subseteq S
  BY <1>1, <1>2, Induction
<1>. QED  BY <1>3, ValuesAssumption, AllAreShallow DEF S

----------------------------------------------------------------------------
(* Statements.                                                             *)

StatementsUpTo(n) == {st \in {FromIpld[v] : v \in Shallow(n)} : ~IsError(st)}

\* The parts of a statement, with the statements inside taken from T.
Composed(st, T) ==
  \/ /\ st.op \in Connectives
     /\ Len(st.list) \in Nat /\ DOMAIN st.list = 1 .. Len(st.list)
     /\ \A k \in DOMAIN st.list : st.list[k] \in T
  \/ st.op = "not" /\ st.inner \in T
  \/ st.op \in Quantifiers /\ st.sel \in Selectors /\ st.inner \in T
  \/ /\ st.op \in Leaves /\ st.sel \in Selectors /\ st.operand \in Values
     /\ st.op \in Comparisons => IsNumber(st.operand)
     /\ st.op = "like" => st.operand.kind = "string"

\* What is parsed from v.
ParsedFrom(v, st) ==
  /\ OpOf(v) \in Connectives => st = [op |-> OpOf(v), list |-> StatementsIn(v, FromIpld)]
  /\ OpOf(v) = "not" => st = [op |-> OpOf(v), inner |-> FromIpld[v.items[2]]]
  /\ OpOf(v) \in Quantifiers =>
       st = [op |-> OpOf(v), sel |-> v.items[2].text, inner |-> FromIpld[v.items[3]]]
  /\ OpOf(v) \in Leaves =>
       st = [op |-> OpOf(v), sel |-> v.items[2].text, operand |-> v.items[3]]

LEMMA WhatIsParsed ==
  ASSUME NEW v \in Values, ~IsError(FromIpld[v])
  PROVE  /\ Fits(v) /\ Operands(v) /\ ParsedFrom(v, FromIpld[v])
         /\ \A p \in Inners(v) : ~IsError(FromIpld[p])
<1>1. IsValue(v) /\ FromIpld[v] = StatementOf(v, FromIpld)
  BY ValuesAssumption, Parses
<1>2. Fits(v) /\ Operands(v) /\ \A p \in Inners(v) : ~IsError(FromIpld[p])
  BY <1>1, RefusedForInners, FittingOperands
<1>3. ASSUME OpOf(v) \in Connectives
      PROVE  FromIpld[v] = [op |-> OpOf(v), list |-> StatementsIn(v, FromIpld)]
  <2>. DEFINE s == StatementsIn(v, FromIpld)
              m == Len(v.items[2].items)
              st == [op |-> OpOf(v), list |-> Collected(s)]
  <2>1. m \in Nat /\ DOMAIN v.items[2].items = 1 .. m
    BY <1>2, <1>3 DEF Operands
  <2>2. s = [k \in 1 .. m |-> s[k]] /\ \A k \in 1 .. m : s[k] = FromIpld[v.items[2].items[k]]
    BY <2>1 DEF StatementsIn
  <2>3. \A k \in 1 .. m : ~IsError(s[k])
    BY <1>2, <1>3, <2>1, <2>2 DEF Inners
  <2>4. FromIpld[v] = AroundAll(Collected(s), st)
    BY <1>1, <1>2, <1>3, FormsAreRead, Zenon
  <2>. HIDE DEF st, s, m
  <2>5. Collected(s) = s /\ AroundAll(s, st) = st
    BY <2>1, <2>2, <2>3, CollectedCases
  <2>. QED  BY <2>4, <2>5 DEF st, s
<1>4. ASSUME OpOf(v) = "not"
      PROVE  FromIpld[v] = [op |-> OpOf(v), inner |-> FromIpld[v.items[2]]]
  <2>1. ~IsError(FromIpld[v.items[2]])
    BY <1>2, <1>4, OperatorsDiffer DEF Inners
  <2>2. FromIpld[v] = Around(FromIpld[v.items[2]],
                             [op |-> OpOf(v), inner |-> FromIpld[v.items[2]]])
    BY <1>1, <1>2, <1>4, FormsAreRead, Zenon
  <2>. QED  BY <2>1, <2>2, AroundCases, Zenon
<1>5. ASSUME OpOf(v) \in Quantifiers
      PROVE  FromIpld[v] =
               [op |-> OpOf(v), sel |-> v.items[2].text, inner |-> FromIpld[v.items[3]]]
  <2>1. ~IsError(FromIpld[v.items[3]])
    BY <1>2, <1>5, OperatorsDiffer DEF Inners
  <2>2. FromIpld[v] =
          Around(FromIpld[v.items[3]],
                 [op |-> OpOf(v), sel |-> v.items[2].text, inner |-> FromIpld[v.items[3]]])
    BY <1>1, <1>2, <1>5, FormsAreRead, Zenon
  <2>. QED  BY <2>1, <2>2, AroundCases, Zenon
<1>6. ASSUME OpOf(v) \in Leaves
      PROVE  FromIpld[v] = [op |-> OpOf(v), sel |-> v.items[2].text, operand |-> v.items[3]]
  BY <1>1, <1>2, <1>6, FormsAreRead, Zenon
<1>. QED  BY <1>2, <1>3, <1>4, <1>5, <1>6, Zenon DEF ParsedFrom

LEMMA StatementsAreComposed ==
  ASSUME NEW n \in Nat, NEW st \in StatementsUpTo(n + 1)
  PROVE  Composed(st, StatementsUpTo(n))
<1>1. PICK v \in Shallow(n + 1) : st = FromIpld[v]
  BY DEF StatementsUpTo
<1>2. v \in Values /\ ~IsError(FromIpld[v])
  BY <1>1, PartsAreShallow DEF StatementsUpTo
<1>3. Fits(v) /\ Operands(v) /\ ParsedFrom(v, st)
  BY <1>1, <1>2, WhatIsParsed
<1>4. \A p \in Inners(v) : FromIpld[p] \in StatementsUpTo(n)
  BY <1>2, <1>3, WhatIsParsed, InnersAreShallow DEF StatementsUpTo
<1>5. CASE OpOf(v) \in Connectives
  <2>. DEFINE m == Len(v.items[2].items)
  <2>1. m \in Nat /\ DOMAIN v.items[2].items = 1 .. m
    BY <1>3, <1>5 DEF Operands
  <2>2. st.op = OpOf(v) /\ st.list = [k \in 1 .. m |-> FromIpld[v.items[2].items[k]]]
    BY <1>3, <1>5, <2>1 DEF ParsedFrom, StatementsIn
  <2>3. \A k \in 1 .. m : FromIpld[v.items[2].items[k]] \in StatementsUpTo(n)
    BY <1>4, <1>5, <2>1 DEF Inners
  <2>. HIDE DEF m
  <2>. QED  BY <1>5, <2>1, <2>2, <2>3 DEF Composed
<1>6. CASE OpOf(v) = "not"
  BY <1>3, <1>4, <1>6, OperatorsDiffer DEF Composed, ParsedFrom, Inners
<1>7. CASE OpOf(v) \in Quantifiers
  <2>1. v.items[3] \in Inners(v) /\ v.items[2].text \in Selectors
    BY <1>3, <1>7, OperatorsDiffer DEF Inners, Operands
  <2>2. st.op = OpOf(v) /\ st.sel = v.items[2].text /\ st.inner = FromIpld[v.items[3]]
    BY <1>3, <1>7 DEF ParsedFrom
  <2>. QED  BY <1>4, <1>7, <2>1, <2>2 DEF Composed
<1>8. CASE OpOf(v) \in Leaves
  <2>1. st.op = OpOf(v) /\ st.sel = v.items[2].text /\ st.operand = v.items[3]
    BY <1>3, <1>8 DEF ParsedFrom
  <2>. QED  BY <1>3, <1>8, <2>1 DEF Composed, Operands
<1>. QED  BY <1>3, <1>5, <1>6, <1>7, <1>8 DEF Fits

LEMMA StatementsGrow ==
  ASSUME NEW n \in Nat PROVE StatementsUpTo(n) \subseteq StatementsUpTo(n + 1)
BY ShallowGrows DEF StatementsUpTo

LEMMA AllAreStatements == Statements = StatementsUpTo(MaxDepth + 1)
BY AllAreShallow DEF Statements, StatementsUpTo

LEMMA NoStatementsYet == StatementsUpTo(0) = {}
BY NoneIsShallow DEF StatementsUpTo

----------------------------------------------------------------------------
(* The wire form of a statement.                                           *)

LEMMA WireByInners ==
  ASSUME NEW T, NEW st, Composed(st, T), NEW f, NEW g, \A x \in T : f[x] = g[x]
  PROVE  WireOf(st, f) = WireOf(st, g)
<1>1. CASE st.op \in Connectives
  <2>1. Composed(st, T) => \A k \in DOMAIN st.list : f[st.list[k]] = g[st.list[k]]
    BY <1>1, OperatorsDiffer DEF Composed
  <2>2. [k \in DOMAIN st.list |-> f[st.list[k]]] = [k \in DOMAIN st.list |-> g[st.list[k]]]
    BY <2>1
  <2>3. \A h : WireOf(st, h) =
                 List(<< Text(st.op), List([k \in DOMAIN st.list |-> h[st.list[k]]]) >>)
    BY <1>1, OperatorsDiffer, Zenon DEF WireOf
  <2>. QED  BY <2>2, <2>3
<1>2. CASE st.op = "not"
  <2>1. f[st.inner] = g[st.inner]
    BY <1>2, OperatorsDiffer DEF Composed
  <2>2. \A h : WireOf(st, h) = List(<< Text(st.op), h[st.inner] >>)
    BY <1>2, OperatorsDiffer, Zenon DEF WireOf
  <2>. QED  BY <2>1, <2>2
<1>3. CASE st.op \in Quantifiers
  <2>1. f[st.inner] = g[st.inner]
    BY <1>3, OperatorsDiffer DEF Composed
  <2>2. \A h : WireOf(st, h) = List(<< Text(st.op), Text(st.sel), h[st.inner] >>)
    BY <1>3, OperatorsDiffer, Zenon DEF WireOf
  <2>. QED  BY <2>1, <2>2
<1>4. CASE st.op \in Leaves
  <2>1. \A h : WireOf(st, h) = List(<< Text(st.op), Text(st.sel), st.operand >>)
    BY <1>4, OperatorsDiffer, Zenon DEF WireOf
  <2>. QED  BY <2>1
<1>. QED  BY <1>1, <1>2, <1>3, <1>4 DEF Composed

IsWriter(f, n) == f = [st \in StatementsUpTo(n) |-> WireOf(st, f)]

LEMMA WriterAt ==
  ASSUME NEW n, NEW f, IsWriter(f, n), NEW st \in StatementsUpTo(n)
  PROVE  f[st] = WireOf(st, f)
<1>. DEFINE g == [x \in StatementsUpTo(n) |-> WireOf(x, f)]
<1>1. g[st] = WireOf(st, f)
  OBVIOUS
<1>2. f = g
  BY DEF IsWriter
<1>. QED  BY <1>1, <1>2, Zenon

LEMMA WriterExists == \E f : IsWriter(f, MaxDepth + 1)
<1>. DEFINE S == {n \in Nat : \E f : IsWriter(f, n)}
<1>1. 0 \in S
  <2>. DEFINE f == [x \in {} |-> TRUE]
              g == [x \in StatementsUpTo(0) |-> WireOf(x, f)]
  <2>1. f = g
    BY NoStatementsYet
  <2>2. IsWriter(f, 0)
    BY <2>1 DEF IsWriter
  <2>. QED  BY <2>2
<1>2. ASSUME NEW n \in Nat, n \in S PROVE n + 1 \in S
  <2>1. PICK f : IsWriter(f, n)
    BY <1>2
  <2>. DEFINE g == [x \in StatementsUpTo(n + 1) |-> WireOf(x, f)]
              h == [x \in StatementsUpTo(n + 1) |-> WireOf(x, g)]
  <2>2. \A x \in StatementsUpTo(n) : f[x] = g[x]
    BY <2>1, StatementsGrow, WriterAt
  <2>. HIDE DEF g
  <2>3. \A x \in StatementsUpTo(n + 1) : WireOf(x, f) = WireOf(x, g)
    BY <2>2, StatementsAreComposed, WireByInners
  <2>4. g = h
    BY <2>3 DEF g
  <2>5. IsWriter(g, n + 1)
    BY <2>4 DEF IsWriter
  <2>. QED  BY <2>5
<1>. HIDE DEF S
<1>3. Nat \subseteq S
  BY <1>1, <1>2, Induction
<1>. QED  BY <1>3, ValuesAssumption DEF S

LEMMA Writes == \A st \in Statements : ToIpld[st] = WireOf(st, ToIpld)
<1>1. \E f : f = [st \in Statements |-> WireOf(st, f)]
  BY WriterExists, AllAreStatements, Zenon DEF IsWriter
<1>2. ToIpld = [st \in Statements |-> WireOf(st, ToIpld)]
  BY <1>1, Zenon DEF ToIpld
<1>3. IsWriter(ToIpld, MaxDepth + 1)
  BY <1>2, AllAreStatements, Zenon DEF IsWriter
<1>. QED  BY <1>3, WriterAt, AllAreStatements, Zenon

\* What parses is written again as it was.
WrittenBack(v) == ~IsError(FromIpld[v]) => ToIpld[FromIpld[v]] = v

LEMMA WrittenBackByInners ==
  ASSUME NEW v \in Values, \A p \in Inners(v) : WrittenBack(p)
  PROVE  WrittenBack(v)
<1>. SUFFICES ASSUME ~IsError(FromIpld[v]) PROVE ToIpld[FromIpld[v]] = v
  BY DEF WrittenBack
<1>. DEFINE st == FromIpld[v]
            items == v.items
<1>1. /\ Fits(v) /\ Operands(v) /\ ParsedFrom(v, st)
      /\ \A p \in Inners(v) : ToIpld[FromIpld[p]] = p
  BY WhatIsParsed DEF WrittenBack
<1>2. ToIpld[st] = WireOf(st, ToIpld)
  BY Writes DEF Statements
<1>. HIDE DEF st
<1>3. v = List(items) /\ items[1] = Text(OpOf(v)) /\ items \in Seq(Values)
  BY <1>1 DEF Operands
<1>4. Len(items) = 2 => items = <<items[1], items[2]>>
  BY <1>3
<1>5. Len(items) = 3 => items = <<items[1], items[2], items[3]>>
  BY <1>3
<1>6. CASE OpOf(v) \in Connectives
  <2>. DEFINE m == Len(items[2].items)
  <2>1. /\ items[2] = List(items[2].items) /\ items[2].items \in Seq(Values)
        /\ Len(items) = 2 /\ m \in Nat /\ DOMAIN items[2].items = 1 .. m
    BY <1>1, <1>6 DEF Operands
  <2>2. st.op = OpOf(v) /\ st.list = [k \in 1 .. m |-> FromIpld[items[2].items[k]]]
    BY <1>1, <1>6, <2>1 DEF ParsedFrom, StatementsIn
  <2>3. \A k \in 1 .. m : ToIpld[FromIpld[items[2].items[k]]] = items[2].items[k]
    BY <1>1, <1>6, <2>1 DEF Inners
  <2>4. [k \in DOMAIN st.list |-> ToIpld[st.list[k]]] = items[2].items
    <3>1. items[2].items = [k \in 1 .. m |-> items[2].items[k]]
      BY <2>1
    <3>. HIDE DEF m
    <3>. QED  BY <2>2, <2>3, <3>1
  <2>5. WireOf(st, ToIpld) =
          List(<< Text(st.op), List([k \in DOMAIN st.list |-> ToIpld[st.list[k]]]) >>)
    BY <1>6, <2>2, OperatorsDiffer, Zenon DEF WireOf
  <2>6. items = << Text(OpOf(v)), List(items[2].items) >>
    BY <1>3, <1>4, <2>1, Zenon
  <2>7. WireOf(st, ToIpld) = List(items)
    BY <2>2, <2>4, <2>5, <2>6, Zenon
  <2>. QED  BY <1>2, <1>3, <2>7, Zenon DEF st
<1>7. CASE OpOf(v) = "not"
  <2>1. st.op = OpOf(v) /\ st.inner = FromIpld[items[2]] /\ Len(items) = 2
    BY <1>1, <1>7 DEF ParsedFrom, Operands
  <2>2. ToIpld[st.inner] = items[2]
    BY <1>1, <1>7, <2>1, OperatorsDiffer DEF Inners
  <2>3. WireOf(st, ToIpld) = List(<< Text(st.op), ToIpld[st.inner] >>)
    BY <1>7, <2>1, OperatorsDiffer, Zenon DEF WireOf
  <2>. QED  BY <1>2, <1>3, <1>4, <2>1, <2>2, <2>3 DEF st
<1>8. CASE OpOf(v) \in Quantifiers
  <2>1. /\ st.op = OpOf(v) /\ st.sel = items[2].text /\ st.inner = FromIpld[items[3]]
        /\ Len(items) = 3 /\ items[2] = Text(items[2].text)
    BY <1>1, <1>8 DEF ParsedFrom, Operands
  <2>2. ToIpld[st.inner] = items[3]
    BY <1>1, <1>8, <2>1, OperatorsDiffer DEF Inners
  <2>3. WireOf(st, ToIpld) = List(<< Text(st.op), Text(st.sel), ToIpld[st.inner] >>)
    BY <1>8, <2>1, OperatorsDiffer, Zenon DEF WireOf
  <2>. QED  BY <1>2, <1>3, <1>5, <2>1, <2>2, <2>3 DEF st
<1>9. CASE OpOf(v) \in Leaves
  <2>1. /\ st.op = OpOf(v) /\ st.sel = items[2].text /\ st.operand = items[3]
        /\ Len(items) = 3 /\ items[2] = Text(items[2].text)
    BY <1>1, <1>9 DEF ParsedFrom, Operands
  <2>2. WireOf(st, ToIpld) = List(<< Text(st.op), Text(st.sel), st.operand >>)
    BY <1>9, <2>1, OperatorsDiffer, Zenon DEF WireOf
  <2>. QED  BY <1>2, <1>3, <1>5, <2>1, <2>2 DEF st
<1>. QED  BY <1>1, <1>6, <1>7, <1>8, <1>9 DEF Fits

LEMMA AllAreWrittenBack == \A v \in Values : WrittenBack(v)
<1>. DEFINE S == {n \in Nat : \A v \in Shallow(n) : WrittenBack(v)}
<1>1. 0 \in S
  BY NoneIsShallow
<1>2. ASSUME NEW n \in Nat, n \in S PROVE n + 1 \in S
  <2>1. ASSUME NEW v \in Shallow(n + 1) PROVE WrittenBack(v)
    <3>1. v \in Values
      BY PartsAreShallow
    <3>2. CASE ~Fits(v)
      BY <3>1, <3>2, WhatIsParsed DEF WrittenBack
    <3>3. CASE Fits(v)
      <4>1. \A p \in Inners(v) : WrittenBack(p)
        BY <1>2, <3>3, InnersAreShallow
      <4>. QED  BY <3>1, <4>1, WrittenBackByInners
    <3>. QED  BY <3>2, <3>3
  <2>. QED  BY <2>1
<1>. HIDE DEF S
<1>3. Nat \subseteq S
  BY <1>1, <1>2, Induction
<1>. QED  BY <1>3, ValuesAssumption, AllAreShallow DEF S

\* A policy parses item by item.
ParsedItems(v) == [k \in DOMAIN v.items |-> FromIpld[v.items[k]]]

LEMMA PolicyCases ==
  ASSUME EvalInv, wire # None
  PROVE  /\ IsValue(wire) /\ wire \in Values
         /\ Parsed <=> wire.kind = "list" /\ \A k \in DOMAIN wire.items :
                                                ~IsError(FromIpld[wire.items[k]])
         /\ Parsed => policy = ParsedItems(wire)
<1>1. wire \in Values /\ IsValue(wire) /\ policy = PolicyOf(wire)
  BY PolicyAssumption, ValuesAssumption DEF EvalInv
<1>2. CASE wire.kind # "list"
  <2>1. policy = <<Error("NotAList")>>
    BY <1>1, <1>2 DEF PolicyOf
  <2>2. 1 \in DOMAIN policy /\ IsError(policy[1])
    BY <2>1 DEF IsError, Error
  <2>. QED  BY <1>1, <1>2, <2>2 DEF Parsed
<1>3. CASE wire.kind = "list"
  <2>. DEFINE s == ParsedItems(wire)
              m == Len(wire.items)
  <2>1. m \in Nat /\ DOMAIN wire.items = 1 .. m
    BY <1>1, <1>3, ShapeOf DEF IsList
  <2>2. /\ DOMAIN s = 1 .. m /\ s = [k \in 1 .. m |-> s[k]]
        /\ \A k \in 1 .. m : s[k] = FromIpld[wire.items[k]]
    BY <2>1 DEF ParsedItems
  <2>3. policy = Collected(s)
    BY <1>1, <1>3, Zenon DEF PolicyOf, ParsedItems
  <2>. HIDE DEF s, m
  <2>4. \/ (\A k \in 1 .. m : ~IsError(s[k])) /\ policy = s
        \/ (\E k \in 1 .. m : IsError(s[k])) /\ \E e : policy = <<e>> /\ IsError(e)
    BY <2>1, <2>2, <2>3, CollectedCases
  <2>5. CASE (\A k \in 1 .. m : ~IsError(s[k])) /\ policy = s
    BY <1>1, <1>3, <2>1, <2>2, <2>5 DEF Parsed, s
  <2>6. CASE (\E k \in 1 .. m : IsError(s[k])) /\ \E e : policy = <<e>> /\ IsError(e)
    <3>1. 1 \in DOMAIN policy /\ IsError(policy[1])
      BY <2>6
    <3>. QED  BY <1>1, <1>3, <2>1, <2>2, <2>6, <3>1 DEF Parsed
  <2>. QED  BY <2>4, <2>5, <2>6
<1>. QED  BY <1>2, <1>3

\* WireFormIsKept, for policies nested to any depth: what is refused is what has
\* none of the documented forms somewhere, and no operand of the rest is lost.
THEOREM PolicyIsKept == Spec => []WireFormIsKept
<1>1. EvalInv => WireFormIsKept
  <2>. SUFFICES ASSUME EvalInv, wire # None
                PROVE  /\ Parsed <=> /\ wire.kind = "list"
                                     /\ \A k \in DOMAIN wire.items : IsStatement[wire.items[k]]
                       /\ Parsed => List([k \in DOMAIN policy |-> ToIpld[policy[k]]]) = wire
    BY Zenon DEF WireFormIsKept
  <2>1. IsValue(wire) /\ wire \in Values
    BY PolicyCases
  <2>2. wire.kind = "list" => \A k \in DOMAIN wire.items : wire.items[k] \in Values
    BY <2>1, PartsInValues DEF PartsIn
  <2>3. Parsed <=> /\ wire.kind = "list"
                   /\ \A k \in DOMAIN wire.items : IsStatement[wire.items[k]]
    BY <2>2, PolicyCases, ParsesWhatHasForm
  <2>4. ASSUME Parsed PROVE List([k \in DOMAIN policy |-> ToIpld[policy[k]]]) = wire
    <3>1. /\ policy = ParsedItems(wire) /\ wire.kind = "list"
          /\ \A k \in DOMAIN wire.items : ~IsError(FromIpld[wire.items[k]])
      BY <2>4, PolicyCases
    <3>2. wire = List(wire.items) /\ wire.items \in Seq(Values)
      BY <2>1, <3>1, ShapeOf DEF IsList
    <3>3. \A k \in DOMAIN wire.items : ToIpld[FromIpld[wire.items[k]]] = wire.items[k]
      BY <2>2, <3>1, AllAreWrittenBack DEF WrittenBack
    <3>4. DOMAIN policy = DOMAIN wire.items
          /\ \A k \in DOMAIN policy : policy[k] = FromIpld[wire.items[k]]
      BY <3>1 DEF ParsedItems
    <3>5. [k \in DOMAIN policy |-> ToIpld[policy[k]]] = [k \in DOMAIN wire.items |-> wire.items[k]]
      BY <3>3, <3>4
    <3>6. wire.items = [k \in DOMAIN wire.items |-> wire.items[k]]
      BY <3>2
    <3>. QED  BY <3>2, <3>5, <3>6, Zenon
  <2>. QED  BY <2>3, <2>4
<1>. QED  BY <1>1, EvalInvHolds, PTL

----------------------------------------------------------------------------
(* What statements say of values.                                          *)

LEMMA ElementsAreValues ==
  ASSUME NEW found \in Outcomes, HasElements(found)
  PROVE  /\ found \in Things /\ Elements(found) \in Seq(Values)
         /\ Len(Elements(found)) \in Nat
         /\ DOMAIN Elements(found) = 1 .. Len(Elements(found))
         /\ \A k \in DOMAIN Elements(found) : Elements(found)[k] \in Values
<1>1. found \in Things /\ IsValue(found)
  BY ThingIsValue DEF Outcomes, HasElements, Failed
<1>2. CASE found.kind = "list"
  <2>1. Elements(found) = found.items /\ found.items \in Seq(Values)
    BY <1>1, <1>2, ShapeOf DEF Elements, IsList
  <2>. QED  BY <1>1, <2>1
<1>3. CASE found.kind = "map"
  <2>1. Elements(found) \in Seq(Values)
    BY <1>1, <1>3, ShapeOf, ValuesOfType DEF Elements
  <2>. QED  BY <1>1, <2>1
<1>. QED  BY <1>2, <1>3 DEF HasElements

LEMMA FindsOutcomes ==
  ASSUME NEW sel \in Selectors, NEW v \in Values PROVE Found(sel, v) \in Outcomes
BY SelectorsAreTyped, ResolvesToOutcome DEF Found, Things

\* The forms of a statement, one by one.
DecidesByForm(st, v, holding) ==
  LET found == Found(st.sel, v)
      items == Elements(found)
      decides == Decides(st, v, holding)
  IN  /\ st.op = "not" => decides = (~holding[<<st.inner, v>>])
      /\ st.op = "and" => decides = (\A k \in DOMAIN st.list : holding[<<st.list[k], v>>])
      /\ st.op = "or" =>
           decides = (st.list = << >> \/ \E k \in DOMAIN st.list : holding[<<st.list[k], v>>])
      /\ st.op = "all" =>
           decides = (/\ HasElements(found)
                      /\ \A k \in DOMAIN items : holding[<<st.inner, items[k]>>])
      /\ st.op = "any" =>
           decides = (/\ HasElements(found)
                      /\ \/ items = << >>
                         \/ \E k \in DOMAIN items : holding[<<st.inner, items[k]>>])
      /\ st.op \in Leaves => decides = Meets(st.op, found, st.operand)

LEMMA FormsDecide == ASSUME NEW st, NEW v, NEW holding PROVE DecidesByForm(st, v, holding)
<1>1. CASE st.op = "not"
  BY <1>1, OperatorsDiffer, Zenon DEF DecidesByForm, Decides
<1>2. CASE st.op = "and"
  BY <1>2, OperatorsDiffer, Zenon DEF DecidesByForm, Decides, Connectives
<1>3. CASE st.op = "or"
  BY <1>3, OperatorsDiffer, Zenon DEF DecidesByForm, Decides, Connectives
<1>4. CASE st.op = "all"
  BY <1>4, OperatorsDiffer, Zenon DEF DecidesByForm, Decides, Quantifiers
<1>5. CASE st.op = "any"
  BY <1>5, OperatorsDiffer, Zenon DEF DecidesByForm, Decides, Quantifiers
<1>6. CASE st.op \in Leaves
  BY <1>6, Zenon DEF DecidesByForm, Decides, Leaves, Equalities, Comparisons
<1>7. CASE st.op \notin Leaves \cup {"not", "and", "or", "all", "any"}
  BY <1>7, Zenon DEF DecidesByForm
<1>. QED  BY <1>1, <1>2, <1>3, <1>4, <1>5, <1>6, <1>7, Zenon

\* What is said of the statements inside settles it.
LEMMA DecidedByInners ==
  ASSUME NEW T, NEW st, Composed(st, T), NEW v \in Values, NEW f, NEW g,
         \A x \in T, w \in Values : f[<<x, w>>] = g[<<x, w>>]
  PROVE  Decides(st, v, f) = Decides(st, v, g)
<1>. DEFINE found == Found(st.sel, v)
            items == Elements(found)
<1>0. DecidesByForm(st, v, f) /\ DecidesByForm(st, v, g)
  BY FormsDecide
<1>1. CASE st.op \in Connectives
  <2>1. \A k \in DOMAIN st.list : f[<<st.list[k], v>>] = g[<<st.list[k], v>>]
    BY <1>1, OperatorsDiffer DEF Composed
  <2>2. CASE st.op = "and"
    BY <1>0, <2>1, <2>2 DEF DecidesByForm
  <2>3. CASE st.op = "or"
    BY <1>0, <2>1, <2>3 DEF DecidesByForm
  <2>. QED  BY <1>1, <2>2, <2>3 DEF Connectives
<1>2. CASE st.op = "not"
  <2>1. f[<<st.inner, v>>] = g[<<st.inner, v>>]
    BY <1>2, OperatorsDiffer DEF Composed
  <2>. QED  BY <1>0, <1>2, <2>1 DEF DecidesByForm
<1>3. CASE st.op \in Quantifiers
  <2>1. st.inner \in T /\ st.sel \in Selectors
    BY <1>3, OperatorsDiffer DEF Composed
  <2>2. found \in Outcomes
    BY <2>1, FindsOutcomes
  <2>3. HasElements(found) => \A k \in DOMAIN items : items[k] \in Values
    BY <2>2, ElementsAreValues
  <2>4. HasElements(found) =>
          \A k \in DOMAIN items : f[<<st.inner, items[k]>>] = g[<<st.inner, items[k]>>]
    BY <2>1, <2>3
  <2>5. CASE st.op = "all"
    BY <1>0, <2>4, <2>5 DEF DecidesByForm
  <2>6. CASE st.op = "any"
    BY <1>0, <2>4, <2>6 DEF DecidesByForm
  <2>. QED  BY <1>3, <2>5, <2>6 DEF Quantifiers
<1>4. CASE st.op \in Leaves
  BY <1>0, <1>4 DEF DecidesByForm
<1>. QED  BY <1>1, <1>2, <1>3, <1>4 DEF Composed

IsVerdict(f, n) == f = [pair \in StatementsUpTo(n) \X Values |-> Decides(pair[1], pair[2], f)]

LEMMA VerdictAt ==
  ASSUME NEW n, NEW f, IsVerdict(f, n), NEW st \in StatementsUpTo(n), NEW v \in Values
  PROVE  f[<<st, v>>] = Decides(st, v, f)
<1>. DEFINE g == [pair \in StatementsUpTo(n) \X Values |-> Decides(pair[1], pair[2], f)]
<1>1. g[<<st, v>>] = Decides(st, v, f)
  OBVIOUS
<1>2. f = g
  BY DEF IsVerdict
<1>. QED  BY <1>1, <1>2, Zenon

LEMMA VerdictExists == \E f : IsVerdict(f, MaxDepth + 1)
<1>. DEFINE S == {n \in Nat : \E f : IsVerdict(f, n)}
<1>1. 0 \in S
  <2>. DEFINE f == [pair \in {} |-> TRUE]
              g == [pair \in StatementsUpTo(0) \X Values |-> Decides(pair[1], pair[2], f)]
  <2>1. f = g
    BY NoStatementsYet
  <2>2. IsVerdict(f, 0)
    BY <2>1 DEF IsVerdict
  <2>. QED  BY <2>2
<1>2. ASSUME NEW n \in Nat, n \in S PROVE n + 1 \in S
  <2>1. PICK f : IsVerdict(f, n)
    BY <1>2
  <2>. DEFINE g == [pair \in StatementsUpTo(n + 1) \X Values |-> Decides(pair[1], pair[2], f)]
              h == [pair \in StatementsUpTo(n + 1) \X Values |-> Decides(pair[1], pair[2], g)]
  <2>2. \A x \in StatementsUpTo(n), w \in Values : x \in StatementsUpTo(n + 1)
    BY StatementsGrow
  <2>3. \A x \in StatementsUpTo(n), w \in Values : f[<<x, w>>] = g[<<x, w>>]
    BY <2>1, <2>2, VerdictAt
  <2>. HIDE DEF g
  <2>4. ASSUME NEW x \in StatementsUpTo(n + 1), NEW w \in Values
        PROVE  Decides(x, w, f) = Decides(x, w, g)
    BY <2>3, StatementsAreComposed, DecidedByInners
  <2>5. g = h
    BY <2>4 DEF g
  <2>6. IsVerdict(g, n + 1)
    BY <2>5 DEF IsVerdict
  <2>. QED  BY <2>6
<1>. HIDE DEF S
<1>3. Nat \subseteq S
  BY <1>1, <1>2, Induction
<1>. QED  BY <1>3, ValuesAssumption DEF S

LEMMA HoldingDecides ==
  \A st \in Statements, v \in Values : Holding[<<st, v>>] = Decides(st, v, Holding)
<1>1. \E f : f = [pair \in Statements \X Values |-> Decides(pair[1], pair[2], f)]
  BY VerdictExists, AllAreStatements, Zenon DEF IsVerdict
<1>2. Holding = [pair \in Statements \X Values |-> Decides(pair[1], pair[2], Holding)]
  BY <1>1, Zenon DEF Holding
<1>3. IsVerdict(Holding, MaxDepth + 1)
  BY <1>2, AllAreStatements, Zenon DEF IsVerdict
<1>. QED  BY <1>3, VerdictAt, AllAreStatements, Zenon

----------------------------------------------------------------------------
(* Equal arguments are decided alike.                                      *)

LEMMA MeetAlike ==
  ASSUME NEW x, NEW y, AlikeOutcomes(x, y), NEW op \in Leaves, NEW operand \in Values,
         op \in Comparisons => IsNumber(operand)
  PROVE  Meets(op, x, operand) <=> Meets(op, y, operand)
<1>1. CASE x = y
  BY <1>1
<1>2. CASE x \in Things /\ y \in Things /\ Equal(x, y)
  <2>1. IsValue(x) /\ IsValue(y) /\ IsValue(operand) /\ x # Failed /\ y # Failed
    BY <1>2, ThingIsValue, FailedIsNoThing, ValuesAssumption
  <2>2. EqualInKind(x, y) /\ Equal(y, x)
    BY <1>2, <2>1, EqualCases, EqualIsEquivalence
  <2>3. CASE op \in Equalities
    <3>1. Equal(x, operand) <=> Equal(y, operand)
      BY <1>2, <2>1, <2>2, EqualIsEquivalence
    <3>2. /\ op = "==" => (Meets(op, x, operand) <=> x # Failed /\ Equal(x, operand))
          /\ op = "==" => (Meets(op, y, operand) <=> y # Failed /\ Equal(y, operand))
      BY Zenon DEF Meets, Comparisons
    <3>3. /\ op = "!=" => (Meets(op, x, operand) <=> ~(x # Failed /\ Equal(x, operand)))
          /\ op = "!=" => (Meets(op, y, operand) <=> ~(y # Failed /\ Equal(y, operand)))
      BY Zenon DEF Meets, Comparisons
    <3>. QED  BY <2>1, <2>3, <3>1, <3>2, <3>3 DEF Equalities
  <2>4. CASE op \in Comparisons
    <3>1. \A z : Meets(op, z, operand) <=> IsNumber(z) /\ Order(z, operand) \in Accepted(op)
      BY <2>4, Zenon DEF Meets, Compares, Comparisons
    <3>2. IsNumber(x) <=> IsNumber(y)
      BY <2>2 DEF EqualInKind, IsNumber
    <3>3. ASSUME IsNumber(x) PROVE Order(x, operand) = Order(y, operand)
      <4>1. Twice(x) = Twice(y) /\ IsNumber(y) /\ IsNumber(operand)
        BY <2>2, <2>4, <3>2, <3>3 DEF EqualInKind, IsNumber
      <4>. QED  BY <2>1, <3>3, <4>1, OrderedByValue
    <3>. QED  BY <3>1, <3>2, <3>3
  <2>5. CASE op = "like"
    <3>1. \A z : Meets(op, z, operand) <=> z.kind = "string" /\ z.text \in MatchesOf[operand.text]
      BY <2>5, Zenon DEF Meets, Comparisons
    <3>2. (x.kind = "string" \/ y.kind = "string") => x = y
      BY <2>2 DEF EqualInKind, IsNumber
    <3>. QED  BY <3>1, <3>2
  <2>. QED  BY <2>3, <2>4, <2>5 DEF Leaves
<1>. QED  BY <1>1, <1>2 DEF AlikeOutcomes

LEMMA ElementsAlike ==
  ASSUME NEW x, NEW y, AlikeOutcomes(x, y)
  PROVE  /\ HasElements(x) <=> HasElements(y)
         /\ HasElements(x) => AlikeItems(Elements(x), Elements(y))
<1>1. CASE x = Failed /\ y = Failed
  BY <1>1 DEF HasElements, Failed
<1>2. CASE x \in Things /\ y \in Things /\ Equal(x, y)
  <2>1. IsValue(x) /\ IsValue(y) /\ EqualInKind(x, y)
    BY <1>2, ThingIsValue, EqualCases
  <2>2. CASE x.kind = "list" /\ y.kind = "list" /\ SameItems(x, y)
    <3>1. x.items \in Seq(Values)
      BY <2>1, <2>2, ShapeOf DEF IsList
    <3>2. AlikeItems(x.items, y.items)
      BY <2>2, <3>1 DEF AlikeItems, SameItems
    <3>. QED  BY <2>2, <3>2 DEF HasElements, Elements
  <2>3. CASE x.kind = "map" /\ y.kind = "map" /\ SameEntries(x, y)
    <3>1. IsMap(x) /\ IsMap(y)
      BY <2>1, <2>3, ShapeOf
    <3>2. AlikeItems(ValuesOf(x), ValuesOf(y))
      BY <2>3, <3>1, ValuesOfAlike
    <3>. QED  BY <2>3, <3>2 DEF HasElements, Elements
  <2>4. CASE \/ IsNumber(x) /\ IsNumber(y)
             \/ x.kind \in {"null", "string", "bytes"} /\ x = y
    BY <2>4 DEF HasElements, IsNumber
  <2>. QED  BY <2>1, <2>2, <2>3, <2>4 DEF EqualInKind
<1>. QED  BY <1>1, <1>2 DEF AlikeOutcomes

\* The statements of T say the same of values that are equal.
SaysAlike(T) ==
  \A st \in T, a, b \in Values : Same[<<a, b>>] => (Holding[<<st, a>>] <=> Holding[<<st, b>>])

LEMMA DecidesAlike ==
  ASSUME NEW T, SaysAlike(T), NEW st, Composed(st, T),
         NEW a \in Values, NEW b \in Values, Same[<<a, b>>]
  PROVE  Decides(st, a, Holding) <=> Decides(st, b, Holding)
<1>. DEFINE x == Found(st.sel, a)
            y == Found(st.sel, b)
<1>1. DecidesByForm(st, a, Holding) /\ DecidesByForm(st, b, Holding)
  BY FormsDecide
<1>2. Equal(a, b) /\ a \in Things /\ b \in Things
  BY SameIsAlike DEF Equal, Things
<1>3. st.sel \in Selectors => AlikeOutcomes(x, y) /\ x \in Outcomes /\ y \in Outcomes
  BY <1>2, SelectorsAreTyped, ResolvesAlike, FindsOutcomes DEF Found
<1>4. CASE st.op \in Connectives
  <2>1. \A k \in DOMAIN st.list : Holding[<<st.list[k], a>>] <=> Holding[<<st.list[k], b>>]
    BY <1>4, OperatorsDiffer DEF Composed, SaysAlike
  <2>2. CASE st.op = "and"
    BY <1>1, <2>1, <2>2 DEF DecidesByForm
  <2>3. CASE st.op = "or"
    BY <1>1, <2>1, <2>3 DEF DecidesByForm
  <2>. QED  BY <1>4, <2>2, <2>3 DEF Connectives
<1>5. CASE st.op = "not"
  <2>1. Holding[<<st.inner, a>>] <=> Holding[<<st.inner, b>>]
    BY <1>5, OperatorsDiffer DEF Composed, SaysAlike
  <2>. QED  BY <1>1, <1>5, <2>1 DEF DecidesByForm
<1>6. CASE st.op \in Quantifiers
  <2>. DEFINE s == Elements(x)
              t == Elements(y)
  <2>1. st.inner \in T /\ AlikeOutcomes(x, y) /\ x \in Outcomes /\ y \in Outcomes
    BY <1>3, <1>6, OperatorsDiffer DEF Composed
  <2>2. HasElements(x) <=> HasElements(y)
    BY <2>1, ElementsAlike
  <2>3. ASSUME HasElements(x)
        PROVE  /\ DOMAIN s = DOMAIN t /\ (s = << >> <=> t = << >>)
               /\ \A k \in DOMAIN s : Holding[<<st.inner, s[k]>>] <=> Holding[<<st.inner, t[k]>>]
    <3>1. AlikeItems(s, t)
      BY <2>1, <2>3, ElementsAlike
    <3>2. /\ s \in Seq(Values) /\ DOMAIN s = 1 .. Len(s) /\ \A k \in DOMAIN s : s[k] \in Values
          /\ t \in Seq(Values) /\ DOMAIN t = 1 .. Len(t) /\ \A k \in DOMAIN t : t[k] \in Values
      BY <2>1, <2>2, <2>3, ElementsAreValues
    <3>. HIDE DEF s, t
    <3>3. DOMAIN s = DOMAIN t /\ \A k \in DOMAIN s : Same[<<s[k], t[k]>>]
      BY <3>1, <3>2 DEF AlikeItems
    <3>4. s = << >> <=> t = << >>
      BY <3>1, <3>2 DEF AlikeItems
    <3>. QED  BY <2>1, <3>2, <3>3, <3>4 DEF SaysAlike
  <2>4. CASE st.op = "all"
    BY <1>1, <2>2, <2>3, <2>4 DEF DecidesByForm
  <2>5. CASE st.op = "any"
    BY <1>1, <2>2, <2>3, <2>5 DEF DecidesByForm
  <2>. QED  BY <1>6, <2>4, <2>5 DEF Quantifiers
<1>7. CASE st.op \in Leaves
  <2>1. /\ AlikeOutcomes(x, y) /\ st.operand \in Values
        /\ st.op \in Comparisons => IsNumber(st.operand)
    BY <1>3, <1>7, OperatorsDiffer DEF Composed
  <2>. HIDE DEF x, y
  <2>2. Meets(st.op, x, st.operand) <=> Meets(st.op, y, st.operand)
    BY <1>7, <2>1, MeetAlike
  <2>. QED  BY <1>1, <1>7, <2>2 DEF DecidesByForm, x, y
<1>. QED  BY <1>4, <1>5, <1>6, <1>7 DEF Composed

LEMMA StatementsSayAlike == SaysAlike(Statements)
<1>. DEFINE S == {n \in Nat : SaysAlike(StatementsUpTo(n))}
<1>1. 0 \in S
  BY NoStatementsYet DEF SaysAlike
<1>2. ASSUME NEW n \in Nat, n \in S, n + 1 \in 0 .. MaxDepth + 1 PROVE n + 1 \in S
  <2>1. StatementsUpTo(n + 1) \subseteq Statements
    <3>1. Shallow(n + 1) \subseteq Values
      BY DEF Shallow
    <3>. QED  BY <3>1 DEF StatementsUpTo, Statements
  <2>2. ASSUME NEW st \in StatementsUpTo(n + 1), NEW a \in Values, NEW b \in Values,
               Same[<<a, b>>]
        PROVE  Holding[<<st, a>>] <=> Holding[<<st, b>>]
    <3>1. Composed(st, StatementsUpTo(n)) /\ SaysAlike(StatementsUpTo(n)) /\ st \in Statements
      BY <1>2, <2>1, StatementsAreComposed
    <3>2. Decides(st, a, Holding) <=> Decides(st, b, Holding)
      BY <2>2, <3>1, DecidesAlike
    <3>. QED  BY <3>1, <3>2, HoldingDecides
  <2>. QED  BY <2>2 DEF SaysAlike
<1>. HIDE DEF S
<1>3. 0 .. MaxDepth + 1 \subseteq S
  <2>1. \A n \in 0 .. MaxDepth + 1 - 1 : n \in S => n + 1 \in S
    BY <1>2, ValuesAssumption
  <2>. QED  BY <1>1, <2>1, InductionUpTo, ValuesAssumption
<1>4. MaxDepth + 1 \in S
  BY <1>3, ValuesAssumption
<1>. QED  BY <1>4, AllAreStatements DEF S

\* EqualArgumentsAreDecidedAlike, of every policy that parses and of values
\* nested to any depth: it makes no difference to a verdict which of equal
\* arguments a delegation is used with.
THEOREM EqualArgumentsDecide == Spec => []EqualArgumentsAreDecidedAlike
<1>1. EvalInv => EqualArgumentsAreDecidedAlike
  <2>. SUFFICES ASSUME EvalInv, args # None, NEW v \in Arguments, Equal(args, v)
                PROVE  Equal(v, args) /\ FirstFailing(policy, v) = verdict
    BY Zenon DEF EqualArgumentsAreDecidedAlike
  <2>1. args \in Values /\ v \in Values /\ IsValue(args) /\ IsValue(v)
    BY ArgumentsAreThings, PolicyAssumption, ValuesAssumption
  <2>2. Equal(v, args)
    BY <2>1, EqualIsEquivalence
  <2>3. Same[<<args, v>>]
    BY <2>1, SameIsAlike DEF Equal
  <2>4. Parsed /\ wire # None /\ verdict = FirstFailing(policy, args)
    BY DEF EvalInv, Parsed
  <2>5. \A k \in DOMAIN policy : policy[k] \in Statements
    <3>1. /\ wire \in Values /\ IsValue(wire) /\ wire.kind = "list"
          /\ \A k \in DOMAIN wire.items : ~IsError(FromIpld[wire.items[k]])
          /\ policy = ParsedItems(wire)
      BY <2>4, PolicyCases
    <3>2. \A k \in DOMAIN wire.items : wire.items[k] \in Values
      BY <3>1, PartsInValues DEF PartsIn
    <3>. QED  BY <3>1, <3>2 DEF ParsedItems, Statements
  <2>6. \A k \in DOMAIN policy : Holds(policy[k], args) <=> Holds(policy[k], v)
    <3>1. ASSUME NEW k \in DOMAIN policy PROVE Holds(policy[k], args) <=> Holds(policy[k], v)
      <4>1. policy[k] \in Statements
        BY <2>5
      <4>2. Holding[<<policy[k], args>>] <=> Holding[<<policy[k], v>>]
        BY <2>1, <2>3, <4>1, StatementsSayAlike DEF SaysAlike
      <4>. QED  BY <2>1, <4>1, <4>2, HoldingDecides DEF Holds
    <3>. QED  BY <3>1
  <2>7. FirstFailing(policy, v) = FirstFailing(policy, args)
    <3>. DEFINE Failing(w) == {k \in DOMAIN policy : ~Holds(policy[k], w)}
                First(F) == IF F = {} THEN 0 ELSE CHOOSE k \in F : \A j \in F : k <= j
    <3>1. Failing(v) = Failing(args)
      BY <2>6
    <3>2. \A w : FirstFailing(policy, w) = First(Failing(w))
      BY Zenon DEF FirstFailing
    <3>. HIDE DEF Failing, First
    <3>. QED  BY <3>1, <3>2
  <2>. QED  BY <2>2, <2>4, <2>7
<1>. QED  BY <1>1, EvalInvHolds, PTL
=============================================================================
