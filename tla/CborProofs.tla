------------------------------ MODULE CborProofs ------------------------------
(***************************************************************************)
(* DAG-CBOR both ways, for any bytes and for every size of a byte or a     *)
(* number: each value has one form, and what is encoded is decoded.        *)
(***************************************************************************)
EXTENDS TextProofs

----------------------------------------------------------------------------
(* Numbers and the bytes of them.                                          *)

LEMMA BaseType ==
  /\ Infos \in Nat /\ Direct \in Nat /\ Widths \in Nat /\ Widths >= 1 /\ Direct >= 4
  /\ Infos > Direct + Widths /\ MaxDepth \in Nat /\ CidTag \in Nat /\ FloatBytes \in Nat
  /\ Base \in Nat /\ Base = 8 * Infos /\ Base > 1 /\ Base > Direct
  BY CborAssumption DEF Base

\* ... and dividing by two numbers is dividing by their product.
LEMMA DivideTwice ==
  ASSUME NEW b \in Nat, b > 0, NEW c \in Nat, c > 0, NEW x \in Nat, NEW r \in 0 .. b - 1
  PROVE  (x * b + r) \div (b * c) = x \div c
<1>. DEFINE q == x \div c  t == x % c
<1>1. q \in Nat /\ t \in 0 .. c - 1 /\ x = c * q + t
  OBVIOUS
<1>. HIDE DEF q, t
<1>2. x * b + r = (b * c) * q + (b * t + r)
  BY <1>1
<1>3. b * t + r \in 0 .. b * c - 1
  <2>1. PICK d \in Nat : c = t + 1 + d
    BY <1>1, c - t - 1 \in Nat /\ c = t + 1 + (c - t - 1)
  <2>2. b * c = b * t + b + b * d /\ b * d >= 0 /\ b * t >= 0 /\ b * t \in Int /\ b * d \in Int
    BY <1>1, <2>1
  <2>. QED  BY <1>1, <2>2
<1>4. b * c \in Nat /\ b * c > 0
  OBVIOUS
<1>. DEFINE m == b * c  u == b * t + r
<1>. HIDE DEF m, u
<1>5. (m * q + u) \div m = q
  BY <1>1, <1>3, <1>4, DivideUnique DEF m, u
<1>. QED  BY <1>2, <1>5 DEF m, u, q

IsPower(f) == f = [n \in 0 .. Widths |-> IF n = 0 THEN 1 ELSE Base * f[n - 1]]

LEMMA PowerRule ==
  /\ Power[0] = 1
  /\ \A w \in 0 .. Widths : Power[w] \in Nat /\ Power[w] > 0
  /\ \A w \in 1 .. Widths : Power[w] = Base * Power[w - 1]
<1>. DEFINE step == [k \in 1 .. Widths |-> [x \in Nat |-> Base * x]]
<1>1. Widths \in Nat
  BY BaseType
<1>2. step \in [1 .. Widths -> [Nat -> Nat]]
  BY BaseType
<1>3. \A k \in 1 .. Widths : \A x \in Nat : step[k][x] = Base * x
  OBVIOUS
<1>. HIDE DEF step
<1>4. PICK f : Iterates(f, Widths, Nat, 1, step)
  BY <1>1, <1>2, Iteration, 1 \in Nat
<1>5. f \in [0 .. Widths -> Nat] /\ f[0] = 1 /\ \A k \in 1 .. Widths : f[k] = Base * f[k - 1]
  <2>1. f \in [0 .. Widths -> Nat] /\ f[0] = 1 /\ \A k \in 1 .. Widths : f[k] = step[k][f[k - 1]]
    BY <1>4 DEF Iterates
  <2>2. \A k \in 1 .. Widths : f[k - 1] \in Nat
    BY <1>1, <2>1
  <2>. QED  BY <1>3, <2>1, <2>2
<1>6. IsPower(f)
  <2>. DEFINE g == [n \in 0 .. Widths |-> IF n = 0 THEN 1 ELSE Base * f[n - 1]]
  <2>1. \A n \in 0 .. Widths : f[n] = g[n]
    BY <1>1, <1>5
  <2>2. f = g
    BY <1>5, <2>1
  <2>. QED  BY <2>2 DEF IsPower
<1>7. IsPower(Power)
  BY <1>6, Zenon DEF Power, IsPower
<1>. DEFINE P == Power
<1>. HIDE DEF P
<1>8. \A n \in 0 .. Widths : P[n] = IF n = 0 THEN 1 ELSE Base * P[n - 1]
  <2>. DEFINE g == [n \in 0 .. Widths |-> IF n = 0 THEN 1 ELSE Base * P[n - 1]]
  <2>1. P = g
    BY <1>7 DEF IsPower, P
  <2>2. \A n \in 0 .. Widths : g[n] = IF n = 0 THEN 1 ELSE Base * P[n - 1]
    BY Zenon
  <2>. QED  BY <2>1, <2>2, Zenon
<1>9. P[0] = 1 /\ \A j \in 1 .. Widths : P[j] = Base * P[j - 1]
  BY <1>1, <1>8
<1>. DEFINE S == {j \in 0 .. Widths : P[j] \in Nat /\ P[j] > 0}
<1>10. 0 \in S
  BY <1>1, <1>9
<1>11. ASSUME NEW j \in 0 .. Widths - 1, j \in S PROVE j + 1 \in S
  <2>1. j + 1 \in 1 .. Widths /\ j + 1 - 1 = j
    BY <1>1
  <2>2. P[j + 1] = Base * P[j] /\ P[j] \in Nat /\ P[j] > 0
    BY <1>9, <1>11, <2>1
  <2>3. \A x \in Nat : x > 0 => Base * x \in Nat /\ Base * x > 0
    BY BaseType
  <2>. QED  BY <1>1, <2>1, <2>2, <2>3
<1>12. 0 .. Widths \subseteq S
  <2>. HIDE DEF S
  <2>. QED  BY <1>1, <1>10, <1>11, InductionUpTo
<1>. QED  BY <1>9, <1>12 DEF P

LEMMA LargestType ==
  /\ Largest(0) = Direct - 1
  /\ \A w \in 1 .. Widths : Largest(w) = Power[w] - 1
  /\ \A w \in 0 .. Widths : Largest(w) \in Nat
  /\ MaxArg = Largest(Widths)
<1>1. \A w \in 0 .. Widths : Power[w] \in Nat /\ Power[w] > 0
  BY PowerRule
<1>. QED  BY <1>1, BaseType DEF Largest, MaxArg

\* More bytes hold more.
LEMMA LargestGrows ==
  ASSUME NEW w \in 1 .. Widths
  PROVE  \A v \in 0 .. w - 1 : Largest(v) < Largest(w)
<1>1. \A j \in 1 .. Widths : Largest(j - 1) < Largest(j)
  <2>. TAKE j \in 1 .. Widths
  <2>1. j - 1 \in 0 .. Widths /\ (j # 1 => j - 1 \in 1 .. Widths)
    BY BaseType
  <2>2. Power[j] = Base * Power[j - 1] /\ Power[j - 1] \in Nat /\ Power[j - 1] > 0 /\ Largest(j) = Power[j] - 1
    BY <2>1, PowerRule, LargestType
  <2>. DEFINE p == Power[j - 1]
  <2>. HIDE DEF p
  <2>3. p \in Nat /\ p > 0 => Base * p > p
    BY BaseType
  <2>4. CASE j = 1
    <3>1. Power[j - 1] = 1
      BY <2>4, PowerRule
    <3>. QED  BY <2>2, <2>4, <3>1, LargestType, BaseType
  <2>5. CASE j # 1
    <3>1. Largest(j - 1) = p - 1
      BY <2>1, <2>5, LargestType DEF p
    <3>2. Largest(j) = Base * p - 1 /\ p \in Nat /\ p > 0 /\ Base * p \in Int
      BY <2>2, BaseType DEF p
    <3>. QED  BY <2>3, <3>1, <3>2
  <2>. QED  BY <2>4, <2>5
<1>. DEFINE S == {d \in 0 .. Widths : \A v \in 0 .. Widths : v + d + 1 <= Widths => Largest(v) < Largest(v + d + 1)}
<1>2. 0 \in S
  <2>1. ASSUME NEW v \in 0 .. Widths, v + 0 + 1 <= Widths PROVE Largest(v) < Largest(v + 0 + 1)
    <3>. DEFINE j == v + 1
    <3>1. j \in 1 .. Widths /\ j - 1 = v /\ v + 0 + 1 = j
      BY <2>1, BaseType
    <3>. HIDE DEF j
    <3>2. Largest(j - 1) < Largest(j)
      BY <1>1, <3>1
    <3>. QED  BY <3>1, <3>2
  <2>. QED  BY <2>1, BaseType
<1>3. ASSUME NEW d \in 0 .. Widths - 1, d \in S PROVE d + 1 \in S
  <2>1. ASSUME NEW v \in 0 .. Widths, v + (d + 1) + 1 <= Widths PROVE Largest(v) < Largest(v + (d + 1) + 1)
    <3>. DEFINE j == v + d + 2  i == v + d + 1
    <3>1. j \in 1 .. Widths /\ j - 1 = i /\ v + (d + 1) + 1 = j /\ i <= Widths /\ i \in 0 .. Widths /\ j \in 0 .. Widths
      BY <2>1, BaseType
    <3>2. Largest(v) < Largest(i)
      BY <1>3, <3>1
    <3>. HIDE DEF i, j
    <3>3. Largest(j - 1) < Largest(j)
      BY <1>1, <3>1
    <3>4. Largest(v) \in Nat /\ Largest(i) \in Nat /\ Largest(j) \in Nat
      BY <3>1, LargestType
    <3>. QED  BY <3>1, <3>2, <3>3, <3>4
  <2>. QED  BY <2>1, BaseType
<1>. HIDE DEF S
<1>4. 0 .. Widths \subseteq S
  BY <1>2, <1>3, InductionUpTo, BaseType
<1>5. ASSUME NEW v \in 0 .. w - 1 PROVE Largest(v) < Largest(w)
  <2>. DEFINE d == w - v - 1
  <2>1. d \in 0 .. Widths /\ v \in 0 .. Widths /\ v + d + 1 = w /\ v + d + 1 <= Widths
    BY BaseType
  <2>. HIDE DEF d
  <2>. QED  BY <1>4, <2>1 DEF S
<1>. QED  BY <1>5

\* How many bytes an argument takes.
IsWidth(w, arg) == w \in 0 .. Widths /\ arg <= Largest(w) /\ (w > 0 => arg > Largest(w - 1))

LEMMA HeadForm ==
  ASSUME NEW arg \in Nat, NEW w, IsWidth(w, arg), NEW major
  PROVE  EncodeHead(major, arg) = HeadIn(w, major, arg)
<1>. DEFINE C == CHOOSE v \in 0 .. Widths : arg <= Largest(v) /\ (v > 0 => arg > Largest(v - 1))
<1>1. IsWidth(C, arg)
  BY DEF IsWidth
<1>2. C = w
  <2>1. ASSUME NEW a, NEW b, IsWidth(a, arg), IsWidth(b, arg), a < b PROVE FALSE
    <3>1. b - 1 \in 0 .. Widths /\ b \in 1 .. Widths /\ a \in 0 .. b - 1 /\ a \in 0 .. Widths
      BY <2>1, BaseType DEF IsWidth
    <3>2. Largest(a) <= Largest(b - 1)
      <4>1. CASE a = b - 1
        BY <3>1, <4>1, LargestType
      <4>2. CASE a # b - 1
        <5>. DEFINE c == b - 1
        <5>1. c \in 1 .. Widths /\ a \in 0 .. c - 1 /\ c \in 0 .. Widths
          BY <3>1, <4>2, BaseType
        <5>. HIDE DEF c
        <5>2. Largest(a) < Largest(c)
          BY <5>1, LargestGrows
        <5>3. Largest(a) \in Nat /\ Largest(c) \in Nat
          BY <3>1, <5>1, LargestType
        <5>. QED  BY <5>2, <5>3 DEF c
      <4>. QED  BY <4>1, <4>2
    <3>3. Largest(a) \in Nat /\ Largest(b - 1) \in Nat
      BY <3>1, LargestType
    <3>4. arg <= Largest(a) /\ arg > Largest(b - 1)
      BY <2>1, <3>1 DEF IsWidth
    <3>. QED  BY <3>2, <3>3, <3>4
  <2>2. C \in Int /\ w \in Int
    BY <1>1, BaseType DEF IsWidth
  <2>. HIDE DEF C
  <2>3. ~(C < w) /\ ~(w < C)
    BY <1>1, <2>1
  <2>. QED  BY <2>2, <2>3
<1>. QED  BY <1>2 DEF EncodeHead

LEMMA BytesType ==
  ASSUME NEW s \in Seq(Byte)
  PROVE  Len(s) \in Nat /\ \A k \in 1 .. Len(s) : s[k] \in Byte /\ s[k] \in Nat /\ s[k] \in 0 .. Base - 1
<1>1. Len(s) \in Nat /\ \A k \in 1 .. Len(s) : s[k] \in Byte
  OBVIOUS
<1>2. \A x \in Byte : x \in Nat /\ x \in 0 .. Base - 1
  BY BaseType DEF Byte
<1>. QED  BY <1>1, <1>2

\* The bytes of a number, most significant first.
IsNumber(f, b) ==
  f = [k \in 0 .. Len(b) |-> IF k = 0 THEN 0 ELSE f[k - 1] * Base + b[k]]

LEMMA NumberExists ==
  ASSUME NEW b \in Seq(Byte)
  PROVE  \E f : IsNumber(f, b)
<1>. DEFINE l == Len(b)
            step == [k \in 1 .. l |-> [x \in Nat |-> x * Base + b[k]]]
<1>1. l \in Nat /\ \A k \in 1 .. l : b[k] \in Nat
  BY BytesType
<1>. HIDE DEF l
<1>2. step \in [1 .. l -> [Nat -> Nat]]
  <2>1. \A k \in 1 .. l : \A x \in Nat : x * Base + b[k] \in Nat
    BY <1>1, BaseType
  <2>. QED  BY <2>1
<1>3. \A k \in 1 .. l : \A x \in Nat : step[k][x] = x * Base + b[k]
  OBVIOUS
<1>. HIDE DEF step
<1>4. PICK f : Iterates(f, l, Nat, 0, step)
  BY <1>1, <1>2, Iteration, 0 \in Nat
<1>5. f \in [0 .. l -> Nat] /\ f[0] = 0 /\ \A k \in 1 .. l : f[k] = f[k - 1] * Base + b[k]
  <2>1. f \in [0 .. l -> Nat] /\ f[0] = 0 /\ \A k \in 1 .. l : f[k] = step[k][f[k - 1]]
    BY <1>4 DEF Iterates
  <2>2. ASSUME NEW k \in 1 .. l PROVE f[k - 1] \in Nat
    <3>1. l \in Nat /\ f \in [0 .. l -> Nat]
      BY <1>1, <2>1
    <3>2. k - 1 \in 0 .. l
      BY <3>1
    <3>. QED  BY <3>1, <3>2
  <2>. QED  BY <1>3, <2>1, <2>2
<1>. DEFINE g == [k \in 0 .. l |-> IF k = 0 THEN 0 ELSE f[k - 1] * Base + b[k]]
<1>6. \A k \in 0 .. l : f[k] = g[k]
  BY <1>1, <1>5
<1>7. f = g
  BY <1>5, <1>6
<1>. QED  BY <1>7 DEF IsNumber, l

\* What a number has below its k-th byte, and the bytes that this has.
HasBytes(n, b, k) ==
  /\ n \in Nat /\ n < Power[k]
  /\ \A j \in 1 .. k : (n \div Power[k - j]) % Base = b[j]

LEMMA NumberSplits ==
  ASSUME NEW b \in Seq(Byte), Len(b) <= Widths
  PROVE  HasBytes(BigEndianValue(b), b, Len(b))
<1>. DEFINE F == CHOOSE f : IsNumber(f, b)  l == Len(b)
<1>1. l \in Nat /\ l <= Widths /\ \A k \in 1 .. l : b[k] \in 0 .. Base - 1
  BY BytesType
<1>2. BigEndianValue(b) = F[l]
  BY Zenon DEF BigEndianValue, IsNumber
<1>3. IsNumber(F, b)
  BY NumberExists
<1>. HIDE DEF F
<1>4. F[0] = 0 /\ \A k \in 1 .. l : F[k] = F[k - 1] * Base + b[k]
  <2>. DEFINE g == [k \in 0 .. l |-> IF k = 0 THEN 0 ELSE F[k - 1] * Base + b[k]]
  <2>1. F = g
    BY <1>3 DEF IsNumber
  <2>. HIDE DEF l
  <2>2. g[0] = 0 /\ \A k \in 1 .. l : g[k] = F[k - 1] * Base + b[k]
    BY <1>1
  <2>. HIDE DEF g
  <2>. QED  BY <2>1, <2>2
<1>. HIDE DEF l
<1>. DEFINE S == {k \in 0 .. l : HasBytes(F[k], b, k)}
<1>5. 0 \in S
  BY <1>1, <1>4, PowerRule DEF HasBytes
<1>6. ASSUME NEW k \in 0 .. l - 1, k \in S PROVE k + 1 \in S
  <2>. DEFINE n == F[k]  m == F[k + 1]  i == k + 1
  <2>1. i \in 1 .. l /\ i \in 0 .. l /\ i \in 1 .. Widths /\ i - 1 = k /\ k \in 0 .. Widths
    BY <1>1, BaseType
  <2>2. m = n * Base + b[i] /\ n \in Nat /\ n < Power[k] /\ b[i] \in 0 .. Base - 1
    BY <1>1, <1>4, <1>6, <2>1 DEF HasBytes
  <2>3. \A j \in 1 .. k : (n \div Power[k - j]) % Base = b[j]
    BY <1>6 DEF HasBytes
  <2>4. Power[i] = Base * Power[k] /\ Power[k] \in Nat
    BY <2>1, PowerRule
  <2>. HIDE DEF n, m, i
  <2>5. m \in Nat /\ m < Power[i]
    <3>. DEFINE p == Power[k]
    <3>. HIDE DEF p
    <3>1. PICK d \in Nat : p = n + 1 + d
      BY <2>2, <2>4, p - n - 1 \in Nat /\ p = n + 1 + (p - n - 1) DEF p
    <3>2. Base * p = n * Base + Base + Base * d /\ n * Base \in Nat /\ Base * d \in Nat /\ Base \in Nat
      BY <2>2, <3>1, BaseType
    <3>3. m < Base * p /\ m \in Nat
      BY <2>2, <3>2
    <3>. QED  BY <2>4, <3>3 DEF p
  <2>6. ASSUME NEW j \in 1 .. i PROVE (m \div Power[i - j]) % Base = b[j]
    <3>1. CASE j = i
      <4>1. Power[i - j] = 1 /\ m \div 1 = m
        BY <2>1, <2>5, <3>1, PowerRule
      <4>2. (Base * n + b[i]) % Base = b[i]
        <5>1. n \in Nat /\ b[i] \in 0 .. Base - 1 /\ Base \in Nat /\ Base > 0
          BY <2>2, BaseType
        <5>. QED  BY <5>1, DivideUnique
      <4>3. Base * n + b[i] = m
        BY <2>2, BaseType
      <4>. QED  BY <3>1, <4>1, <4>2, <4>3
    <3>2. CASE j # i
      <4>. DEFINE c == k - j
      <4>1. j \in 1 .. k /\ c \in 0 .. Widths /\ c + 1 \in 1 .. Widths /\ i - j = c + 1 /\ c + 1 - 1 = c
        BY <1>1, <2>1, <3>2, BaseType
      <4>2. (n \div Power[c]) % Base = b[j]
        BY <2>3, <4>1
      <4>. HIDE DEF c
      <4>3. Power[c + 1] = Base * Power[c] /\ Power[c] \in Nat /\ Power[c] > 0
        BY <4>1, PowerRule
      <4>4. (n * Base + b[i]) \div (Base * Power[c]) = n \div Power[c]
        <5>1. n \in Nat /\ b[i] \in 0 .. Base - 1 /\ Base \in Nat /\ Base > 0
          BY <2>2, BaseType
        <5>. QED  BY <4>3, <5>1, DivideTwice
      <4>. QED  BY <2>2, <4>1, <4>2, <4>3, <4>4
    <3>. QED  BY <3>1, <3>2
  <2>7. HasBytes(m, b, i)
    BY <2>5, <2>6 DEF HasBytes
  <2>. QED  BY <2>1, <2>7 DEF m, i
<1>. HIDE DEF S
<1>7. 0 .. l \subseteq S
  BY <1>1, <1>5, <1>6, InductionUpTo
<1>8. l \in S
  BY <1>1, <1>7
<1>. QED  BY <1>2, <1>8 DEF S, l

\* ... are read as the number that is written in them.
LEMMA BigEndianOf ==
  ASSUME NEW b \in Seq(Byte), Len(b) <= Widths
  PROVE  /\ BigEndianValue(b) \in Nat /\ BigEndianValue(b) < Power[Len(b)]
         /\ BigEndian(BigEndianValue(b), Len(b)) = b
<1>. DEFINE n == BigEndianValue(b)  l == Len(b)
<1>1. HasBytes(n, b, l) /\ l \in Nat
  BY NumberSplits
<1>2. b \in [1 .. l -> Byte]
  OBVIOUS
<1>. HIDE DEF n, l
<1>3. \A j \in 1 .. l : (n \div Power[l - j]) % Base = b[j]
  BY <1>1 DEF HasBytes
<1>4. BigEndian(n, l) = b
  BY <1>2, <1>3 DEF BigEndian
<1>. QED  BY <1>1, <1>4 DEF HasBytes, n, l

----------------------------------------------------------------------------
(* What is read, from one position to another.                             *)

Part(s, p, q) == SubSeq(s, p + 1, q)
Spans(s, p, q) == p \in 0 .. Len(s) /\ q \in p .. Len(s)

LEMMA SpansType ==
  ASSUME NEW s \in Seq(Byte), NEW p, NEW q, Spans(s, p, q)
  PROVE  /\ p \in Nat /\ q \in Nat /\ p <= q /\ q <= Len(s) /\ Len(s) \in Nat
         /\ p \in 0 .. Len(s) /\ q \in 0 .. Len(s)
  BY BytesType DEF Spans

LEMMA PartType ==
  ASSUME NEW s \in Seq(Byte), NEW p, NEW q, Spans(s, p, q)
  PROVE  /\ Part(s, p, q) \in Seq(Byte) /\ Len(Part(s, p, q)) = q - p
         /\ \A k \in 1 .. q - p : Part(s, p, q)[k] = s[p + k]
<1>1. p \in Nat /\ q \in Nat /\ p <= q /\ q <= Len(s) /\ Len(s) \in Nat
  BY SpansType
<1>2. \A k \in p + 1 .. q : s[k] \in Byte
  BY <1>1
<1>. QED  BY <1>1, <1>2 DEF Part

LEMMA PartLen ==
  ASSUME NEW s \in Seq(Byte), NEW p \in Nat, NEW n \in Nat, Spans(s, p, p + n)
  PROVE  Part(s, p, p + n) \in Seq(Byte) /\ Len(Part(s, p, p + n)) = n
<1>. DEFINE q == p + n
<1>1. q - p = n
  OBVIOUS
<1>. HIDE DEF q
<1>2. Spans(s, p, q)
  BY DEF q
<1>3. Part(s, p, q) \in Seq(Byte) /\ Len(Part(s, p, q)) = q - p
  BY <1>2, PartType
<1>. QED  BY <1>1, <1>3 DEF q

LEMMA PartsJoin ==
  ASSUME NEW s \in Seq(Byte), NEW p, NEW q, NEW r, Spans(s, p, q), Spans(s, q, r)
  PROVE  Spans(s, p, r) /\ Part(s, p, q) \o Part(s, q, r) = Part(s, p, r)
<1>1. p \in Nat /\ q \in Nat /\ r \in Nat /\ p <= q /\ q <= r /\ r <= Len(s) /\ Len(s) \in Nat
  BY SpansType
<1>2. Spans(s, p, r)
  BY <1>1 DEF Spans
<1>. DEFINE a == Part(s, p, q)  b == Part(s, q, r)  c == Part(s, p, r)
<1>3. a \in Seq(Byte) /\ Len(a) = q - p /\ \A k \in 1 .. q - p : a[k] = s[p + k]
  BY PartType
<1>4. b \in Seq(Byte) /\ Len(b) = r - q /\ \A k \in 1 .. r - q : b[k] = s[q + k]
  BY PartType
<1>5. c \in Seq(Byte) /\ Len(c) = r - p /\ \A k \in 1 .. r - p : c[k] = s[p + k]
  BY <1>2, PartType
<1>. HIDE DEF a, b, c
<1>. DEFINE d == a \o b
<1>6. /\ d \in Seq(Byte) /\ Len(d) = Len(a) + Len(b)
      /\ \A k \in 1 .. Len(a) : d[k] = a[k]
      /\ \A k \in 1 .. Len(b) : d[Len(a) + k] = b[k]
  <2>1. d \in Seq(Byte) /\ IsConcat(d, a, b)
    BY <1>3, <1>4, ConcatType
  <2>. HIDE DEF d
  <2>. QED  BY <2>1 DEF IsConcat
<1>. HIDE DEF d
<1>7. Len(d) = r - p
  BY <1>1, <1>3, <1>4, <1>6
<1>8. ASSUME NEW k \in 1 .. r - p PROVE d[k] = c[k]
  <2>1. CASE k <= q - p
    <3>1. k \in 1 .. q - p /\ k \in 1 .. Len(a)
      BY <1>1, <1>3, <2>1
    <3>. QED  BY <1>3, <1>5, <1>6, <3>1 DEF d
  <2>2. CASE ~(k <= q - p)
    <3>. DEFINE j == k - (q - p)
    <3>1. j \in 1 .. r - q /\ j \in 1 .. Len(b) /\ Len(a) + j = k /\ q + j = p + k
      BY <1>1, <1>3, <1>4, <2>2
    <3>. HIDE DEF j
    <3>2. d[k] = b[j] /\ b[j] = s[q + j] /\ c[k] = s[p + k]
      BY <1>4, <1>5, <1>6, <3>1
    <3>. QED  BY <3>1, <3>2
  <2>. QED  BY <2>1, <2>2
<1>9. d = c
  <2>1. d \in Seq(Byte) /\ Len(d) = Len(c) /\ \A k \in 1 .. Len(d) : d[k] = c[k]
    BY <1>5, <1>6, <1>7, <1>8
  <2>. QED  BY <1>5, <2>1, SameSequence
<1>. QED  BY <1>2, <1>9 DEF a, b, c, d

LEMMA PartOne ==
  ASSUME NEW s \in Seq(Byte), NEW p \in Nat, p < Len(s)
  PROVE  Spans(s, p, p + 1) /\ Part(s, p, p + 1) = << s[p + 1] >> /\ s[p + 1] \in Byte
<1>1. Len(s) \in Nat /\ p + 1 \in 1 .. Len(s) /\ s[p + 1] \in Byte
  BY BytesType
<1>2. Spans(s, p, p + 1)
  BY <1>1 DEF Spans
<1>. DEFINE a == Part(s, p, p + 1)  b == << s[p + 1] >>
<1>3. Len(a) = 1 /\ a \in Seq(Byte) /\ \A k \in 1 .. 1 : a[k] = s[p + k]
  <2>. DEFINE q == p + 1
  <2>1. q - p = 1
    OBVIOUS
  <2>. HIDE DEF q
  <2>2. Spans(s, p, q)
    BY <1>2 DEF q
  <2>3. /\ Part(s, p, q) \in Seq(Byte) /\ Len(Part(s, p, q)) = q - p
        /\ \A k \in 1 .. q - p : Part(s, p, q)[k] = s[p + k]
    BY <2>2, PartType
  <2>. QED  BY <2>1, <2>3 DEF q
<1>4. b \in Seq(Byte) /\ Len(b) = 1 /\ b[1] = s[p + 1]
  BY <1>1
<1>. HIDE DEF a, b
<1>5. Len(a) = Len(b) /\ \A k \in 1 .. Len(a) : a[k] = b[k]
  BY <1>3, <1>4
<1>6. a = b
  BY <1>3, <1>4, <1>5, SameSequence
<1>. QED  BY <1>1, <1>2, <1>6 DEF a, b

LEMMA PartWhole ==
  ASSUME NEW s \in Seq(Byte)
  PROVE  Spans(s, 0, Len(s)) /\ Part(s, 0, Len(s)) = s
<1>1. Len(s) \in Nat
  OBVIOUS
<1>2. Spans(s, 0, Len(s))
  BY <1>1 DEF Spans
<1>. DEFINE a == Part(s, 0, Len(s))
<1>3. a \in Seq(Byte) /\ Len(a) = Len(s) - 0 /\ \A k \in 1 .. Len(s) - 0 : a[k] = s[0 + k]
  BY <1>2, PartType
<1>. HIDE DEF a
<1>4. Len(a) = Len(s) /\ \A k \in 1 .. Len(a) : a[k] = s[k]
  BY <1>1, <1>3
<1>. QED  BY <1>2, <1>3, <1>4, SameSequence DEF a

LEMMA PartNone ==
  ASSUME NEW s \in Seq(Byte), NEW p \in 0 .. Len(s)
  PROVE  Spans(s, p, p) /\ Part(s, p, p) = << >>
<1>1. Spans(s, p, p) /\ p \in Nat
  BY BytesType DEF Spans
<1>. DEFINE a == Part(s, p, p)
<1>2. a \in Seq(Byte) /\ Len(a) = p - p
  BY <1>1, PartType
<1>. HIDE DEF a
<1>3. a = << >>
  BY <1>1, <1>2
<1>. QED  BY <1>1, <1>3 DEF a

LEMMA Results ==
  /\ \A v, p : IsOk(Read(v, p)) /\ Read(v, p).value = v /\ Read(v, p).pos = p
  /\ \A e : IsOk(Fail(e)) <=> e = "Ok"
  BY DEF Read, Fail, IsOk

LEMMA TakeOk ==
  ASSUME NEW s \in Seq(Byte), NEW p \in 0 .. Len(s), NEW len \in Nat, IsOk(Take(s, p, len))
  PROVE  /\ Spans(s, p, p + len) /\ p + len <= MaxArg
         /\ Take(s, p, len) = Read(Part(s, p, p + len), p + len)
<1>1. ~(p + len > MaxArg) /\ ~(p + len > Len(s))
  BY Results DEF Take
<1>2. Len(s) \in Nat /\ MaxArg \in Nat
  BY BytesType, LargestType, BaseType
<1>3. Spans(s, p, p + len) /\ p + len <= MaxArg
  BY <1>1, <1>2 DEF Spans
<1>. QED  BY <1>1, <1>3 DEF Take, Part

\* An argument is read from the only form of its head that is written.
IsArgument(s, p, info, r) ==
  /\ r.value \in Nat /\ r.value <= MaxArg
  /\ Spans(s, p, r.pos)
  /\ \A major : EncodeHead(major, r.value) = << major * Infos + info >> \o Part(s, p, r.pos)

LEMMA ArgumentOk ==
  ASSUME NEW s \in Seq(Byte), NEW p \in 0 .. Len(s), NEW info \in 0 .. Infos - 1,
         IsOk(Argument(s, p, info))
  PROVE  IsArgument(s, p, info, Argument(s, p, info))
<1>. DEFINE r == Argument(s, p, info)
<1>1. CASE info < Direct
  <2>1. r = Read(info, p)
    BY <1>1 DEF Argument
  <2>2. r.value = info /\ r.pos = p
    BY <2>1, Results
  <2>. HIDE DEF r
  <2>3. info \in Nat /\ 0 \in 0 .. Widths /\ Widths \in 0 .. Widths
    BY BaseType
  <2>4. IsWidth(0, info)
    BY <1>1, <2>3, LargestType, BaseType DEF IsWidth
  <2>5. info <= MaxArg
    <3>1. Largest(0) < Largest(Widths)
      BY LargestGrows, BaseType
    <3>2. info <= Largest(0) /\ Largest(0) \in Nat /\ Largest(Widths) \in Nat /\ MaxArg = Largest(Widths)
      BY <1>1, <2>3, LargestType, BaseType
    <3>. QED  BY <2>3, <3>1, <3>2
  <2>6. Spans(s, p, p) /\ Part(s, p, p) = << >>
    BY PartNone
  <2>7. ASSUME NEW major PROVE EncodeHead(major, info) = << major * Infos + info >> \o << >>
    <3>1. EncodeHead(major, info) = HeadIn(0, major, info)
      BY <2>3, <2>4, HeadForm
    <3>2. BigEndian(info, 0) = << >>
      BY DEF BigEndian
    <3>. QED  BY <3>1, <3>2 DEF HeadIn
  <2>. QED  BY <2>2, <2>3, <2>5, <2>6, <2>7 DEF IsArgument, r
<1>2. CASE ~(info < Direct) /\ info < Direct + Widths
  <2>. DEFINE w == info - Direct + 1
  <2>1. w \in 1 .. Widths /\ info = Direct + w - 1 /\ w \in Nat /\ w \in 0 .. Widths /\ w - 1 \in 0 .. Widths
    BY <1>2, BaseType
  <2>2. r = Then(Take(s, p, w), LAMBDA field, at : Minimal(BigEndianValue(field), Len(field), at))
    BY <1>2 DEF Argument
  <2>. HIDE DEF w
  <2>3. IsOk(Take(s, p, w))
    BY <2>2 DEF Then
  <2>. DEFINE b == Part(s, p, p + w)  n == BigEndianValue(b)
  <2>4. Spans(s, p, p + w) /\ Take(s, p, w) = Read(b, p + w)
    BY <2>1, <2>3, TakeOk
  <2>5. p \in Nat /\ b \in Seq(Byte) /\ Len(b) = w
    <3>1. p \in Nat /\ w \in Nat
      BY <2>1, BytesType
    <3>. QED  BY <2>4, <3>1, PartLen
  <2>6. n \in Nat /\ n < Power[w] /\ BigEndian(n, w) = b
    <3>1. Len(b) <= Widths
      BY <2>1, <2>5
    <3>. QED  BY <2>5, <3>1, BigEndianOf
  <2>7. r = Minimal(n, w, p + w)
    <3>. HIDE DEF b, r
    <3>. QED  BY <2>2, <2>4, <2>5, Results DEF Then
  <2>. HIDE DEF b, n
  <2>8. ~(n <= Largest(w - 1)) /\ r = Read(n, p + w)
    <3>. HIDE DEF r
    <3>. QED  BY <2>7, Results DEF Minimal, Narrower, r
  <2>. HIDE DEF r
  <2>9. n <= Largest(w) /\ n > Largest(w - 1) /\ n <= MaxArg
    <3>1. Largest(w) = Power[w] - 1 /\ Largest(w) \in Nat /\ Largest(w - 1) \in Nat /\ Power[w] \in Nat
      BY <2>1, LargestType, PowerRule
    <3>2. Largest(w) <= MaxArg
      <4>1. CASE w = Widths
        BY <3>1, <4>1, LargestType
      <4>2. CASE w # Widths
        <5>1. w \in 0 .. Widths - 1 /\ Widths \in 1 .. Widths /\ Widths \in 0 .. Widths
          BY <2>1, <4>2, BaseType
        <5>2. Largest(w) < Largest(Widths) /\ Largest(Widths) \in Nat
          BY <5>1, LargestGrows, LargestType
        <5>. QED  BY <3>1, <5>2, LargestType
      <4>. QED  BY <4>1, <4>2
    <3>3. MaxArg \in Nat
      BY LargestType, BaseType
    <3>. QED  BY <2>6, <2>8, <3>1, <3>2, <3>3
  <2>10. IsWidth(w, n)
    BY <2>1, <2>9 DEF IsWidth
  <2>11. ASSUME NEW major PROVE EncodeHead(major, n) = << major * Infos + info >> \o b
    <3>1. EncodeHead(major, n) = HeadIn(w, major, n)
      BY <2>6, <2>10, HeadForm
    <3>2. HeadIn(w, major, n) = << major * Infos + (Direct + w - 1) >> \o b
      BY <2>1, <2>6 DEF HeadIn
    <3>. QED  BY <2>1, <3>1, <3>2
  <2>12. r.value = n /\ r.pos = p + w
    BY <2>8, Results
  <2>. QED  BY <2>4, <2>6, <2>9, <2>11, <2>12 DEF IsArgument, b, r
<1>3. CASE ~(info < Direct) /\ ~(info < Direct + Widths)
  BY <1>3, Results DEF Argument
<1>. QED  BY <1>1, <1>2, <1>3

LEMMA HeadBits ==
  ASSUME NEW s \in Seq(Byte), NEW p \in Nat, p < Len(s)
  PROVE  /\ Major(s, p) \in 0 .. 7 /\ Info(s, p) \in 0 .. Infos - 1
         /\ s[p + 1] = Major(s, p) * Infos + Info(s, p)
<1>. DEFINE x == s[p + 1]  q == x \div Infos  t == x % Infos
<1>1. x \in 0 .. Base - 1
  <2>1. p + 1 \in 1 .. Len(s)
    BY BytesType
  <2>. QED  BY <2>1, BytesType
<1>. HIDE DEF x
<1>2. x \in Nat /\ x < 8 * Infos /\ Infos \in Nat /\ Infos > 0
  BY <1>1, BaseType
<1>3. q \in Nat /\ t \in 0 .. Infos - 1 /\ x = Infos * q + t
  BY <1>2
<1>. HIDE DEF q, t
<1>4. ~(q >= 8)
  <2>. SUFFICES ASSUME q >= 8 PROVE FALSE
    OBVIOUS
  <2>1. PICK d \in Nat : q = 8 + d
    BY <1>3, q - 8 \in Nat /\ q = 8 + (q - 8)
  <2>2. Infos * q = 8 * Infos + Infos * d /\ Infos * d >= 0 /\ Infos * d \in Int /\ Infos * q \in Int
    BY <1>2, <2>1
  <2>. QED  BY <1>2, <1>3, <2>2
<1>5. q \in 0 .. 7 /\ x = q * Infos + t
  BY <1>2, <1>3, <1>4
<1>. QED  BY <1>3, <1>5 DEF Major, Info, q, t, x

\* A head is read from the form that it is written in.
IsHead(s, p, r) ==
  /\ p < Len(s)
  /\ r.value.major = Major(s, p) /\ r.value.major \in 0 .. 6
  /\ r.value.arg \in Nat /\ r.value.arg <= MaxArg
  /\ Spans(s, p, r.pos) /\ r.pos > p
  /\ EncodeHead(r.value.major, r.value.arg) = Part(s, p, r.pos)

LEMMA HeadOk ==
  ASSUME NEW s \in Seq(Byte), NEW p \in 0 .. Len(s), IsOk(HeadAt(s, p))
  PROVE  IsHead(s, p, HeadAt(s, p))
<1>. DEFINE r == HeadAt(s, p)  a == Argument(s, p + 1, Info(s, p))  m == Major(s, p)
<1>1. Len(s) \in Nat /\ p \in Nat
  BY BytesType
<1>2. ~(p >= Len(s)) /\ m # 7
  <2>1. p >= Len(s) \/ m = 7 => r = Fail("UnexpectedEnd") \/ r = Fail("UnexpectedType")
    BY DEF HeadAt
  <2>. HIDE DEF m
  <2>. QED  BY <2>1, Results
<1>3. r = Then(a, LAMBDA arg, at : Read([major |-> m, arg |-> arg], at))
  BY <1>2 DEF HeadAt
<1>4. p < Len(s) /\ p + 1 \in 0 .. Len(s)
  BY <1>1, <1>2
<1>5. m \in 0 .. 6 /\ Info(s, p) \in 0 .. Infos - 1 /\ s[p + 1] = m * Infos + Info(s, p)
  <2>1. m \in 0 .. 7 /\ Info(s, p) \in 0 .. Infos - 1 /\ s[p + 1] = m * Infos + Info(s, p)
    BY <1>1, <1>4, HeadBits
  <2>. HIDE DEF m
  <2>. QED  BY <1>2, <2>1
<1>. HIDE DEF r, a, m
<1>6. IsOk(a)
  BY <1>3 DEF Then, r
<1>7. IsArgument(s, p + 1, Info(s, p), a)
  BY <1>4, <1>5, <1>6, ArgumentOk DEF a
<1>8. r = Read([major |-> m, arg |-> a.value], a.pos)
  BY <1>3, <1>6 DEF Then
<1>9. r.value.major = m /\ r.value.arg = a.value /\ r.pos = a.pos
  BY <1>8, Results
<1>10. Spans(s, p, p + 1) /\ Part(s, p, p + 1) = << s[p + 1] >>
  BY <1>1, <1>4, PartOne
<1>11. a.value \in Nat /\ a.value <= MaxArg /\ Spans(s, p + 1, a.pos)
       /\ EncodeHead(m, a.value) = << m * Infos + Info(s, p) >> \o Part(s, p + 1, a.pos)
  BY <1>7 DEF IsArgument
<1>12. Spans(s, p, a.pos) /\ Part(s, p, p + 1) \o Part(s, p + 1, a.pos) = Part(s, p, a.pos)
  BY <1>10, <1>11, PartsJoin
<1>13. a.pos > p
  <2>1. a.pos \in Nat /\ p + 1 <= a.pos
    BY <1>11, SpansType
  <2>. QED  BY <1>1, <2>1
<1>14. IsHead(s, p, r)
  BY <1>4, <1>5, <1>9, <1>10, <1>11, <1>12, <1>13 DEF IsHead, m
<1>. QED  BY <1>14 DEF r

\* A string is read from the form that it is written in.
IsString(s, p, major, r) ==
  /\ r.value \in Seq(Byte)
  /\ Spans(s, p, r.pos) /\ r.pos > p
  /\ EncodeString(major, r.value) = Written(Part(s, p, r.pos))

\* ... its head in one part, its bytes in another.
LEMMA StringForm ==
  ASSUME NEW s \in Seq(Byte), NEW p \in 0 .. Len(s), NEW h, IsHead(s, p, h),
         IsOk(Take(s, h.pos, h.value.arg))
  PROVE  IsString(s, p, h.value.major, Take(s, h.pos, h.value.arg))
<1>. DEFINE t == Take(s, h.pos, h.value.arg)  n == h.value.arg  q == h.pos  b == Part(s, q, q + n)
<1>1. n \in Nat /\ Spans(s, p, q) /\ q > p /\ EncodeHead(h.value.major, n) = Part(s, p, q)
  BY DEF IsHead
<1>2. q \in 0 .. Len(s) /\ q \in Nat /\ p \in Nat
  BY <1>1, SpansType
<1>3. Spans(s, q, q + n) /\ t = Read(b, q + n)
  BY <1>1, <1>2, TakeOk
<1>4. b \in Seq(Byte) /\ Len(b) = n
  <2>. HIDE DEF n, q
  <2>. QED  BY <1>1, <1>2, <1>3, PartLen
<1>5. Spans(s, p, q + n) /\ Part(s, p, q) \o b = Part(s, p, q + n)
  BY <1>1, <1>3, PartsJoin
<1>6. t.value = b /\ t.pos = q + n /\ q + n > p
  <2>1. q + n > p
    BY <1>1, <1>2
  <2>. QED  BY <1>3, <2>1, Results
<1>7. EncodeString(h.value.major, b) = Written(Part(s, p, q + n))
  <2>. HIDE DEF b, n, q
  <2>. QED  BY <1>1, <1>4, <1>5 DEF EncodeString
<1>. HIDE DEF t
<1>8. IsString(s, p, h.value.major, t)
  BY <1>4, <1>5, <1>6, <1>7 DEF IsString
<1>. QED  BY <1>8 DEF t

LEMMA StringOk ==
  ASSUME NEW s \in Seq(Byte), NEW p \in 0 .. Len(s), NEW major, IsOk(StringAt(s, p, major))
  PROVE  IsString(s, p, major, StringAt(s, p, major))
<1>. DEFINE h == HeadAt(s, p)  t == Take(s, h.pos, h.value.arg)
<1>1. IsOk(h)
  BY DEF StringAt, Then
<1>2. IsHead(s, p, h)
  BY <1>1, HeadOk
<1>3. StringAt(s, p, major) = IF h.value.major # major THEN Fail("UnexpectedType") ELSE t
  BY <1>1 DEF StringAt, Then
<1>. HIDE DEF h
<1>4. h.value.major = major /\ StringAt(s, p, major) = t
  BY <1>3, Results
<1>. QED  BY <1>2, <1>4, StringForm

----------------------------------------------------------------------------
(* What is written part by part.                                           *)

\* q has the ends of n parts of s that follow each other.
Follow(s, q, n) == \A k \in 1 .. n : Spans(s, q[k - 1], q[k])

LEMMA FollowOn ==
  ASSUME NEW s \in Seq(Byte), NEW n \in Nat, n > 0, NEW q, Follow(s, q, n), NEW k \in 1 .. n
  PROVE  Spans(s, q[0], q[k])
<1>. DEFINE S == {j \in 0 .. n : Spans(s, q[0], q[j])}
<1>1. 0 \in S
  <2>1. Spans(s, q[1 - 1], q[1])
    BY DEF Follow
  <2>2. q[0] \in 0 .. Len(s)
    BY <2>1, SpansType
  <2>. QED  BY <2>2, PartNone
<1>2. ASSUME NEW j \in 0 .. n - 1, j \in S PROVE j + 1 \in S
  <2>. DEFINE i == j + 1
  <2>1. i \in 1 .. n /\ i - 1 = j /\ i \in 0 .. n
    OBVIOUS
  <2>. HIDE DEF i
  <2>2. Spans(s, q[i - 1], q[i])
    BY <2>1 DEF Follow
  <2>3. Spans(s, q[0], q[j]) /\ Spans(s, q[j], q[i])
    BY <1>2, <2>1, <2>2
  <2>4. Spans(s, q[0], q[i])
    BY <2>3, PartsJoin
  <2>. QED  BY <2>1, <2>4 DEF i
<1>. HIDE DEF S
<1>3. 0 .. n \subseteq S
  BY <1>1, <1>2, InductionUpTo
<1>4. k \in S
  BY <1>3
<1>. QED  BY <1>4 DEF S

LEMMA FlattenParts ==
  ASSUME NEW s \in Seq(Byte), NEW n \in Nat, n > 0, NEW q, Follow(s, q, n),
         NEW v, Len(v) = n, \A k \in 1 .. n : v[k] = Part(s, q[k - 1], q[k])
  PROVE  FlattenSeq(v) = Part(s, q[0], q[n])
<1>. DEFINE P(i) == Part(s, q[0], q[i])
<1>1. P(1) = v[1]
  <2>1. 1 \in 1 .. n /\ 1 - 1 = 0
    OBVIOUS
  <2>. QED  BY <2>1
<1>2. ASSUME NEW i \in 1 .. n, i # 1 PROVE P(i) = P(i - 1) \o v[i] /\ i - 1 \in 1 .. n
  <2>. DEFINE j == i - 1
  <2>1. j \in 1 .. n
    BY <1>2
  <2>2. Spans(s, q[0], q[j]) /\ Spans(s, q[j], q[i]) /\ v[i] = Part(s, q[j], q[i])
    <3>1. Spans(s, q[0], q[j])
      BY <2>1, FollowOn
    <3>. QED  BY <3>1 DEF Follow
  <2>. HIDE DEF j
  <2>3. Part(s, q[0], q[j]) \o Part(s, q[j], q[i]) = Part(s, q[0], q[i])
    <3>. DEFINE a == q[0]  b == q[j]  c == q[i]
    <3>1. Spans(s, a, b) /\ Spans(s, b, c)
      BY <2>2
    <3>. HIDE DEF a, b, c
    <3>2. Part(s, a, b) \o Part(s, b, c) = Part(s, a, c)
      BY <3>1, PartsJoin
    <3>. QED  BY <3>2 DEF a, b, c
  <2>. QED  BY <2>1, <2>2, <2>3 DEF j
<1>. HIDE DEF P
<1>3. \E f : IsFlat(f, v)
  <2>. DEFINE f == [i \in 1 .. n |-> P(i)]
              g == [i \in 1 .. n |-> IF i = 1 THEN v[i] ELSE f[i - 1] \o v[i]]
  <2>1. ASSUME NEW i \in 1 .. n PROVE f[i] = g[i]
    <3>1. i # 1 => f[i - 1] = P(i - 1)
      BY <1>2
    <3>. HIDE DEF f
    <3>2. f[i] = P(i) /\ g[i] = IF i = 1 THEN v[i] ELSE f[i - 1] \o v[i]
      BY DEF f
    <3>. HIDE DEF g
    <3>. QED  BY <1>1, <1>2, <3>1, <3>2
  <2>2. f = g
    BY <2>1
  <2>. QED  BY <2>2 DEF IsFlat
<1>. DEFINE F == CHOOSE f : IsFlat(f, v)
<1>4. FlattenSeq(v) = F[n]
  <2>1. ~(Len(v) = 0)
    OBVIOUS
  <2>. QED  BY <2>1, Zenon DEF FlattenSeq, IsFlat
<1>5. IsFlat(F, v)
  BY <1>3
<1>. HIDE DEF F
<1>6. \A i \in 1 .. n : F[i] = IF i = 1 THEN v[i] ELSE F[i - 1] \o v[i]
  <2>. DEFINE g == [i \in 1 .. n |-> IF i = 1 THEN v[i] ELSE F[i - 1] \o v[i]]
  <2>1. F = g
    BY <1>5 DEF IsFlat
  <2>2. \A i \in 1 .. n : g[i] = IF i = 1 THEN v[i] ELSE F[i - 1] \o v[i]
    OBVIOUS
  <2>. HIDE DEF g
  <2>. QED  BY <2>1, <2>2, Zenon
<1>. DEFINE S == {j \in 0 .. n - 1 : F[j + 1] = P(j + 1)}
<1>7. 0 \in S
  <2>1. 1 \in 1 .. n /\ 0 + 1 = 1
    OBVIOUS
  <2>2. F[1] = v[1]
    BY <1>6, <2>1
  <2>. QED  BY <1>1, <2>1, <2>2
<1>8. ASSUME NEW j \in 0 .. n - 1 - 1, j \in S PROVE j + 1 \in S
  <2>. DEFINE i == j + 1 + 1
  <2>1. i \in 1 .. n /\ i # 1 /\ i - 1 = j + 1 /\ j + 1 \in 0 .. n - 1
    OBVIOUS
  <2>. HIDE DEF i
  <2>2. F[i] = F[i - 1] \o v[i] /\ P(i) = P(i - 1) \o v[i]
    BY <1>2, <1>6, <2>1
  <2>3. F[i - 1] = P(i - 1)
    BY <1>8, <2>1
  <2>. QED  BY <2>1, <2>2, <2>3 DEF i
<1>. HIDE DEF S
<1>9. 0 .. n - 1 \subseteq S
  <2>. DEFINE m == n - 1
  <2>1. m \in Nat
    OBVIOUS
  <2>2. \A j \in 0 .. m - 1 : j \in S => j + 1 \in S
    BY <1>8
  <2>. HIDE DEF m
  <2>3. 0 .. m \subseteq S
    BY <1>7, <2>1, <2>2, InductionUpTo
  <2>. QED  BY <2>3 DEF m
<1>10. n - 1 \in S /\ n - 1 + 1 = n
  BY <1>9
<1>11. F[n] = P(n)
  BY <1>10 DEF S
<1>. QED  BY <1>4, <1>11 DEF P

LEMMA JoinedParts ==
  ASSUME NEW s \in Seq(Byte), NEW n \in Nat, n > 0, NEW q, Follow(s, q, n),
         NEW parts, DOMAIN parts = 1 .. n,
         \A k \in 1 .. n : parts[k] = Written(Part(s, q[k - 1], q[k]))
  PROVE  Joined(parts) = Written(Part(s, q[0], q[n]))
<1>. DEFINE v == [k \in DOMAIN parts |-> parts[k].value]
<1>1. \A k \in 1 .. n : IsOk(parts[k]) /\ parts[k].value = Part(s, q[k - 1], q[k])
  BY Results DEF Written
<1>2. {k \in DOMAIN parts : ~IsOk(parts[k])} = {}
  BY <1>1
<1>3. Len(v) = n /\ \A k \in 1 .. n : v[k] = Part(s, q[k - 1], q[k])
  BY <1>1
<1>4. Joined(parts) = Written(FlattenSeq(v))
  <2>. HIDE DEF v
  <2>. QED  BY <1>2, Zenon DEF Joined, v
<1>. HIDE DEF v
<1>5. FlattenSeq(v) = Part(s, q[0], q[n])
  BY <1>3, FlattenParts
<1>. QED  BY <1>4, <1>5

\* Two parts.
LEMMA JoinedTwo ==
  ASSUME NEW s \in Seq(Byte), NEW p, NEW q, NEW r, Spans(s, p, q), Spans(s, q, r)
  PROVE  Joined(<< Written(Part(s, p, q)), Written(Part(s, q, r)) >>) = Written(Part(s, p, r))
<1>. DEFINE e == [k \in 0 .. 2 |-> IF k = 0 THEN p ELSE IF k = 1 THEN q ELSE r]
            parts == << Written(Part(s, p, q)), Written(Part(s, q, r)) >>
<1>1. e[0] = p /\ e[1] = q /\ e[2] = r
  OBVIOUS
<1>. HIDE DEF e
<1>2. ASSUME NEW k \in 1 .. 2 PROVE Spans(s, e[k - 1], e[k]) /\ parts[k] = Written(Part(s, e[k - 1], e[k]))
  <2>1. CASE k = 1
    BY <1>1, <2>1
  <2>2. CASE k = 2
    BY <1>1, <2>2
  <2>. QED  BY <2>1, <2>2
<1>3. DOMAIN parts = 1 .. 2
  OBVIOUS
<1>4. Follow(s, e, 2)
  BY <1>2 DEF Follow
<1>. HIDE DEF parts
<1>5. Joined(parts) = Written(Part(s, e[0], e[2]))
  <2>. DEFINE n == 2
  <2>1. n \in Nat /\ n > 0 /\ DOMAIN parts = 1 .. n /\ Follow(s, e, n)
    BY <1>3, <1>4
  <2>2. \A k \in 1 .. n : parts[k] = Written(Part(s, e[k - 1], e[k]))
    BY <1>2
  <2>. HIDE DEF n
  <2>3. Joined(parts) = Written(Part(s, e[0], e[n]))
    BY <2>1, <2>2, JoinedParts
  <2>. QED  BY <2>3 DEF n
<1>. QED  BY <1>1, <1>5 DEF parts

\* A head and what follows it.
LEMMA JoinedAfterHead ==
  ASSUME NEW s \in Seq(Byte), NEW p, NEW at, Spans(s, p, at),
         NEW n \in Nat, NEW q, q[0] = at, Follow(s, q, n),
         NEW rest, rest = [k \in 1 .. n |-> Written(Part(s, q[k - 1], q[k]))]
  PROVE  /\ Spans(s, p, q[n])
         /\ Joined(<< Written(Part(s, p, at)) >> \o rest) = Written(Part(s, p, q[n]))
<1>. DEFINE head == Written(Part(s, p, at))
            T == {head} \cup {rest[k] : k \in 1 .. n}
            parts == << head >> \o rest
            e == [k \in 0 .. n + 1 |-> IF k = 0 THEN p ELSE q[k - 1]]
            m == n + 1
<1>1. rest \in Seq(T) /\ Len(rest) = n /\ << head >> \in Seq(T) /\ Len(<< head >>) = 1
  <2>1. rest = [k \in 1 .. n |-> rest[k]]
    OBVIOUS
  <2>2. \A k \in 1 .. n : rest[k] \in T
    OBVIOUS
  <2>3. head \in T
    OBVIOUS
  <2>. HIDE DEF T, head
  <2>. QED  BY <2>1, <2>2, <2>3
<1>2. \A k \in 1 .. n : rest[k] = Written(Part(s, q[k - 1], q[k]))
  OBVIOUS
<1>3. e[0] = p /\ \A k \in 1 .. m : e[k] = q[k - 1]
  OBVIOUS
<1>4. m \in Nat /\ m > 0 /\ m - 1 = n
  OBVIOUS
<1>. HIDE DEF T, e
<1>5. parts \in Seq(T) /\ IsConcat(parts, << head >>, rest)
  BY <1>1, ConcatType
<1>6. DOMAIN parts = 1 .. m /\ parts[1] = head /\ \A k \in 1 .. n : parts[1 + k] = rest[k]
  <2>. HIDE DEF parts, head
  <2>1. DOMAIN parts = 1 .. Len(parts)
    BY <1>5
  <2>2. Len(parts) = m /\ \A k \in 1 .. n : parts[1 + k] = rest[k]
    BY <1>1, <1>5 DEF IsConcat
  <2>3. 1 \in 1 .. Len(<< head >>) /\ << head >>[1] = head
    OBVIOUS
  <2>4. parts[1] = head
    BY <1>5, <2>3 DEF IsConcat
  <2>. QED  BY <2>1, <2>2, <2>4
<1>. HIDE DEF parts, m
<1>7. ASSUME NEW k \in 1 .. m PROVE Spans(s, e[k - 1], e[k]) /\ parts[k] = Written(Part(s, e[k - 1], e[k]))
  <2>1. CASE k = 1
    <3>1. e[k - 1] = p /\ e[k] = at
      BY <1>3, <1>4, <2>1
    <3>. QED  BY <1>6, <2>1, <3>1
  <2>2. CASE k # 1
    <3>. DEFINE j == k - 1
    <3>1. j \in 1 .. n /\ j \in 1 .. m /\ 1 + j = k
      BY <1>4, <2>2
    <3>. HIDE DEF j
    <3>2. e[j] = q[j - 1] /\ e[k] = q[j]
      <4>1. k - 1 = j
        BY <3>1
      <4>. QED  BY <1>3, <3>1, <4>1
    <3>3. parts[k] = Written(Part(s, q[j - 1], q[j])) /\ Spans(s, q[j - 1], q[j])
      BY <1>2, <1>6, <3>1 DEF Follow
    <3>. QED  BY <3>2, <3>3 DEF j
  <2>. QED  BY <2>1, <2>2
<1>8. Follow(s, e, m)
  BY <1>7 DEF Follow
<1>9. Joined(parts) = Written(Part(s, e[0], e[m]))
  <2>1. \A k \in 1 .. m : parts[k] = Written(Part(s, e[k - 1], e[k]))
    BY <1>7
  <2>. QED  BY <1>4, <1>6, <1>8, <2>1, JoinedParts
<1>10. m \in 1 .. m /\ e[m] = q[n]
  BY <1>3, <1>4
<1>11. Spans(s, e[0], e[m])
  BY <1>4, <1>8, <1>10, FollowOn
<1>. QED  BY <1>3, <1>9, <1>10, <1>11 DEF parts

----------------------------------------------------------------------------
(* Lists.                                                                  *)

ItemsStep(done, item) ==
  Then(done, LAMBDA items, at :
    Then(item[at], LAMBDA next, after : Read(Append(items, next), after)))

IsItems(f, pos, len, item) ==
  f = [k \in 0 .. len |-> IF k = 0 THEN Read(<< >>, pos) ELSE ItemsStep(f[k - 1], item)]

LEMMA ItemsAt ==
  ASSUME NEW len \in Nat, NEW pos, NEW item, NEW f, IsItems(f, pos, len, item)
  PROVE  /\ DOMAIN f = 0 .. len
         /\ f[0] = Read(<< >>, pos)
         /\ \A k \in 1 .. len : f[k] = ItemsStep(f[k - 1], item)
<1>. DEFINE g == [k \in 0 .. len |-> IF k = 0 THEN Read(<< >>, pos) ELSE ItemsStep(f[k - 1], item)]
<1>1. f = g
  BY DEF IsItems
<1>2. DOMAIN g = 0 .. len /\ g[0] = Read(<< >>, pos) /\ \A k \in 1 .. len : g[k] = ItemsStep(f[k - 1], item)
  OBVIOUS
<1>. HIDE DEF g
<1>. QED  BY <1>1, <1>2

LEMMA ItemsExist ==
  ASSUME NEW pos, NEW item
  PROVE  \A len \in Nat : \E f : IsItems(f, pos, len, item)
<1>. DEFINE S == {n \in Nat : \E f : IsItems(f, pos, n, item)}
<1>1. 0 \in S
  <2>. DEFINE f == [k \in 0 .. 0 |-> Read(<< >>, pos)]
              g == [k \in 0 .. 0 |-> IF k = 0 THEN Read(<< >>, pos) ELSE ItemsStep(f[k - 1], item)]
  <2>1. \A k \in 0 .. 0 : f[k] = g[k]
    OBVIOUS
  <2>2. f = g
    BY <2>1
  <2>. QED  BY <2>2 DEF IsItems
<1>2. ASSUME NEW n \in Nat, n \in S PROVE n + 1 \in S
  <2>1. PICK f : IsItems(f, pos, n, item)
    BY <1>2
  <2>. DEFINE g == [k \in 0 .. n + 1 |-> IF k = 0 THEN Read(<< >>, pos) ELSE ItemsStep(f[k - 1], item)]
              h == [k \in 0 .. n + 1 |-> IF k = 0 THEN Read(<< >>, pos) ELSE ItemsStep(g[k - 1], item)]
  <2>2. /\ f[0] = Read(<< >>, pos)
        /\ \A k \in 1 .. n : f[k] = ItemsStep(f[k - 1], item)
    BY <2>1, ItemsAt
  <2>3. /\ g[0] = Read(<< >>, pos)
        /\ \A k \in 1 .. n + 1 : g[k] = ItemsStep(f[k - 1], item)
    OBVIOUS
  <2>4. /\ h[0] = Read(<< >>, pos)
        /\ \A k \in 1 .. n + 1 : h[k] = ItemsStep(g[k - 1], item)
    OBVIOUS
  <2>5. DOMAIN g = 0 .. n + 1 /\ DOMAIN h = 0 .. n + 1 /\ g = [k \in DOMAIN g |-> g[k]] /\ h = [k \in DOMAIN h |-> h[k]]
    OBVIOUS
  <2>6. IsItems(g, pos, n + 1, item) <=> g = h
    BY Zenon DEF IsItems
  <2>. HIDE DEF g, h
  <2>7. \A k \in 0 .. n : g[k] = f[k]
    BY <2>2, <2>3
  <2>8. ASSUME NEW k \in 0 .. n + 1 PROVE g[k] = h[k]
    <3>1. k # 0 => k \in 1 .. n + 1 /\ k - 1 \in 0 .. n
      OBVIOUS
    <3>2. k # 0 => g[k - 1] = f[k - 1]
      BY <2>7, <3>1
    <3>. QED  BY <2>3, <2>4, <3>1, <3>2
  <2>9. g = h
    BY <2>5, <2>8
  <2>. QED  BY <2>6, <2>9
<1>. HIDE DEF S
<1>3. Nat \subseteq S
  BY <1>1, <1>2, Induction
<1>. QED  BY <1>3 DEF S

\* What is read is of s, and after where it is read from.
Onward(s, item) == \A p \in 0 .. Len(s) : IsOk(item[p]) => Spans(s, p, item[p].pos)

\* x is read of a value nested in this one, from p to q.
Nested(s, item, p, q, x) ==
  /\ p \in 0 .. Len(s) /\ IsOk(item[p])
  /\ item[p].pos = q /\ item[p].value = x
  /\ Spans(s, p, q)

\* r is a list of len such values, one after another, with the ends q.
ItemsRead(s, item, pos, len, r, q) ==
  /\ r.value \in Seq({item[p].value : p \in 0 .. Len(s)}) /\ Len(r.value) = len
  /\ q[0] = pos /\ r.pos = q[len]
  /\ \A k \in 1 .. len : Nested(s, item, q[k - 1], q[k], r.value[k])

LEMMA ItemsReadMore ==
  ASSUME NEW s \in Seq(Byte), NEW pos \in 0 .. Len(s), NEW item, Onward(s, item),
         NEW len \in Nat, NEW a, NEW b, NEW q,
         IsOk(b), b = ItemsStep(a, item), b.pos = q[len + 1],
         IsOk(a) => ItemsRead(s, item, pos, len, a, q)
  PROVE  ItemsRead(s, item, pos, len + 1, b, q)
<1>. DEFINE p == a.pos  x == item[p]  T == {item[i].value : i \in 0 .. Len(s)}
<1>1. IsOk(a)
  BY DEF ItemsStep, Then
<1>2. b = Then(x, LAMBDA next, after : Read(Append(a.value, next), after))
  BY <1>1 DEF ItemsStep, Then
<1>3. IsOk(x)
  <2>. HIDE DEF x
  <2>. QED  BY <1>2 DEF Then
<1>4. b = Read(Append(a.value, x.value), x.pos)
  <2>. HIDE DEF x
  <2>. QED  BY <1>2, <1>3 DEF Then
<1>5. ItemsRead(s, item, pos, len, a, q)
  BY <1>1
<1>6. p \in 0 .. Len(s) /\ p = q[len]
  <2>1. p = q[len] /\ q[0] = pos
    BY <1>5 DEF ItemsRead
  <2>2. CASE len = 0
    BY <2>1, <2>2
  <2>3. CASE len # 0
    <3>1. len \in 1 .. len
      BY <2>3
    <3>2. Nested(s, item, q[len - 1], q[len], a.value[len])
      BY <1>5, <3>1 DEF ItemsRead
    <3>. HIDE DEF p
    <3>. QED  BY <2>1, <3>2, SpansType DEF Nested
  <2>. QED  BY <2>2, <2>3
<1>7. Spans(s, p, x.pos)
  BY <1>3, <1>6 DEF Onward
<1>8. b.value = Append(a.value, x.value) /\ b.pos = x.pos
  <2>. HIDE DEF x
  <2>. QED  BY <1>4 DEF Read
<1>9. a.value \in Seq(T) /\ Len(a.value) = len /\ x.value \in T
  BY <1>5, <1>6 DEF ItemsRead
<1>10. /\ b.value \in Seq(T) /\ Len(b.value) = len + 1 /\ b.value[len + 1] = x.value
       /\ \A k \in 1 .. len : b.value[k] = a.value[k]
  <2>. HIDE DEF T, x
  <2>. QED  BY <1>8, <1>9
<1>11. Nested(s, item, q[len], q[len + 1], x.value)
  BY <1>3, <1>6, <1>7, <1>8 DEF Nested
<1>12. ASSUME NEW k \in 1 .. len + 1 PROVE Nested(s, item, q[k - 1], q[k], b.value[k])
  <2>1. CASE k = len + 1
    <3>1. k - 1 = len
      BY <2>1
    <3>. HIDE DEF x
    <3>. QED  BY <1>10, <1>11, <2>1, <3>1
  <2>2. CASE k # len + 1
    <3>1. k \in 1 .. len
      BY <2>2
    <3>2. Nested(s, item, q[k - 1], q[k], a.value[k])
      BY <1>5, <3>1 DEF ItemsRead
    <3>. QED  BY <1>10, <3>1, <3>2
  <2>. QED  BY <2>1, <2>2
<1>13. q[0] = pos
  BY <1>5 DEF ItemsRead
<1>. QED  BY <1>10, <1>12, <1>13 DEF ItemsRead

LEMMA ItemsOk ==
  ASSUME NEW s \in Seq(Byte), NEW pos \in 0 .. Len(s), NEW item, Onward(s, item),
         NEW len \in Nat, IsOk(Items(s, pos, len, item))
  PROVE  \E q : ItemsRead(s, item, pos, len, Items(s, pos, len, item), q)
<1>. DEFINE F == CHOOSE f : IsItems(f, pos, len, item)
<1>1. Items(s, pos, len, item) = F[len]
  BY Zenon DEF Items, IsItems, ItemsStep
<1>2. IsItems(F, pos, len, item)
  BY ItemsExist
<1>. HIDE DEF F
<1>3. /\ F[0] = Read(<< >>, pos)
      /\ \A k \in 1 .. len : F[k] = ItemsStep(F[k - 1], item)
  BY <1>2, ItemsAt
<1>. DEFINE q == [k \in 0 .. len |-> F[k].pos]
            S == {k \in 0 .. len : IsOk(F[k]) => ItemsRead(s, item, pos, k, F[k], q)}
<1>4. \A k \in 0 .. len : q[k] = F[k].pos
  OBVIOUS
<1>. HIDE DEF q
<1>5. 0 \in S
  <2>1. F[0].value = << >> /\ F[0].pos = pos /\ q[0] = pos
    BY <1>3, <1>4, Results
  <2>2. << >> \in Seq({item[p].value : p \in 0 .. Len(s)}) /\ Len(<< >>) = 0
    OBVIOUS
  <2>3. ItemsRead(s, item, pos, 0, F[0], q)
    BY <2>1, <2>2 DEF ItemsRead
  <2>. QED  BY <2>3
<1>6. ASSUME NEW k \in 0 .. len - 1, k \in S PROVE k + 1 \in S
  <2>. DEFINE j == k + 1
  <2>1. j \in 1 .. len /\ j \in 0 .. len /\ j - 1 = k /\ k \in Nat
    OBVIOUS
  <2>2. F[j] = ItemsStep(F[k], item) /\ F[j].pos = q[j]
    <3>. HIDE DEF j
    <3>. QED  BY <1>3, <1>4, <2>1
  <2>3. IsOk(F[k]) => ItemsRead(s, item, pos, k, F[k], q)
    BY <1>6
  <2>4. ASSUME IsOk(F[j]) PROVE ItemsRead(s, item, pos, k + 1, F[j], q)
    BY <2>1, <2>2, <2>3, <2>4, ItemsReadMore
  <2>. QED  BY <2>1, <2>4
<1>. HIDE DEF S
<1>7. 0 .. len \subseteq S
  BY <1>5, <1>6, InductionUpTo
<1>8. len \in S
  BY <1>7
<1>9. ItemsRead(s, item, pos, len, F[len], q)
  BY <1>1, <1>8 DEF S
<1>. QED  BY <1>1, <1>9

\* write gives the form of what is nested in a value, of those in D, as it was
\* read.
Faithful(s, item, D, write) ==
  \A p \in 0 .. Len(s) :
    IsOk(item[p]) /\ item[p].value \in D => write[item[p].value] = Written(Part(s, p, item[p].pos))

LEMMA FaithfulTo ==
  ASSUME NEW s, NEW item, NEW D, NEW write, Faithful(s, item, D, write),
         NEW p, NEW q, NEW x, Nested(s, item, p, q, x), x \in D
  PROVE  write[x] = Written(Part(s, p, q))
  BY DEF Nested, Faithful

\* A list is written as it was read.
LEMMA ListForm ==
  ASSUME NEW s \in Seq(Byte), NEW p, NEW at, Spans(s, p, at), NEW len \in Nat,
         EncodeHead(4, len) = Part(s, p, at),
         NEW item, Onward(s, item), NEW D, NEW write, Faithful(s, item, D, write),
         NEW r, r = Items(s, at, len, item), IsOk(r), \A k \in DOMAIN r.value : r.value[k] \in D
  PROVE  /\ Spans(s, p, r.pos)
         /\ Joined(<< Written(EncodeHead(4, Len(r.value))) >> \o EncodeItems(r.value, write))
              = Written(Part(s, p, r.pos))
<1>1. at \in 0 .. Len(s)
  BY SpansType
<1>2. PICK q : ItemsRead(s, item, at, len, r, q)
  BY <1>1, ItemsOk
<1>. DEFINE v == r.value  T == {item[i].value : i \in 0 .. Len(s)}
<1>3. v \in Seq(T) /\ Len(v) = len /\ q[0] = at /\ r.pos = q[len]
      /\ \A k \in 1 .. len : Nested(s, item, q[k - 1], q[k], v[k])
  BY <1>2 DEF ItemsRead
<1>4. \A k \in DOMAIN v : v[k] \in D
  OBVIOUS
<1>. HIDE DEF v, T
<1>5. DOMAIN v = 1 .. len
  BY <1>3
<1>6. Follow(s, q, len)
  BY <1>3 DEF Follow, Nested
<1>. DEFINE rest == EncodeItems(v, write)
<1>7. rest = [k \in 1 .. len |-> Written(Part(s, q[k - 1], q[k]))]
  <2>1. ASSUME NEW k \in 1 .. len PROVE write[v[k]] = Written(Part(s, q[k - 1], q[k]))
    <3>1. Nested(s, item, q[k - 1], q[k], v[k]) /\ v[k] \in D
      BY <1>3, <1>4, <1>5
    <3>. DEFINE a == q[k - 1]  b == q[k]  x == v[k]
    <3>2. Nested(s, item, a, b, x) /\ x \in D
      BY <3>1
    <3>. HIDE DEF a, b, x
    <3>3. write[x] = Written(Part(s, a, b))
      BY <3>2, FaithfulTo
    <3>. QED  BY <3>3 DEF a, b, x
  <2>. QED  BY <1>5, <2>1 DEF EncodeItems
<1>. HIDE DEF rest
<1>8. /\ Spans(s, p, q[len])
      /\ Joined(<< Written(Part(s, p, at)) >> \o rest) = Written(Part(s, p, q[len]))
  BY <1>3, <1>6, <1>7, JoinedAfterHead
<1>. QED  BY <1>3, <1>8 DEF v, rest

----------------------------------------------------------------------------
(* What is nested in a value.                                              *)

\* The values so deep in v.
IsLevels(f, v, n) == f = [depth \in 0 .. n |-> IF depth = 0 THEN {v} ELSE UNION {Parts(x) : x \in f[depth - 1]}]

LEMMA LevelsAt ==
  ASSUME NEW n \in Nat, NEW v, NEW f, IsLevels(f, v, n)
  PROVE  /\ f[0] = {v}
         /\ \A k \in 1 .. n : f[k] = UNION {Parts(x) : x \in f[k - 1]}
<1>. DEFINE g == [k \in 0 .. n |-> IF k = 0 THEN {v} ELSE UNION {Parts(x) : x \in f[k - 1]}]
<1>1. f = g
  BY DEF IsLevels
<1>2. g[0] = {v} /\ \A k \in 1 .. n : g[k] = UNION {Parts(x) : x \in f[k - 1]}
  OBVIOUS
<1>. HIDE DEF g
<1>. QED  BY <1>1, <1>2

LEMMA LevelsExist ==
  ASSUME NEW v
  PROVE  \A n \in Nat : \E f : IsLevels(f, v, n)
<1>. DEFINE S == {n \in Nat : \E f : IsLevels(f, v, n)}
            Under(f, k) == UNION {Parts(x) : x \in f[k - 1]}
<1>1. 0 \in S
  <2>. DEFINE f == [k \in 0 .. 0 |-> {v}]
              g == [k \in 0 .. 0 |-> IF k = 0 THEN {v} ELSE Under(f, k)]
  <2>1. \A k \in 0 .. 0 : f[k] = g[k]
    OBVIOUS
  <2>2. f = g
    BY <2>1
  <2>. QED  BY <2>2 DEF IsLevels
<1>2. ASSUME NEW n \in Nat, n \in S PROVE n + 1 \in S
  <2>1. PICK f : IsLevels(f, v, n)
    BY <1>2
  <2>. DEFINE g == [k \in 0 .. n + 1 |-> IF k = 0 THEN {v} ELSE Under(f, k)]
              h == [k \in 0 .. n + 1 |-> IF k = 0 THEN {v} ELSE Under(g, k)]
  <2>2. f[0] = {v} /\ \A k \in 1 .. n : f[k] = Under(f, k)
    BY <2>1, LevelsAt
  <2>3. \A u, w, k : u[k - 1] = w[k - 1] => Under(u, k) = Under(w, k)
    OBVIOUS
  <2>4. IsLevels(g, v, n + 1) <=> g = h
    BY Zenon DEF IsLevels
  <2>. HIDE DEF Under
  <2>5. g[0] = {v} /\ \A k \in 1 .. n + 1 : g[k] = Under(f, k)
    OBVIOUS
  <2>6. h[0] = {v} /\ \A k \in 1 .. n + 1 : h[k] = Under(g, k)
    OBVIOUS
  <2>7. DOMAIN g = 0 .. n + 1 /\ DOMAIN h = 0 .. n + 1 /\ g = [k \in DOMAIN g |-> g[k]] /\ h = [k \in DOMAIN h |-> h[k]]
    OBVIOUS
  <2>. HIDE DEF g, h
  <2>8. ASSUME NEW k \in 0 .. n PROVE g[k] = f[k]
    <3>1. k # 0 => k \in 1 .. n /\ k \in 1 .. n + 1
      OBVIOUS
    <3>2. k # 0 => g[k] = Under(f, k) /\ f[k] = Under(f, k)
      BY <2>2, <2>5, <3>1
    <3>. QED  BY <2>2, <2>5, <3>2
  <2>9. ASSUME NEW k \in 0 .. n + 1 PROVE g[k] = h[k]
    <3>1. k # 0 => k \in 1 .. n + 1 /\ k - 1 \in 0 .. n
      OBVIOUS
    <3>2. k # 0 => Under(g, k) = Under(f, k)
      BY <2>3, <2>8, <3>1
    <3>. QED  BY <2>5, <2>6, <3>1, <3>2
  <2>10. g = h
    BY <2>7, <2>9
  <2>. QED  BY <2>4, <2>10
<1>. HIDE DEF S
<1>3. Nat \subseteq S
  BY <1>1, <1>2, Induction
<1>. QED  BY <1>3 DEF S

LEMMA LevelsRule ==
  ASSUME NEW v
  PROVE  /\ LevelsOf(v)[0] = {v}
         /\ \A k \in 1 .. MaxDepth + 1 : LevelsOf(v)[k] = UNION {Parts(x) : x \in LevelsOf(v)[k - 1]}
<1>. DEFINE L == CHOOSE f : IsLevels(f, v, MaxDepth + 1)
<1>1. LevelsOf(v) = L
  BY Zenon DEF LevelsOf, IsLevels
<1>2. MaxDepth + 1 \in Nat
  BY BaseType
<1>3. IsLevels(L, v, MaxDepth + 1)
  BY <1>2, LevelsExist
<1>. HIDE DEF L
<1>. QED  BY <1>1, <1>2, <1>3, LevelsAt

----------------------------------------------------------------------------
(* The order of keys.                                                      *)

Strings == Seq(Byte)

\* a and b are alike up to k, where a is below b.
Differ(a, b, k) == k \in 1 .. Len(a) /\ a[k] < b[k] /\ \A j \in 1 .. k - 1 : a[j] = b[j]

LEMMA KeyBelowShows ==
  ASSUME NEW a \in Strings, NEW b \in Strings
  PROVE  KeyBelow(a, b) <=> (Len(a) < Len(b) \/ (Len(a) = Len(b) /\ \E k : Differ(a, b, k)))
<1>1. DOMAIN a = 1 .. Len(a)
  BY DEF Strings
<1>. QED  BY <1>1, Zenon DEF KeyBelow, Differ

LEMMA StringsType ==
  ASSUME NEW a \in Strings
  PROVE  Len(a) \in Nat /\ \A k \in 1 .. Len(a) : a[k] \in Nat
  BY BytesType DEF Strings

LEMMA KeyIrreflexive ==
  ASSUME NEW a \in Strings
  PROVE  ~KeyBelow(a, a)
<1>1. ~\E k : Differ(a, a, k)
  BY StringsType DEF Differ
<1>. QED  BY <1>1, KeyBelowShows, StringsType

LEMMA KeyTotal ==
  ASSUME NEW a \in Strings, NEW b \in Strings, a # b
  PROVE  KeyBelow(a, b) \/ KeyBelow(b, a)
<1>1. CASE Len(a) # Len(b)
  BY <1>1, KeyBelowShows, StringsType
<1>2. CASE Len(a) = Len(b)
  <2>. DEFINE T == {k \in 1 .. Len(a) : a[k] # b[k]}
  <2>1. T # {}
    <3>1. a \in Seq(Byte) /\ b \in Seq(Byte)
      BY DEF Strings
    <3>2. T = {} => \A k \in 1 .. Len(a) : a[k] = b[k]
      OBVIOUS
    <3>. QED  BY <1>2, <3>1, <3>2, SameSequence
  <2>2. T \subseteq Nat
    OBVIOUS
  <2>3. PICK k \in T : \A j \in T : k <= j
    <3>. HIDE DEF T
    <3>. QED  BY <2>1, <2>2, Least
  <2>4. k \in 1 .. Len(a) /\ a[k] \in Nat /\ b[k] \in Nat /\ a[k] # b[k]
    BY <1>2, StringsType
  <2>5. ASSUME NEW j \in 1 .. k - 1 PROVE a[j] = b[j]
    <3>1. j \in 1 .. Len(a) /\ ~(k <= j)
      BY <2>4, StringsType
    <3>. QED  BY <2>3, <3>1
  <2>6. Differ(a, b, k) \/ Differ(b, a, k)
    BY <1>2, <2>4, <2>5 DEF Differ
  <2>. QED  BY <1>2, <2>6, KeyBelowShows
<1>. QED  BY <1>1, <1>2

LEMMA KeyTransitive ==
  ASSUME NEW a \in Strings, NEW b \in Strings, NEW c \in Strings, KeyBelow(a, b), KeyBelow(b, c)
  PROVE  KeyBelow(a, c)
<1>1. Len(a) \in Nat /\ Len(b) \in Nat /\ Len(c) \in Nat
  BY StringsType
<1>2. CASE Len(a) < Len(c)
  BY <1>2, KeyBelowShows
<1>3. CASE ~(Len(a) < Len(c))
  <2>1. Len(a) <= Len(b) /\ Len(b) <= Len(c)
    BY <1>1, KeyBelowShows
  <2>2. Len(a) = Len(b) /\ Len(b) = Len(c)
    BY <1>1, <1>3, <2>1
  <2>3. PICK k : Differ(a, b, k)
    BY <1>1, <2>2, KeyBelowShows
  <2>4. PICK l : Differ(b, c, l)
    BY <1>1, <2>2, KeyBelowShows
  <2>5. /\ k \in 1 .. Len(a) /\ a[k] < b[k] /\ \A j \in 1 .. k - 1 : a[j] = b[j]
        /\ l \in 1 .. Len(a) /\ b[l] < c[l] /\ \A j \in 1 .. l - 1 : b[j] = c[j]
    BY <2>2, <2>3, <2>4 DEF Differ
  <2>6. /\ a[k] \in Nat /\ b[k] \in Nat /\ c[k] \in Nat
        /\ a[l] \in Nat /\ b[l] \in Nat /\ c[l] \in Nat
    BY <2>2, <2>5, StringsType
  <2>7. CASE k <= l
    <3>1. a[k] < c[k]
      <4>1. k < l => k \in 1 .. l - 1
        BY <2>5
      <4>2. k = l \/ k < l
        BY <2>5, <2>7
      <4>. QED  BY <2>5, <2>6, <4>1, <4>2
    <3>2. ASSUME NEW j \in 1 .. k - 1 PROVE a[j] = c[j]
      <4>1. j \in 1 .. l - 1
        BY <2>5, <2>7
      <4>. QED  BY <2>5, <4>1
    <3>3. Differ(a, c, k)
      BY <2>5, <3>1, <3>2 DEF Differ
    <3>. QED  BY <2>2, <3>3, KeyBelowShows
  <2>8. CASE ~(k <= l)
    <3>1. a[l] < c[l]
      <4>1. l \in 1 .. k - 1
        BY <2>5, <2>8
      <4>. QED  BY <2>5, <2>6, <4>1
    <3>2. ASSUME NEW j \in 1 .. l - 1 PROVE a[j] = c[j]
      <4>1. j \in 1 .. k - 1
        BY <2>5, <2>8
      <4>. QED  BY <2>5, <4>1
    <3>3. Differ(a, c, l)
      BY <2>5, <3>1, <3>2 DEF Differ
    <3>. QED  BY <2>2, <3>3, KeyBelowShows
  <2>. QED  BY <2>7, <2>8
<1>. QED  BY <1>2, <1>3

\* Each key below the next.
Increasing(ks, n) ==
  /\ \A k \in 1 .. n : ks[k] \in Strings
  /\ \A k \in 2 .. n : KeyBelow(ks[k - 1], ks[k])

LEMMA IncreasingAll ==
  ASSUME NEW n \in Nat, NEW ks, Increasing(ks, n)
  PROVE  \A i, j \in 1 .. n : i < j => KeyBelow(ks[i], ks[j])
<1>. DEFINE S == {m \in 0 .. n : \A i, j \in 1 .. m : i < j => KeyBelow(ks[i], ks[j])}
<1>1. 0 \in S
  OBVIOUS
<1>2. ASSUME NEW m \in 0 .. n - 1, m \in S PROVE m + 1 \in S
  <2>1. ASSUME NEW i \in 1 .. m + 1, NEW j \in 1 .. m + 1, i < j PROVE KeyBelow(ks[i], ks[j])
    <3>1. CASE j <= m
      <4>1. i \in 1 .. m /\ j \in 1 .. m
        BY <2>1, <3>1
      <4>. QED  BY <1>2, <2>1, <4>1
    <3>2. CASE ~(j <= m)
      <4>1. j = m + 1 /\ j \in 2 .. n /\ j - 1 = m /\ i \in 1 .. m
        BY <2>1, <3>2
      <4>2. KeyBelow(ks[m], ks[j])
        BY <4>1 DEF Increasing
      <4>3. CASE i = m
        BY <4>2, <4>3
      <4>4. CASE i # m
        <5>1. i \in 1 .. m /\ m \in 1 .. m /\ i < m
          BY <4>1, <4>4
        <5>2. KeyBelow(ks[i], ks[m])
          BY <1>2, <5>1
        <5>3. ks[i] \in Strings /\ ks[m] \in Strings /\ ks[j] \in Strings
          <6>1. i \in 1 .. n /\ m \in 1 .. n /\ j \in 1 .. n
            BY <4>1
          <6>. QED  BY <6>1 DEF Increasing
        <5>. QED  BY <4>2, <5>2, <5>3, KeyTransitive
      <4>. QED  BY <4>3, <4>4
    <3>. QED  BY <3>1, <3>2
  <2>2. m + 1 \in 0 .. n
    OBVIOUS
  <2>. QED  BY <2>1, <2>2
<1>. HIDE DEF S
<1>3. 0 .. n \subseteq S
  BY <1>1, <1>2, InductionUpTo
<1>4. n \in S
  BY <1>3
<1>. QED  BY <1>4 DEF S

\* ... so that there are as many keys as places, and as many below a key as
\* before it.
FirstOf(ks, m) == {ks[i] : i \in 1 .. m}

LEMMA IncreasingOnce ==
  ASSUME NEW n \in Nat, NEW ks, Increasing(ks, n), NEW i \in 1 .. n, NEW j \in 1 .. n, ks[i] = ks[j]
  PROVE  i = j
<1>1. ks[i] \in Strings
  BY DEF Increasing
<1>2. ~(i < j) /\ ~(j < i)
  <2>1. i < j => KeyBelow(ks[i], ks[j])
    BY IncreasingAll
  <2>2. j < i => KeyBelow(ks[j], ks[i])
    BY IncreasingAll
  <2>. QED  BY <1>1, <2>1, <2>2, KeyIrreflexive
<1>. QED  BY <1>2

LEMMA IncreasingCount ==
  ASSUME NEW n \in Nat, NEW ks, Increasing(ks, n)
  PROVE  \A m \in 0 .. n : IsFiniteSet(FirstOf(ks, m)) /\ Cardinality(FirstOf(ks, m)) = m
<1>. DEFINE S == {m \in 0 .. n : IsFiniteSet(FirstOf(ks, m)) /\ Cardinality(FirstOf(ks, m)) = m}
<1>1. 0 \in S
  <2>1. FirstOf(ks, 0) = {}
    BY DEF FirstOf
  <2>. QED  BY <2>1, FS_EmptySet
<1>2. ASSUME NEW m \in 0 .. n - 1, m \in S PROVE m + 1 \in S
  <2>. DEFINE k == m + 1
  <2>1. k \in 1 .. n /\ k \in 0 .. n
    OBVIOUS
  <2>2. FirstOf(ks, k) = FirstOf(ks, m) \cup {ks[k]}
    <3>1. 1 .. k = 1 .. m \cup {k}
      OBVIOUS
    <3>. HIDE DEF k
    <3>. QED  BY <3>1 DEF FirstOf
  <2>3. ks[k] \notin FirstOf(ks, m)
    <3>1. ASSUME NEW i \in 1 .. m PROVE ks[i] # ks[k]
      <4>1. i \in 1 .. n /\ i # k
        OBVIOUS
      <4>. HIDE DEF k
      <4>. QED  BY <2>1, <4>1, IncreasingOnce
    <3>. QED  BY <3>1 DEF FirstOf
  <2>4. IsFiniteSet(FirstOf(ks, m)) /\ Cardinality(FirstOf(ks, m)) = m
    BY <1>2
  <2>. HIDE DEF k
  <2>5. IsFiniteSet(FirstOf(ks, k)) /\ Cardinality(FirstOf(ks, k)) = m + 1
    BY <2>2, <2>3, <2>4, FS_AddElement
  <2>. QED  BY <2>1, <2>5 DEF k
<1>. HIDE DEF S
<1>3. 0 .. n \subseteq S
  BY <1>1, <1>2, InductionUpTo
<1>. QED  BY <1>3 DEF S

LEMMA KeysInOrder ==
  ASSUME NEW n \in Nat, NEW ks, Increasing(ks, n), NEW of, DOMAIN of = FirstOf(ks, n)
  PROVE  /\ Cardinality(DOMAIN of) = n
         /\ KeysOf(of) = [k \in 1 .. n |-> ks[k]]
<1>. DEFINE T == DOMAIN of
            rank == [x \in T |-> Cardinality({y \in T : KeyBelow(y, x)})]
<1>1. Cardinality(T) = n
  <2>1. n \in 0 .. n
    OBVIOUS
  <2>. QED  BY <2>1, IncreasingCount
<1>2. KeysOf(of) = [k \in 1 .. n |-> CHOOSE x \in T : rank[x] = k - 1]
  BY <1>1 DEF KeysOf, Sorted
<1>3. T = FirstOf(ks, n)
  OBVIOUS
<1>. HIDE DEF T
<1>4. ASSUME NEW k \in 1 .. n PROVE ks[k] \in T /\ rank[ks[k]] = k - 1
  <2>1. ks[k] \in T
    BY <1>3 DEF FirstOf
  <2>2. ASSUME NEW i \in 1 .. n PROVE KeyBelow(ks[i], ks[k]) <=> i \in 1 .. k - 1
    <3>1. ks[i] \in Strings /\ ks[k] \in Strings
      BY DEF Increasing
    <3>2. i < k => KeyBelow(ks[i], ks[k])
      BY IncreasingAll
    <3>3. ~(i < k) => ~KeyBelow(ks[i], ks[k])
      <4>1. CASE i = k
        BY <3>1, <4>1, KeyIrreflexive
      <4>2. CASE k < i
        <5>1. KeyBelow(ks[k], ks[i])
          BY <4>2, IncreasingAll
        <5>2. KeyBelow(ks[i], ks[k]) => KeyBelow(ks[k], ks[k])
          BY <3>1, <5>1, KeyTransitive
        <5>. QED  BY <3>1, <5>2, KeyIrreflexive
      <4>. QED  BY <4>1, <4>2
    <3>4. i < k <=> i \in 1 .. k - 1
      OBVIOUS
    <3>. QED  BY <3>2, <3>3, <3>4
  <2>3. {y \in T : KeyBelow(y, ks[k])} = FirstOf(ks, k - 1)
    <3>1. ASSUME NEW y, y \in T, KeyBelow(y, ks[k]) PROVE y \in FirstOf(ks, k - 1)
      <4>1. PICK i \in 1 .. n : y = ks[i]
        BY <1>3, <3>1 DEF FirstOf
      <4>. QED  BY <2>2, <3>1, <4>1 DEF FirstOf
    <3>2. ASSUME NEW y, y \in FirstOf(ks, k - 1) PROVE y \in T /\ KeyBelow(y, ks[k])
      <4>1. PICK i \in 1 .. k - 1 : y = ks[i]
        BY <3>2 DEF FirstOf
      <4>2. i \in 1 .. n
        OBVIOUS
      <4>. QED  BY <1>3, <2>2, <4>1, <4>2 DEF FirstOf
    <3>. QED  BY <3>1, <3>2
  <2>4. k - 1 \in 0 .. n
    OBVIOUS
  <2>5. Cardinality(FirstOf(ks, k - 1)) = k - 1
    BY <2>4, IncreasingCount
  <2>. QED  BY <2>1, <2>3, <2>5
<1>. HIDE DEF rank
<1>5. ASSUME NEW k \in 1 .. n PROVE (CHOOSE x \in T : rank[x] = k - 1) = ks[k]
  <2>1. ASSUME NEW x \in T, rank[x] = k - 1 PROVE x = ks[k]
    <3>1. PICK i \in 1 .. n : x = ks[i]
      BY <1>3 DEF FirstOf
    <3>2. rank[x] = i - 1
      BY <1>4, <3>1
    <3>3. i = k
      BY <2>1, <3>2
    <3>. QED  BY <3>1, <3>3
  <2>. DEFINE c == CHOOSE x \in T : rank[x] = k - 1
  <2>2. c \in T /\ rank[c] = k - 1
    BY <1>4
  <2>. HIDE DEF c
  <2>3. c = ks[k]
    BY <2>1, <2>2
  <2>. QED  BY <2>3 DEF c
<1>6. KeysOf(of) = [k \in 1 .. n |-> ks[k]]
  BY <1>2, <1>5
<1>. QED  BY <1>1, <1>6 DEF T

----------------------------------------------------------------------------
(* Maps.                                                                   *)

LEMMA Unchecked ==
  /\ \A r : IsOk(Utf8(r)) => IsOk(r) /\ Utf8(r) = r
  /\ \A r, from, to : IsOk(Renamed(r, from, to)) /\ to # "Ok" => IsOk(r) /\ Renamed(r, from, to) = r
<1>1. ASSUME NEW r, IsOk(Utf8(r)) PROVE IsOk(r) /\ Utf8(r) = r
  <2>1. IsOk(r)
    BY <1>1 DEF Utf8, Then
  <2>2. Utf8(r) = IF NotUtf8 \in ToSet(r.value) THEN Fail("InvalidUtf8") ELSE r
    BY <2>1 DEF Utf8, Then
  <2>. QED  BY <1>1, <2>1, <2>2, Results
<1>2. ASSUME NEW r, NEW from, NEW to, IsOk(Renamed(r, from, to)), to # "Ok"
      PROVE  IsOk(r) /\ Renamed(r, from, to) = r
  BY <1>2, Results DEF Renamed
<1>. QED  BY <1>1, <1>2

\* x is read with its key from p to q, the key as far as m.
Pair(s, item, p, m, q, key, x) ==
  /\ key \in Strings /\ Spans(s, p, m)
  /\ EncodeString(3, key) = Written(Part(s, p, m))
  /\ Nested(s, item, m, q, x)

\* r has one entry more than done, which is read from p.
IsEntry(s, item, p, done, r) ==
  LET key == r.value.previous[1]
  IN  /\ r.value.previous = << key >>
      /\ DOMAIN r.value.of = DOMAIN done.of \cup {key}
      /\ \A k \in DOMAIN done.of : k # key => r.value.of[k] = done.of[k]
      /\ Pair(s, item, p, StringAt(s, p, 3).pos, r.pos, key, r.value.of[key])
      /\ done.previous # << >> => key # done.previous[1] /\ ~KeyBelow(key, done.previous[1])

LEMMA EntryOk ==
  ASSUME NEW s \in Seq(Byte), NEW p \in 0 .. Len(s), NEW item, Onward(s, item), NEW done,
         NEW r, r = Entry(s, p, done, item), IsOk(r)
  PROVE  IsEntry(s, item, p, done, r)
<1>. DEFINE t == StringAt(s, p, 3)  u == Renamed(Utf8(t), "UnexpectedType", "NonStringKey")
            key == t.value  m == t.pos  x == item[m]
<1>1. r = Then(u, LAMBDA k, at :
            IF done.previous # << >> /\ Misorder(k, done.previous[1]) # "Ok"
            THEN Fail(Misorder(k, done.previous[1]))
            ELSE Then(item[at], LAMBDA next, after :
                   Read([of |-> Inserted(done.of, k, next), previous |-> << k >>], after)))
  BY DEF Entry
<1>2. IsOk(u)
  <2>. HIDE DEF u
  <2>. QED  BY <1>1 DEF Then
<1>3. IsOk(t) /\ u = t
  <2>. HIDE DEF t
  <2>. QED  BY <1>2, Unchecked
<1>4. IsString(s, p, 3, t)
  BY <1>3, StringOk
<1>5. key \in Strings /\ Spans(s, p, m) /\ EncodeString(3, key) = Written(Part(s, p, m))
  BY <1>4 DEF IsString, Strings
<1>. HIDE DEF t, u
<1>6. r = IF done.previous # << >> /\ Misorder(key, done.previous[1]) # "Ok"
          THEN Fail(Misorder(key, done.previous[1]))
          ELSE Then(x, LAMBDA next, after :
                 Read([of |-> Inserted(done.of, key, next), previous |-> << key >>], after))
  BY <1>1, <1>2, <1>3 DEF Then
<1>. HIDE DEF key, m, x
<1>7. ~(done.previous # << >> /\ Misorder(key, done.previous[1]) # "Ok")
  BY <1>6, Results
<1>8. done.previous # << >> => key # done.previous[1] /\ ~KeyBelow(key, done.previous[1])
  BY <1>7 DEF Misorder
<1>9. r = Then(x, LAMBDA next, after :
             Read([of |-> Inserted(done.of, key, next), previous |-> << key >>], after))
  BY <1>6, <1>7
<1>10. IsOk(x)
  BY <1>9 DEF Then
<1>11. r = Read([of |-> Inserted(done.of, key, x.value), previous |-> << key >>], x.pos)
  BY <1>9, <1>10 DEF Then
<1>12. /\ r.value.of = Inserted(done.of, key, x.value)
       /\ r.value.previous = << key >> /\ r.value.previous[1] = key /\ r.pos = x.pos
  BY <1>11 DEF Read
<1>13. m \in 0 .. Len(s)
  BY <1>5, SpansType
<1>14. Nested(s, item, m, r.pos, x.value)
  BY <1>10, <1>12, <1>13 DEF Nested, Onward, x
<1>15. /\ DOMAIN r.value.of = DOMAIN done.of \cup {key}
       /\ \A k \in DOMAIN done.of : k # key => r.value.of[k] = done.of[k]
       /\ r.value.of[key] = x.value
  BY <1>12 DEF Inserted
<1>16. Pair(s, item, p, StringAt(s, p, 3).pos, r.pos, key, r.value.of[key])
  BY <1>5, <1>14, <1>15 DEF Pair, m, t
<1>. QED  BY <1>8, <1>12, <1>15, <1>16 DEF IsEntry

EntriesStep(s, done, item) == Then(done, LAMBDA entries, at : Entry(s, at, entries, item))
NoEntries(pos) == Read([of |-> << >>, previous |-> << >>], pos)

IsEntries(f, s, pos, len, item) ==
  f = [k \in 0 .. len |-> IF k = 0 THEN NoEntries(pos) ELSE EntriesStep(s, f[k - 1], item)]

LEMMA EntriesAt ==
  ASSUME NEW len \in Nat, NEW s, NEW pos, NEW item, NEW f, IsEntries(f, s, pos, len, item)
  PROVE  /\ DOMAIN f = 0 .. len
         /\ f[0] = NoEntries(pos)
         /\ \A k \in 1 .. len : f[k] = EntriesStep(s, f[k - 1], item)
<1>. DEFINE g == [k \in 0 .. len |-> IF k = 0 THEN NoEntries(pos) ELSE EntriesStep(s, f[k - 1], item)]
<1>1. f = g
  BY DEF IsEntries
<1>2. DOMAIN g = 0 .. len /\ g[0] = NoEntries(pos) /\ \A k \in 1 .. len : g[k] = EntriesStep(s, f[k - 1], item)
  OBVIOUS
<1>. HIDE DEF g
<1>. QED  BY <1>1, <1>2

LEMMA EntriesExist ==
  ASSUME NEW s, NEW pos, NEW item
  PROVE  \A len \in Nat : \E f : IsEntries(f, s, pos, len, item)
<1>. DEFINE S == {n \in Nat : \E f : IsEntries(f, s, pos, n, item)}
<1>1. 0 \in S
  <2>. DEFINE f == [k \in 0 .. 0 |-> NoEntries(pos)]
              g == [k \in 0 .. 0 |-> IF k = 0 THEN NoEntries(pos) ELSE EntriesStep(s, f[k - 1], item)]
  <2>1. \A k \in 0 .. 0 : f[k] = g[k]
    OBVIOUS
  <2>2. f = g
    BY <2>1
  <2>. QED  BY <2>2 DEF IsEntries
<1>2. ASSUME NEW n \in Nat, n \in S PROVE n + 1 \in S
  <2>1. PICK f : IsEntries(f, s, pos, n, item)
    BY <1>2
  <2>. DEFINE g == [k \in 0 .. n + 1 |-> IF k = 0 THEN NoEntries(pos) ELSE EntriesStep(s, f[k - 1], item)]
              h == [k \in 0 .. n + 1 |-> IF k = 0 THEN NoEntries(pos) ELSE EntriesStep(s, g[k - 1], item)]
  <2>2. /\ f[0] = NoEntries(pos)
        /\ \A k \in 1 .. n : f[k] = EntriesStep(s, f[k - 1], item)
    BY <2>1, EntriesAt
  <2>3. /\ g[0] = NoEntries(pos)
        /\ \A k \in 1 .. n + 1 : g[k] = EntriesStep(s, f[k - 1], item)
    OBVIOUS
  <2>4. /\ h[0] = NoEntries(pos)
        /\ \A k \in 1 .. n + 1 : h[k] = EntriesStep(s, g[k - 1], item)
    OBVIOUS
  <2>5. DOMAIN g = 0 .. n + 1 /\ DOMAIN h = 0 .. n + 1 /\ g = [k \in DOMAIN g |-> g[k]] /\ h = [k \in DOMAIN h |-> h[k]]
    OBVIOUS
  <2>6. IsEntries(g, s, pos, n + 1, item) <=> g = h
    BY Zenon DEF IsEntries
  <2>. HIDE DEF g, h
  <2>7. \A k \in 0 .. n : g[k] = f[k]
    BY <2>2, <2>3
  <2>8. ASSUME NEW k \in 0 .. n + 1 PROVE g[k] = h[k]
    <3>1. k # 0 => k \in 1 .. n + 1 /\ k - 1 \in 0 .. n
      OBVIOUS
    <3>2. k # 0 => g[k - 1] = f[k - 1]
      BY <2>7, <3>1
    <3>. QED  BY <2>3, <2>4, <3>1, <3>2
  <2>9. g = h
    BY <2>5, <2>8
  <2>. QED  BY <2>6, <2>9
<1>. HIDE DEF S
<1>3. Nat \subseteq S
  BY <1>1, <1>2, Induction
<1>. QED  BY <1>3 DEF S

\* r has n entries one after another, with the keys ks, which end at m, and the
\* ends q.
EntriesRead(s, item, pos, n, r, ks, m, q) ==
  /\ q[0] = pos /\ r.pos = q[n]
  /\ Increasing(ks, n) /\ DOMAIN r.value.of = FirstOf(ks, n)
  /\ r.value.previous = IF n = 0 THEN << >> ELSE << ks[n] >>
  /\ \A k \in 1 .. n : Pair(s, item, q[k - 1], m[k], q[k], ks[k], r.value.of[ks[k]])

LEMMA EntriesReadMore ==
  ASSUME NEW s \in Seq(Byte), NEW pos \in 0 .. Len(s), NEW item, Onward(s, item),
         NEW n \in Nat, NEW a, NEW b, NEW ks, NEW m, NEW q,
         IsOk(b), b = EntriesStep(s, a, item), b.pos = q[n + 1],
         ks[n + 1] = b.value.previous[1], m[n + 1] = StringAt(s, a.pos, 3).pos,
         IsOk(a) => EntriesRead(s, item, pos, n, a, ks, m, q)
  PROVE  EntriesRead(s, item, pos, n + 1, b, ks, m, q)
<1>. DEFINE p == a.pos  key == ks[n + 1]  j == n + 1
<1>1. IsOk(a)
  BY DEF EntriesStep, Then
<1>2. b = Entry(s, p, a.value, item)
  BY <1>1 DEF EntriesStep, Then
<1>3. EntriesRead(s, item, pos, n, a, ks, m, q)
  BY <1>1
<1>4. p \in 0 .. Len(s) /\ p = q[n]
  <2>1. p = q[n] /\ q[0] = pos
    BY <1>3 DEF EntriesRead
  <2>2. CASE n = 0
    BY <2>1, <2>2
  <2>3. CASE n # 0
    <3>1. n \in 1 .. n
      BY <2>3
    <3>2. Pair(s, item, q[n - 1], m[n], q[n], ks[n], a.value.of[ks[n]])
      BY <1>3, <3>1 DEF EntriesRead
    <3>3. Spans(s, m[n], q[n])
      BY <3>2 DEF Pair, Nested
    <3>. HIDE DEF p
    <3>. QED  BY <2>1, <3>3, SpansType
  <2>. QED  BY <2>2, <2>3
<1>5. IsEntry(s, item, p, a.value, b)
  BY <1>2, <1>4, EntryOk
<1>6. /\ b.value.previous = << key >>
      /\ DOMAIN b.value.of = DOMAIN a.value.of \cup {key}
      /\ \A k \in DOMAIN a.value.of : k # key => b.value.of[k] = a.value.of[k]
      /\ Pair(s, item, p, m[j], b.pos, key, b.value.of[key])
      /\ a.value.previous # << >> => key # a.value.previous[1] /\ ~KeyBelow(key, a.value.previous[1])
  BY <1>5 DEF IsEntry
<1>7. key \in Strings
  BY <1>6 DEF Pair
<1>8. /\ Increasing(ks, n) /\ DOMAIN a.value.of = FirstOf(ks, n)
      /\ a.value.previous = IF n = 0 THEN << >> ELSE << ks[n] >>
      /\ \A k \in 1 .. n : Pair(s, item, q[k - 1], m[k], q[k], ks[k], a.value.of[ks[k]])
  BY <1>3 DEF EntriesRead
<1>9. j \in Nat /\ j \in 1 .. j /\ j - 1 = n /\ j # 0 /\ ks[j] = key
  OBVIOUS
<1>10. 1 .. j = 1 .. n \cup {j} /\ \A k \in 1 .. n : k \in 1 .. j /\ k # j
  OBVIOUS
<1>. HIDE DEF p, key, j
<1>11. Increasing(ks, j)
  <2>1. ASSUME NEW k \in 1 .. j PROVE ks[k] \in Strings
    <3>1. CASE k = j
      BY <1>7, <1>9, <3>1
    <3>2. CASE k # j
      BY <1>8, <1>10, <3>2 DEF Increasing
    <3>. QED  BY <3>1, <3>2
  <2>2. ASSUME NEW k \in 2 .. j PROVE KeyBelow(ks[k - 1], ks[k])
    <3>1. CASE k = j
      <4>1. k - 1 = n /\ n \in 1 .. n /\ n # 0
        BY <1>9, <3>1
      <4>2. a.value.previous # << >> /\ a.value.previous[1] = ks[n]
        BY <1>8, <4>1
      <4>3. ks[n] \in Strings
        BY <1>8, <4>1 DEF Increasing
      <4>4. KeyBelow(ks[n], key)
        BY <1>6, <1>7, <4>2, <4>3, KeyTotal
      <4>. QED  BY <1>9, <3>1, <4>1, <4>4
    <3>2. CASE k # j
      <4>1. k \in 2 .. n
        BY <1>9, <3>2
      <4>. QED  BY <1>8, <4>1 DEF Increasing
    <3>. QED  BY <3>1, <3>2
  <2>. QED  BY <2>1, <2>2 DEF Increasing
<1>12. FirstOf(ks, j) = FirstOf(ks, n) \cup {key}
  BY <1>9, <1>10 DEF FirstOf
<1>13. ASSUME NEW k \in 1 .. j PROVE Pair(s, item, q[k - 1], m[k], q[k], ks[k], b.value.of[ks[k]])
  <2>1. CASE k = j
    <3>1. q[k - 1] = p /\ q[k] = b.pos
      BY <1>4, <1>9, <2>1 DEF j
    <3>. QED  BY <1>6, <1>9, <2>1, <3>1
  <2>2. CASE k # j
    <3>1. k \in 1 .. n
      BY <1>10, <2>2
    <3>2. ks[k] # key
      BY <1>9, <1>11, <2>2, IncreasingOnce
    <3>3. ks[k] \in DOMAIN a.value.of
      BY <1>8, <3>1 DEF FirstOf
    <3>4. b.value.of[ks[k]] = a.value.of[ks[k]]
      BY <1>6, <3>2, <3>3
    <3>. QED  BY <1>8, <3>1, <3>4
  <2>. QED  BY <2>1, <2>2
<1>14. q[0] = pos
  BY <1>3 DEF EntriesRead
<1>15. EntriesRead(s, item, pos, j, b, ks, m, q)
  BY <1>6, <1>8, <1>9, <1>11, <1>12, <1>13, <1>14 DEF EntriesRead, j
<1>. QED  BY <1>15 DEF j

LEMMA EntriesOk ==
  ASSUME NEW s \in Seq(Byte), NEW pos \in 0 .. Len(s), NEW item, Onward(s, item),
         NEW len \in Nat, NEW r, r = Entries(s, pos, len, item), IsOk(r)
  PROVE  \E a, ks, m, q :
           EntriesRead(s, item, pos, len, a, ks, m, q) /\ r = Read(a.value.of, a.pos)
<1>. DEFINE F == CHOOSE f : IsEntries(f, s, pos, len, item)
<1>1. r = Then(F[len], LAMBDA done, at : Read(done.of, at))
  BY Zenon DEF Entries, IsEntries, EntriesStep, NoEntries
<1>2. IsEntries(F, s, pos, len, item)
  BY EntriesExist
<1>. HIDE DEF F
<1>3. /\ F[0] = NoEntries(pos)
      /\ \A k \in 1 .. len : F[k] = EntriesStep(s, F[k - 1], item)
  BY <1>2, EntriesAt
<1>4. IsOk(F[len]) /\ r = Read(F[len].value.of, F[len].pos)
  <2>1. IsOk(F[len])
    BY <1>1 DEF Then
  <2>. QED  BY <1>1, <2>1 DEF Then
<1>. DEFINE q == [k \in 0 .. len |-> F[k].pos]
            ks == [k \in 0 .. len |-> F[k].value.previous[1]]
            m == [k \in 0 .. len |-> StringAt(s, F[k - 1].pos, 3).pos]
            S == {k \in 0 .. len : IsOk(F[k]) => EntriesRead(s, item, pos, k, F[k], ks, m, q)}
<1>5. \A k \in 0 .. len : q[k] = F[k].pos /\ ks[k] = F[k].value.previous[1] /\ m[k] = StringAt(s, F[k - 1].pos, 3).pos
  OBVIOUS
<1>. HIDE DEF q, ks, m
<1>6. 0 \in S
  <2>1. F[0].value.of = << >> /\ F[0].value.previous = << >> /\ F[0].pos = pos /\ q[0] = pos
    BY <1>3, <1>5 DEF NoEntries, Read
  <2>2. DOMAIN F[0].value.of = FirstOf(ks, 0)
    BY <2>1 DEF FirstOf
  <2>3. Increasing(ks, 0)
    BY DEF Increasing
  <2>4. EntriesRead(s, item, pos, 0, F[0], ks, m, q)
    BY <2>1, <2>2, <2>3 DEF EntriesRead
  <2>. QED  BY <2>4
<1>7. ASSUME NEW k \in 0 .. len - 1, k \in S PROVE k + 1 \in S
  <2>. DEFINE j == k + 1
  <2>1. j \in 1 .. len /\ j \in 0 .. len /\ j - 1 = k /\ k \in Nat
    OBVIOUS
  <2>2. /\ F[j] = EntriesStep(s, F[k], item) /\ F[j].pos = q[j]
        /\ ks[j] = F[j].value.previous[1] /\ m[j] = StringAt(s, F[k].pos, 3).pos
    <3>. HIDE DEF j
    <3>. QED  BY <1>3, <1>5, <2>1
  <2>3. IsOk(F[k]) => EntriesRead(s, item, pos, k, F[k], ks, m, q)
    BY <1>7
  <2>4. ASSUME IsOk(F[j]) PROVE EntriesRead(s, item, pos, k + 1, F[j], ks, m, q)
    BY <2>1, <2>2, <2>3, <2>4, EntriesReadMore
  <2>. QED  BY <2>1, <2>4
<1>. HIDE DEF S
<1>8. 0 .. len \subseteq S
  BY <1>6, <1>7, InductionUpTo
<1>9. len \in S
  BY <1>8
<1>10. EntriesRead(s, item, pos, len, F[len], ks, m, q)
  BY <1>4, <1>9 DEF S
<1>. QED  BY <1>4, <1>10

\* A map is written as it was read.
LEMMA MapForm ==
  ASSUME NEW s \in Seq(Byte), NEW p, NEW at, Spans(s, p, at), NEW len \in Nat,
         EncodeHead(5, len) = Part(s, p, at),
         NEW item, Onward(s, item), NEW D, NEW write, Faithful(s, item, D, write),
         NEW r, r = Entries(s, at, len, item), IsOk(r), \A k \in DOMAIN r.value : r.value[k] \in D
  PROVE  /\ Spans(s, p, r.pos)
         /\ Joined(<< Written(EncodeHead(5, Cardinality(DOMAIN r.value))) >>
                   \o EncodeEntries(KeysOf(r.value), r.value, write))
              = Written(Part(s, p, r.pos))
<1>1. at \in 0 .. Len(s)
  BY SpansType
<1>2. PICK a, ks, m, q : EntriesRead(s, item, at, len, a, ks, m, q) /\ r = Read(a.value.of, a.pos)
  BY <1>1, EntriesOk
<1>. DEFINE of == r.value
<1>3. of = a.value.of /\ r.pos = a.pos
  BY <1>2 DEF Read
<1>4. /\ q[0] = at /\ r.pos = q[len] /\ Increasing(ks, len) /\ DOMAIN of = FirstOf(ks, len)
      /\ \A k \in 1 .. len : Pair(s, item, q[k - 1], m[k], q[k], ks[k], of[ks[k]])
  BY <1>2, <1>3 DEF EntriesRead
<1>5. \A k \in DOMAIN of : of[k] \in D
  OBVIOUS
<1>. HIDE DEF of
<1>6. Cardinality(DOMAIN of) = len /\ KeysOf(of) = [k \in 1 .. len |-> ks[k]]
  BY <1>4, KeysInOrder
<1>7. ASSUME NEW k \in 1 .. len
      PROVE  /\ Spans(s, q[k - 1], q[k])
             /\ Joined(<< EncodeString(3, ks[k]), write[of[ks[k]]] >>) = Written(Part(s, q[k - 1], q[k]))
  <2>. DEFINE i == q[k - 1]  j == m[k]  l == q[k]  key == ks[k]  x == of[ks[k]]
  <2>1. Pair(s, item, i, j, l, key, x)
    BY <1>4
  <2>2. x \in D
    BY <1>4, <1>5 DEF FirstOf
  <2>. HIDE DEF i, j, l, key, x
  <2>3. Spans(s, i, j) /\ EncodeString(3, key) = Written(Part(s, i, j)) /\ Nested(s, item, j, l, x)
    BY <2>1 DEF Pair
  <2>4. write[x] = Written(Part(s, j, l))
    BY <2>2, <2>3, FaithfulTo
  <2>5. Spans(s, j, l)
    BY <2>3 DEF Nested
  <2>6. Spans(s, i, l)
    BY <2>3, <2>5, PartsJoin
  <2>7. Joined(<< EncodeString(3, key), write[x] >>) = Written(Part(s, i, l))
    BY <2>3, <2>4, <2>5, JoinedTwo
  <2>. QED  BY <2>6, <2>7 DEF i, j, l, key, x
<1>8. Follow(s, q, len)
  BY <1>7 DEF Follow
<1>. DEFINE keys == KeysOf(of)  rest == EncodeEntries(keys, of, write)
<1>9. rest = [k \in 1 .. len |-> Written(Part(s, q[k - 1], q[k]))]
  <2>1. DOMAIN keys = 1 .. len /\ \A k \in 1 .. len : keys[k] = ks[k]
    BY <1>6
  <2>. HIDE DEF keys
  <2>2. rest = [k \in 1 .. len |-> Joined(<< EncodeString(3, keys[k]), write[of[keys[k]]] >>)]
    BY <2>1 DEF EncodeEntries
  <2>. QED  BY <1>7, <2>1, <2>2
<1>. HIDE DEF rest
<1>10. /\ Spans(s, p, q[len])
       /\ Joined(<< Written(Part(s, p, at)) >> \o rest) = Written(Part(s, p, q[len]))
  BY <1>4, <1>8, <1>9, JoinedAfterHead
<1>. QED  BY <1>4, <1>6, <1>10 DEF of, rest

----------------------------------------------------------------------------
(* Any item.                                                               *)

LEMMA ListOnward ==
  ASSUME NEW s \in Seq(Byte), NEW at \in 0 .. Len(s), NEW len \in Nat, NEW item, Onward(s, item),
         NEW r, r = Items(s, at, len, item), IsOk(r)
  PROVE  Spans(s, at, r.pos)
<1>1. PICK q : ItemsRead(s, item, at, len, r, q)
  BY ItemsOk
<1>2. q[0] = at /\ r.pos = q[len] /\ Follow(s, q, len)
  BY <1>1 DEF ItemsRead, Follow, Nested
<1>3. CASE len = 0
  BY <1>2, <1>3, PartNone
<1>4. CASE len # 0
  <2>1. len > 0 /\ len \in 1 .. len
    BY <1>4
  <2>2. Spans(s, q[0], q[len])
    BY <1>2, <2>1, FollowOn
  <2>. QED  BY <1>2, <2>2
<1>. QED  BY <1>3, <1>4

LEMMA MapOnward ==
  ASSUME NEW s \in Seq(Byte), NEW at \in 0 .. Len(s), NEW len \in Nat, NEW item, Onward(s, item),
         NEW r, r = Entries(s, at, len, item), IsOk(r)
  PROVE  Spans(s, at, r.pos)
<1>1. PICK a, ks, m, q : EntriesRead(s, item, at, len, a, ks, m, q) /\ r = Read(a.value.of, a.pos)
  BY EntriesOk
<1>2. q[0] = at /\ r.pos = q[len]
  BY <1>1 DEF EntriesRead, Read
<1>3. ASSUME NEW k \in 1 .. len PROVE Spans(s, q[k - 1], q[k])
  <2>. DEFINE i == q[k - 1]  j == m[k]  l == q[k]
  <2>1. Pair(s, item, i, j, l, ks[k], a.value.of[ks[k]])
    BY <1>1 DEF EntriesRead
  <2>. HIDE DEF i, j, l
  <2>2. Spans(s, i, j) /\ Spans(s, j, l)
    BY <2>1 DEF Pair, Nested
  <2>3. Spans(s, i, l)
    BY <2>2, PartsJoin
  <2>. QED  BY <2>3 DEF i, l
<1>4. Follow(s, q, len)
  BY <1>3 DEF Follow
<1>5. CASE len = 0
  BY <1>2, <1>5, PartNone
<1>6. CASE len # 0
  <2>1. len > 0 /\ len \in 1 .. len
    BY <1>6
  <2>2. Spans(s, q[0], q[len])
    BY <1>4, <2>1, FollowOn
  <2>. QED  BY <1>2, <2>2
<1>. QED  BY <1>5, <1>6

\* What each kind of value is written as, where it is not too deep.
LEMMA EncodedByKind ==
  ASSUME NEW depth \in Nat, depth <= MaxDepth, NEW write
  PROVE  /\ \A n : EncodeItem(Simple(n), depth, write) = Written(<< 7 * Infos + SimpleInfo(n) >>)
         /\ \A n : EncodeItem(Integer(n), depth, write)
                     = IF n >= 0 THEN EncodeInteger(0, n) ELSE EncodeInteger(1, -1 - n)
         /\ \A b : b \notin NotFinite => EncodeItem(Float(b), depth, write)
                     = Written(<< 7 * Infos + FloatInfo >> \o FloatForm(b))
         /\ \A b : EncodeItem(Bytes(b), depth, write) = EncodeString(2, b)
         /\ \A b : EncodeItem(Text(b), depth, write) = EncodeString(3, b)
         /\ \A v : EncodeItem(List(v), depth, write)
                     = Joined(<< Written(EncodeHead(4, Len(v))) >> \o EncodeItems(v, write))
         /\ \A of : EncodeItem(Map(of), depth, write)
                     = Joined(<< Written(EncodeHead(5, Cardinality(DOMAIN of))) >>
                              \o EncodeEntries(KeysOf(of), of, write))
         /\ \A c : EncodeItem(Link(c), depth, write)
                     = Joined(<< Written(EncodeHead(6, CidTag)), EncodeString(2, << 0 >> \o c) >>)
<1>1. ~(depth > MaxDepth)
  BY BaseType
<1>2. \A n : Simple(n).kind = "simple" /\ Simple(n).name = n
  BY DEF Simple
<1>3. \A n : Integer(n).kind = "integer" /\ Integer(n).num = n
  BY DEF Integer
<1>4. \A b : Float(b).kind = "float" /\ Float(b).bytes = b
  BY DEF Float
<1>5. \A b : Bytes(b).kind = "bytes" /\ Bytes(b).bytes = b
  BY DEF Bytes
<1>6. \A b : Text(b).kind = "text" /\ Text(b).bytes = b
  BY DEF Text
<1>7. \A v : List(v).kind = "list" /\ List(v).items = v
  BY DEF List
<1>8. \A of : Map(of).kind = "map" /\ Map(of).of = of
  BY DEF Map
<1>9. \A c : Link(c).kind = "link" /\ Link(c).bytes = c
  BY DEF Link
<1>10. \A n : EncodeItem(Simple(n), depth, write) = Written(<< 7 * Infos + SimpleInfo(n) >>)
  BY <1>1, <1>2 DEF EncodeItem
<1>11. \A n : EncodeItem(Integer(n), depth, write)
                = IF n >= 0 THEN EncodeInteger(0, n) ELSE EncodeInteger(1, -1 - n)
  BY <1>1, <1>3 DEF EncodeItem
<1>12. \A b : b \notin NotFinite => EncodeItem(Float(b), depth, write)
                = Written(<< 7 * Infos + FloatInfo >> \o FloatForm(b))
  BY <1>1, <1>4 DEF EncodeItem
<1>13. \A b : EncodeItem(Bytes(b), depth, write) = EncodeString(2, b)
  BY <1>1, <1>5 DEF EncodeItem
<1>14. \A b : EncodeItem(Text(b), depth, write) = EncodeString(3, b)
  BY <1>1, <1>6 DEF EncodeItem
<1>15. \A v : EncodeItem(List(v), depth, write)
                = Joined(<< Written(EncodeHead(4, Len(v))) >> \o EncodeItems(v, write))
  BY <1>1, <1>7 DEF EncodeItem
<1>16. \A of : EncodeItem(Map(of), depth, write)
                = Joined(<< Written(EncodeHead(5, Cardinality(DOMAIN of))) >>
                         \o EncodeEntries(KeysOf(of), of, write))
  BY <1>1, <1>8 DEF EncodeItem
<1>17. \A c : EncodeItem(Link(c), depth, write)
                = Joined(<< Written(EncodeHead(6, CidTag)), EncodeString(2, << 0 >> \o c) >>)
  BY <1>1, <1>9 DEF EncodeItem
<1>. QED  BY <1>10, <1>11, <1>12, <1>13, <1>14, <1>15, <1>16, <1>17

LEMMA PartsByKind ==
  /\ \A v : Parts(List(v)) = {v[k] : k \in DOMAIN v}
  /\ \A of : Parts(Map(of)) = {of[key] : key \in DOMAIN of}
<1>1. \A v : List(v).kind = "list" /\ List(v).items = v
  BY DEF List
<1>2. \A of : Map(of).kind = "map" /\ Map(of).of = of
  BY DEF Map
<1>. QED  BY <1>1, <1>2 DEF Parts

\* r is an item of s from p, and is written as it was read when the values
\* nested in it, in D, are.
AsRead(s, p, depth, D, write, r) ==
  /\ Spans(s, p, r.pos)
  /\ Parts(r.value) \subseteq D => EncodeItem(r.value, depth, write) = Written(Part(s, p, r.pos))

LEMMA SimpleForm ==
  ASSUME NEW s \in Seq(Byte), NEW p \in Nat, p < Len(s), Major(s, p) = 7,
         NEW r, r = SimpleAt(s, p + 1, Info(s, p)), IsOk(r),
         NEW depth \in Nat, depth <= MaxDepth, NEW write
  PROVE  Spans(s, p, r.pos) /\ EncodeItem(r.value, depth, write) = Written(Part(s, p, r.pos))
<1>. DEFINE info == Info(s, p)  names == {"false", "true", "null"}
            one == Part(s, p, p + 1)
<1>1. one = << 7 * Infos + info >> /\ Spans(s, p, p + 1)
  <2>1. s[p + 1] = 7 * Infos + info
    BY HeadBits
  <2>. QED  BY <2>1, PartOne
<1>. HIDE DEF info, one
<1>2. CASE info \in {SimpleInfo("false"), SimpleInfo("true"), SimpleInfo("null")}
  <2>. DEFINE n == CHOOSE name \in names : info = SimpleInfo(name)
  <2>1. n \in names /\ info = SimpleInfo(n)
    <3>1. \E name \in names : info = SimpleInfo(name)
      BY <1>2
    <3>. QED  BY <3>1
  <2>2. r = Read(Simple(n), p + 1)
    BY <1>2 DEF SimpleAt, info
  <2>. HIDE DEF n
  <2>3. r.value = Simple(n) /\ r.pos = p + 1
    BY <2>2, Results
  <2>4. EncodeItem(Simple(n), depth, write) = Written(<< 7 * Infos + SimpleInfo(n) >>)
    <3>1. \A x : EncodeItem(Simple(x), depth, write) = Written(<< 7 * Infos + SimpleInfo(x) >>)
      BY EncodedByKind, Zenon
    <3>. QED  BY <3>1
  <2>. QED  BY <1>1, <2>1, <2>3, <2>4 DEF one
<1>3. CASE info \notin {SimpleInfo("false"), SimpleInfo("true"), SimpleInfo("null")} /\ info = FloatInfo
  <2>. DEFINE t == Take(s, p + 1, FloatBytes)  q == p + 1  b == Part(s, q, q + FloatBytes)
  <2>1. r = Then(t, LAMBDA bytes1, at :
              IF IsFloat(bytes1) THEN Read(Float(bytes1), at) ELSE Fail("InvalidFloat"))
    BY <1>3 DEF SimpleAt, info
  <2>2. IsOk(t)
    <3>. HIDE DEF t
    <3>. QED  BY <2>1 DEF Then
  <2>3. q \in 0 .. Len(s) /\ q \in Nat /\ FloatBytes \in Nat
    BY BaseType, BytesType
  <2>4. Spans(s, q, q + FloatBytes) /\ t = Read(b, q + FloatBytes)
    BY <2>2, <2>3, TakeOk
  <2>. HIDE DEF t, q, b
  <2>5. r = IF IsFloat(b) THEN Read(Float(b), q + FloatBytes) ELSE Fail("InvalidFloat")
    BY <2>1, <2>2, <2>4, Results DEF Then
  <2>6. IsFloat(b) /\ r.value = Float(b) /\ r.pos = q + FloatBytes
    BY <2>5, Results
  <2>7. FloatForm(b) = b /\ b \notin NotFinite
    BY <2>6 DEF FloatForm, IsFloat
  <2>8. EncodeItem(Float(b), depth, write) = Written(<< 7 * Infos + FloatInfo >> \o b)
    <3>1. \A x : x \notin NotFinite => EncodeItem(Float(x), depth, write)
                    = Written(<< 7 * Infos + FloatInfo >> \o FloatForm(x))
      BY EncodedByKind, Zenon
    <3>2. EncodeItem(Float(b), depth, write) = Written(<< 7 * Infos + FloatInfo >> \o FloatForm(b))
      BY <2>7, <3>1
    <3>. QED  BY <2>7, <3>2
  <2>9. Spans(s, p, q + FloatBytes) /\ one \o b = Part(s, p, q + FloatBytes)
    <3>1. Spans(s, p, q) /\ one = Part(s, p, q)
      BY <1>1 DEF one, q
    <3>. QED  BY <2>4, <3>1, PartsJoin DEF b
  <2>. QED  BY <1>1, <1>3, <2>6, <2>8, <2>9
<1>4. CASE info \notin {SimpleInfo("false"), SimpleInfo("true"), SimpleInfo("null")} /\ info # FloatInfo
  <2>1. r = Fail("InvalidFloat") \/ r = Fail("IndefiniteLength") \/ r = Fail("UnsupportedSimple")
    BY <1>4 DEF SimpleAt, info
  <2>. QED  BY <2>1, Results
<1>. QED  BY <1>2, <1>3, <1>4

LEMMA LinkForm ==
  ASSUME NEW s \in Seq(Byte), NEW p \in 0 .. Len(s), NEW h, IsHead(s, p, h), h.value.major = 6,
         NEW r, r = LinkAt(s, h.pos, h.value.arg), IsOk(r),
         NEW depth \in Nat, depth <= MaxDepth, NEW write
  PROVE  Spans(s, p, r.pos) /\ EncodeItem(r.value, depth, write) = Written(Part(s, p, r.pos))
<1>. DEFINE at == h.pos  t == StringAt(s, at, 2)  u == Renamed(t, "UnexpectedType", "InvalidCid")
            raw == t.value  c == CidIn(Tail(raw))
<1>1. Spans(s, p, at) /\ EncodeHead(6, h.value.arg) = Part(s, p, at) /\ at \in 0 .. Len(s)
  BY SpansType DEF IsHead
<1>2. h.value.arg = CidTag
  BY Results DEF LinkAt, Then
<1>3. r = Then(u, LAMBDA raw1, at1 :
            IF raw1 # << >> /\ raw1[1] = 0 /\ IsCid(Tail(raw1))
            THEN Read(Link(CidIn(Tail(raw1))), at1)
            ELSE Fail("InvalidCid"))
  BY <1>2 DEF LinkAt
<1>4. IsOk(u)
  <2>. HIDE DEF u
  <2>. QED  BY <1>3 DEF Then
<1>5. IsOk(t) /\ u = t
  <2>. HIDE DEF t
  <2>. QED  BY <1>4, Unchecked
<1>6. IsString(s, at, 2, t)
  BY <1>1, <1>5, StringOk
<1>7. raw \in Seq(Byte) /\ Spans(s, at, t.pos) /\ EncodeString(2, raw) = Written(Part(s, at, t.pos))
  BY <1>6 DEF IsString
<1>. HIDE DEF t, u, at
<1>8. r = IF raw # << >> /\ raw[1] = 0 /\ IsCid(Tail(raw)) THEN Read(Link(c), t.pos) ELSE Fail("InvalidCid")
  BY <1>3, <1>4, <1>5 DEF Then
<1>. HIDE DEF raw, c
<1>9. raw # << >> /\ raw[1] = 0 /\ IsCid(Tail(raw)) /\ r.value = Link(c) /\ r.pos = t.pos
  BY <1>8, Results
<1>10. c = Tail(raw)
  <2>. DEFINE l == Tail(raw)
  <2>. HIDE DEF l
  <2>1. \E cid \in Cids : IsPrefix(cid, l) /\ cid = l
    BY <1>9 DEF IsCid, l
  <2>2. l \in Cids /\ IsPrefix(l, l)
    BY <2>1
  <2>3. CidIn(l) \in Cids /\ IsPrefix(CidIn(l), l)
    BY <2>2, Zenon DEF CidIn
  <2>4. CidIn(l) = l
    BY <2>2, <2>3, CborAssumption
  <2>. QED  BY <2>4 DEF l, c
<1>11. << 0 >> \o Tail(raw) = raw
  <2>1. raw # << >> /\ raw[1] = 0
    BY <1>9
  <2>. QED  BY <1>7, <2>1
<1>12. EncodeItem(Link(c), depth, write)
         = Joined(<< Written(EncodeHead(6, CidTag)), EncodeString(2, << 0 >> \o c) >>)
  BY EncodedByKind, Zenon
<1>13. EncodeItem(Link(c), depth, write)
         = Joined(<< Written(Part(s, p, at)), Written(Part(s, at, t.pos)) >>)
  BY <1>1, <1>2, <1>7, <1>10, <1>11, <1>12
<1>14. Joined(<< Written(Part(s, p, at)), Written(Part(s, at, t.pos)) >>) = Written(Part(s, p, t.pos))
  BY <1>1, <1>7, JoinedTwo
<1>15. Spans(s, p, t.pos)
  BY <1>1, <1>7, PartsJoin
<1>. QED  BY <1>9, <1>13, <1>14, <1>15

\* An item that is read is written as it was read, when what is nested in it is.
LEMMA ItemForm ==
  ASSUME NEW s \in Seq(Byte), NEW p \in 0 .. Len(s), NEW depth \in Nat,
         NEW item, Onward(s, item), NEW D, NEW write, Faithful(s, item, D, write),
         NEW r, r = ItemFrom(s, p, depth, item), IsOk(r)
  PROVE  AsRead(s, p, depth, D, write, r)
<1>. DEFINE h == HeadAt(s, p)  at == h.pos  arg == h.value.arg  m == h.value.major
<1>1. p \in Nat /\ Len(s) \in Nat
  BY BytesType
<1>2. depth <= MaxDepth /\ p < Len(s)
  <2>1. depth > MaxDepth \/ p >= Len(s) => r = Fail("NestingTooDeep") \/ r = Fail("UnexpectedEnd")
    BY DEF ItemFrom
  <2>. QED  BY <1>1, <2>1, Results, BaseType
<1>3. CASE Major(s, p) = 7
  <2>1. r = SimpleAt(s, p + 1, Info(s, p))
    BY <1>1, <1>2, <1>3, BaseType DEF ItemFrom
  <2>2. Spans(s, p, r.pos) /\ EncodeItem(r.value, depth, write) = Written(Part(s, p, r.pos))
    BY <1>1, <1>2, <1>3, <2>1, SimpleForm
  <2>. QED  BY <2>2 DEF AsRead
<1>4. CASE Major(s, p) # 7
  <2>1. r = Then(h, LAMBDA head, at1 :
         CASE head.major = 0 -> Read(Integer(head.arg), at1)
           [] head.major = 1 -> Read(Integer(-1 - head.arg), at1)
           [] head.major = 2 -> As(Take(s, at1, head.arg), Bytes)
           [] head.major = 3 -> As(Utf8(Take(s, at1, head.arg)), Text)
           [] head.major = 4 -> As(Items(s, at1, head.arg, item), List)
           [] head.major = 5 -> As(Entries(s, at1, head.arg, item), Map)
           [] head.major = 6 -> LinkAt(s, at1, head.arg))
    <3>1. ~(depth > MaxDepth) /\ ~(p >= Len(s))
      BY <1>1, <1>2, BaseType
    <3>. QED  BY <1>4, <3>1, Zenon DEF ItemFrom
  <2>2. IsOk(h)
    <3>. HIDE DEF h
    <3>. QED  BY <2>1 DEF Then
  <2>3. IsHead(s, p, h)
    BY <2>2, HeadOk
  <2>. HIDE DEF h
  <2>4. /\ m \in 0 .. 6 /\ arg \in Nat /\ arg <= MaxArg
        /\ Spans(s, p, at) /\ EncodeHead(m, arg) = Part(s, p, at)
    BY <2>3 DEF IsHead
  <2>5. at \in 0 .. Len(s)
    BY <2>4, SpansType
  <2>. DEFINE t == Take(s, at, arg)  l == Items(s, at, arg, item)  e == Entries(s, at, arg, item)
  <2>6. r = CASE m = 0 -> Read(Integer(arg), at)
              [] m = 1 -> Read(Integer(-1 - arg), at)
              [] m = 2 -> As(t, Bytes)
              [] m = 3 -> As(Utf8(t), Text)
              [] m = 4 -> As(l, List)
              [] m = 5 -> As(e, Map)
              [] m = 6 -> LinkAt(s, at, arg)
    BY <2>1, <2>2 DEF Then
  <2>. HIDE DEF at, arg, m
  <2>7. CASE m \in {0, 1}
    <3>. DEFINE n == IF m = 0 THEN arg ELSE -1 - arg
    <3>1. r = Read(Integer(n), at)
      BY <2>6, <2>7
    <3>2. EncodeItem(Integer(n), depth, write) = EncodeInteger(m, arg)
      <4>1. EncodeItem(Integer(n), depth, write) = IF n >= 0 THEN EncodeInteger(0, n) ELSE EncodeInteger(1, -1 - n)
        BY <1>2, EncodedByKind, Zenon
      <4>2. CASE m = 0
        <5>1. n = arg /\ n >= 0
          BY <2>4, <4>2
        <5>. QED  BY <4>1, <4>2, <5>1
      <4>3. CASE m = 1
        <5>1. ~(n >= 0) /\ -1 - n = arg
          BY <2>4, <4>3
        <5>. QED  BY <4>1, <4>3, <5>1
      <4>. QED  BY <2>7, <4>2, <4>3
    <3>3. EncodeInteger(m, arg) = Written(Part(s, p, at))
      <4>1. ~(arg > MaxArg)
        BY <2>4, LargestType, BaseType
      <4>. QED  BY <2>4, <4>1 DEF EncodeInteger
    <3>. HIDE DEF n
    <3>4. r.value = Integer(n) /\ r.pos = at
      BY <3>1, Results
    <3>. QED  BY <2>4, <3>2, <3>3, <3>4 DEF AsRead
  <2>8. CASE m \in {2, 3}
    <3>. DEFINE u == IF m = 2 THEN t ELSE Utf8(t)
    <3>1. IsOk(u)
      <4>1. m = 2 => IsOk(t)
        <5>. HIDE DEF t
        <5>. QED  BY <2>6 DEF As, Then
      <4>2. m = 3 => IsOk(Utf8(t))
        <5>1. m = 3 => r = As(Utf8(t), Text)
          BY <2>6
        <5>. DEFINE x == Utf8(t)
        <5>. HIDE DEF x
        <5>2. m = 3 => r = Then(x, LAMBDA value, at1 : Read(Text(value), at1))
          BY <5>1 DEF As, x
        <5>3. m = 3 => IsOk(x)
          BY <5>2 DEF Then
        <5>. QED  BY <5>3 DEF x
      <4>. QED  BY <2>8, <4>1, <4>2
    <3>. HIDE DEF t
    <3>2. IsOk(t) /\ u = t
      BY <2>8, <3>1, Unchecked
    <3>3. r = IF m = 2 THEN Read(Bytes(t.value), t.pos) ELSE Read(Text(t.value), t.pos)
      <4>1. CASE m = 2
        <5>1. r = As(t, Bytes)
          BY <2>6, <4>1
        <5>. QED  BY <3>2, <4>1, <5>1 DEF As, Then
      <4>2. CASE m = 3
        <5>1. r = As(t, Text)
          BY <2>6, <3>2, <4>2
        <5>. QED  BY <3>2, <4>2, <5>1 DEF As, Then
      <4>. QED  BY <2>8, <4>1, <4>2
    <3>4. IsString(s, p, m, t)
      BY <2>3, <3>2, StringForm DEF t, m, arg, at
    <3>5. Spans(s, p, t.pos) /\ EncodeString(m, t.value) = Written(Part(s, p, t.pos))
      BY <3>4 DEF IsString
    <3>6. r.pos = t.pos /\ r.value = IF m = 2 THEN Bytes(t.value) ELSE Text(t.value)
      BY <3>3, Results
    <3>7. EncodeItem(r.value, depth, write) = EncodeString(m, t.value)
      <4>1. \A b : EncodeItem(Bytes(b), depth, write) = EncodeString(2, b)
        BY <1>2, EncodedByKind, Zenon
      <4>2. \A b : EncodeItem(Text(b), depth, write) = EncodeString(3, b)
        BY <1>2, EncodedByKind, Zenon
      <4>. QED  BY <2>8, <3>6, <4>1, <4>2
    <3>. QED  BY <3>5, <3>6, <3>7 DEF AsRead
  <2>9. CASE m = 4
    <3>1. r = As(l, List)
      BY <2>6, <2>9
    <3>. HIDE DEF l
    <3>2. IsOk(l)
      BY <3>1 DEF As, Then
    <3>3. r = Read(List(l.value), l.pos)
      BY <3>1, <3>2 DEF As, Then
    <3>4. r.value = List(l.value) /\ r.pos = l.pos
      BY <3>3, Results
    <3>5. Spans(s, p, l.pos)
      <4>1. Spans(s, at, l.pos)
        BY <2>4, <2>5, <3>2, ListOnward DEF l
      <4>. QED  BY <2>4, <4>1, PartsJoin
    <3>6. ASSUME Parts(r.value) \subseteq D
          PROVE  EncodeItem(r.value, depth, write) = Written(Part(s, p, r.pos))
      <4>1. \A k \in DOMAIN l.value : l.value[k] \in D
        BY <3>4, <3>6, PartsByKind
      <4>2. EncodeHead(4, arg) = Part(s, p, at)
        BY <2>4, <2>9
      <4>3. Joined(<< Written(EncodeHead(4, Len(l.value))) >> \o EncodeItems(l.value, write))
              = Written(Part(s, p, l.pos))
        BY <2>4, <3>2, <4>1, <4>2, ListForm DEF l
      <4>4. EncodeItem(List(l.value), depth, write)
              = Joined(<< Written(EncodeHead(4, Len(l.value))) >> \o EncodeItems(l.value, write))
        BY <1>2, EncodedByKind, Zenon
      <4>. QED  BY <3>4, <4>3, <4>4
    <3>. QED  BY <3>4, <3>5, <3>6 DEF AsRead
  <2>10. CASE m = 5
    <3>1. r = As(e, Map)
      BY <2>6, <2>10
    <3>. HIDE DEF e
    <3>2. IsOk(e)
      BY <3>1 DEF As, Then
    <3>3. r = Read(Map(e.value), e.pos)
      BY <3>1, <3>2 DEF As, Then
    <3>4. r.value = Map(e.value) /\ r.pos = e.pos
      BY <3>3, Results
    <3>5. Spans(s, p, e.pos)
      <4>1. Spans(s, at, e.pos)
        BY <2>4, <2>5, <3>2, MapOnward DEF e
      <4>. QED  BY <2>4, <4>1, PartsJoin
    <3>6. ASSUME Parts(r.value) \subseteq D
          PROVE  EncodeItem(r.value, depth, write) = Written(Part(s, p, r.pos))
      <4>1. \A k \in DOMAIN e.value : e.value[k] \in D
        BY <3>4, <3>6, PartsByKind
      <4>2. EncodeHead(5, arg) = Part(s, p, at)
        BY <2>4, <2>10
      <4>3. Joined(<< Written(EncodeHead(5, Cardinality(DOMAIN e.value))) >>
                   \o EncodeEntries(KeysOf(e.value), e.value, write))
              = Written(Part(s, p, e.pos))
        BY <2>4, <3>2, <4>1, <4>2, MapForm DEF e
      <4>4. EncodeItem(Map(e.value), depth, write)
              = Joined(<< Written(EncodeHead(5, Cardinality(DOMAIN e.value))) >>
                       \o EncodeEntries(KeysOf(e.value), e.value, write))
        BY <1>2, EncodedByKind, Zenon
      <4>. QED  BY <3>4, <4>3, <4>4
    <3>. QED  BY <3>4, <3>5, <3>6 DEF AsRead
  <2>11. CASE m = 6
    <3>1. r = LinkAt(s, at, arg)
      BY <2>6, <2>11
    <3>2. Spans(s, p, r.pos) /\ EncodeItem(r.value, depth, write) = Written(Part(s, p, r.pos))
      <4>1. r = LinkAt(s, h.pos, h.value.arg) /\ h.value.major = 6
        BY <2>11, <3>1 DEF at, arg, m
      <4>. QED  BY <1>2, <2>3, <4>1, LinkForm
    <3>. QED  BY <3>2 DEF AsRead
  <2>. QED  BY <2>4, <2>7, <2>8, <2>9, <2>10, <2>11
<1>. QED  BY <1>3, <1>4

----------------------------------------------------------------------------
(* Level by level.                                                         *)

\* What is read anywhere in s at a depth, given what is read one deeper.
ReadLevel(s, deep, next) == [at \in 0 .. Len(s) |-> ItemFrom(s, at, deep, next)]

IsReading(f, s, from) == f = [deep \in from .. MaxDepth + 1 |-> ReadLevel(s, deep, f[deep + 1])]

\* Below the deepest level nothing is asked for.
LEMMA ReadDeepest ==
  ASSUME NEW s, NEW a, NEW b
  PROVE  ReadLevel(s, MaxDepth + 1, a) = ReadLevel(s, MaxDepth + 1, b)
<1>1. MaxDepth + 1 > MaxDepth
  BY BaseType
<1>2. \A p, x : ItemFrom(s, p, MaxDepth + 1, x) = Fail("NestingTooDeep")
  BY <1>1, Zenon DEF ItemFrom
<1>. QED  BY <1>2 DEF ReadLevel

LEMMA ReadingAt ==
  ASSUME NEW s, NEW from \in 0 .. MaxDepth + 1, NEW f, IsReading(f, s, from)
  PROVE  /\ DOMAIN f = from .. MaxDepth + 1
         /\ \A deep \in from .. MaxDepth + 1 : f[deep] = ReadLevel(s, deep, f[deep + 1])
<1>. DEFINE g == [deep \in from .. MaxDepth + 1 |-> ReadLevel(s, deep, f[deep + 1])]
<1>1. f = g
  BY DEF IsReading
<1>2. /\ DOMAIN g = from .. MaxDepth + 1
      /\ \A deep \in from .. MaxDepth + 1 : g[deep] = ReadLevel(s, deep, f[deep + 1])
  OBVIOUS
<1>. HIDE DEF g
<1>. QED  BY <1>1, <1>2

LEMMA ReadingExists ==
  ASSUME NEW s
  PROVE  \E f : IsReading(f, s, 0)
<1>. DEFINE N == MaxDepth + 1
            S == {j \in 0 .. N : \E f : IsReading(f, s, N - j)}
<1>1. N \in Nat
  BY BaseType
<1>2. 0 \in S
  <2>. DEFINE f == [deep \in N .. N |-> ReadLevel(s, deep, 0)]
              g == [deep \in N .. N |-> ReadLevel(s, deep, f[deep + 1])]
  <2>1. \A deep \in N .. N : deep = MaxDepth + 1
    BY <1>1
  <2>2. \A deep \in N .. N : ReadLevel(s, deep, 0) = ReadLevel(s, deep, f[deep + 1])
    BY <2>1, ReadDeepest
  <2>3. f = g
    BY <2>2
  <2>4. IsReading(f, s, N)
    BY <2>3 DEF IsReading
  <2>5. N - 0 = N
    BY <1>1
  <2>. HIDE DEF f, N
  <2>. QED  BY <1>1, <2>4, <2>5
<1>3. ASSUME NEW j \in 0 .. N - 1, j \in S PROVE j + 1 \in S
  <2>. DEFINE a == N - j  b == N - (j + 1)
  <2>1. PICK f : IsReading(f, s, a)
    BY <1>3
  <2>2. a \in 0 .. N /\ b \in 0 .. N /\ b + 1 = a /\ a \in 1 .. N
    BY <1>1
  <2>. HIDE DEF a, b
  <2>. DEFINE g == [deep \in b .. N |-> ReadLevel(s, deep, f[deep + 1])]
              h == [deep \in b .. N |-> ReadLevel(s, deep, g[deep + 1])]
  <2>3. \A deep \in a .. N : f[deep] = ReadLevel(s, deep, f[deep + 1])
    BY <2>1, <2>2, ReadingAt
  <2>4. \A deep \in b .. N : g[deep] = ReadLevel(s, deep, f[deep + 1]) /\ h[deep] = ReadLevel(s, deep, g[deep + 1])
    OBVIOUS
  <2>5. DOMAIN g = b .. N /\ DOMAIN h = b .. N /\ g = [deep \in DOMAIN g |-> g[deep]] /\ h = [deep \in DOMAIN h |-> h[deep]]
    OBVIOUS
  <2>6. IsReading(g, s, b) <=> g = h
    BY Zenon DEF IsReading
  <2>. HIDE DEF g, h
  <2>7. \A deep \in a .. N : g[deep] = f[deep]
    <3>. TAKE deep \in a .. N
    <3>1. deep \in b .. N
      BY <1>1, <2>2
    <3>. QED  BY <2>3, <2>4, <3>1
  <2>8. ASSUME NEW deep \in b .. N PROVE g[deep] = h[deep]
    <3>1. CASE deep = N
      BY <2>4, <3>1, ReadDeepest
    <3>2. CASE deep # N
      <4>1. deep + 1 \in a .. N
        BY <1>1, <2>2, <3>2
      <4>2. g[deep + 1] = f[deep + 1]
        BY <2>7, <4>1
      <4>. QED  BY <2>4, <4>2
    <3>. QED  BY <3>1, <3>2
  <2>9. g = h
    BY <2>5, <2>8
  <2>10. IsReading(g, s, b)
    BY <2>6, <2>9
  <2>11. j + 1 \in 0 .. N
    BY <1>1
  <2>. QED  BY <2>10, <2>11 DEF b
<1>. HIDE DEF S
<1>4. 0 .. N \subseteq S
  <2>. HIDE DEF N
  <2>. QED  BY <1>1, <1>2, <1>3, InductionUpTo
<1>5. N \in S /\ N - N = 0
  BY <1>1, <1>4
<1>. QED  BY <1>5 DEF S

\* What the values at a depth are written as, given those one deeper.
WriteLevel(values, depth, next) == [x \in values |-> EncodeItem(x, depth, next)]

IsWriting(f, level, from) ==
  f = [depth \in from .. MaxDepth + 1 |-> WriteLevel(level[depth], depth, f[depth + 1])]

LEMMA WriteDeepest ==
  ASSUME NEW values, NEW a, NEW b
  PROVE  WriteLevel(values, MaxDepth + 1, a) = WriteLevel(values, MaxDepth + 1, b)
<1>1. MaxDepth + 1 > MaxDepth
  BY BaseType
<1>2. \A x, next : EncodeItem(x, MaxDepth + 1, next) = Fail("NestingTooDeep")
  BY <1>1, Zenon DEF EncodeItem
<1>. QED  BY <1>2 DEF WriteLevel

LEMMA WritingAt ==
  ASSUME NEW level, NEW from \in 0 .. MaxDepth + 1, NEW f, IsWriting(f, level, from)
  PROVE  /\ DOMAIN f = from .. MaxDepth + 1
         /\ \A depth \in from .. MaxDepth + 1 : f[depth] = WriteLevel(level[depth], depth, f[depth + 1])
<1>. DEFINE g == [depth \in from .. MaxDepth + 1 |-> WriteLevel(level[depth], depth, f[depth + 1])]
<1>1. f = g
  BY DEF IsWriting
<1>2. /\ DOMAIN g = from .. MaxDepth + 1
      /\ \A depth \in from .. MaxDepth + 1 : g[depth] = WriteLevel(level[depth], depth, f[depth + 1])
  OBVIOUS
<1>. HIDE DEF g
<1>. QED  BY <1>1, <1>2

LEMMA WritingExists ==
  ASSUME NEW level
  PROVE  \E f : IsWriting(f, level, 0)
<1>. DEFINE N == MaxDepth + 1
            S == {j \in 0 .. N : \E f : IsWriting(f, level, N - j)}
<1>1. N \in Nat
  BY BaseType
<1>2. 0 \in S
  <2>. DEFINE f == [depth \in N .. N |-> WriteLevel(level[depth], depth, 0)]
              g == [depth \in N .. N |-> WriteLevel(level[depth], depth, f[depth + 1])]
  <2>1. \A depth \in N .. N : depth = MaxDepth + 1
    BY <1>1
  <2>2. \A depth \in N .. N : WriteLevel(level[depth], depth, 0) = WriteLevel(level[depth], depth, f[depth + 1])
    BY <2>1, WriteDeepest
  <2>3. f = g
    BY <2>2
  <2>4. IsWriting(f, level, N)
    BY <2>3 DEF IsWriting
  <2>5. N - 0 = N
    BY <1>1
  <2>. HIDE DEF f, N
  <2>. QED  BY <1>1, <2>4, <2>5
<1>3. ASSUME NEW j \in 0 .. N - 1, j \in S PROVE j + 1 \in S
  <2>. DEFINE a == N - j  b == N - (j + 1)
  <2>1. PICK f : IsWriting(f, level, a)
    BY <1>3
  <2>2. a \in 0 .. N /\ b \in 0 .. N /\ b + 1 = a /\ a \in 1 .. N
    BY <1>1
  <2>. HIDE DEF a, b
  <2>. DEFINE g == [depth \in b .. N |-> WriteLevel(level[depth], depth, f[depth + 1])]
              h == [depth \in b .. N |-> WriteLevel(level[depth], depth, g[depth + 1])]
  <2>3. \A depth \in a .. N : f[depth] = WriteLevel(level[depth], depth, f[depth + 1])
    BY <2>1, <2>2, WritingAt
  <2>4. \A depth \in b .. N : /\ g[depth] = WriteLevel(level[depth], depth, f[depth + 1])
                              /\ h[depth] = WriteLevel(level[depth], depth, g[depth + 1])
    OBVIOUS
  <2>5. DOMAIN g = b .. N /\ DOMAIN h = b .. N /\ g = [depth \in DOMAIN g |-> g[depth]] /\ h = [depth \in DOMAIN h |-> h[depth]]
    OBVIOUS
  <2>6. IsWriting(g, level, b) <=> g = h
    BY Zenon DEF IsWriting
  <2>. HIDE DEF g, h
  <2>7. \A depth \in a .. N : g[depth] = f[depth]
    <3>. TAKE depth \in a .. N
    <3>1. depth \in b .. N
      BY <1>1, <2>2
    <3>. QED  BY <2>3, <2>4, <3>1
  <2>8. ASSUME NEW depth \in b .. N PROVE g[depth] = h[depth]
    <3>1. CASE depth = N
      BY <2>4, <3>1, WriteDeepest
    <3>2. CASE depth # N
      <4>1. depth + 1 \in a .. N
        BY <1>1, <2>2, <3>2
      <4>2. g[depth + 1] = f[depth + 1]
        BY <2>7, <4>1
      <4>. QED  BY <2>4, <4>2
    <3>. QED  BY <3>1, <3>2
  <2>9. g = h
    BY <2>5, <2>8
  <2>10. IsWriting(g, level, b)
    BY <2>6, <2>9
  <2>11. j + 1 \in 0 .. N
    BY <1>1
  <2>. QED  BY <2>10, <2>11 DEF b
<1>. HIDE DEF S
<1>4. 0 .. N \subseteq S
  <2>. HIDE DEF N
  <2>. QED  BY <1>1, <1>2, <1>3, InductionUpTo
<1>5. N \in S /\ N - N = 0
  BY <1>1, <1>4
<1>. QED  BY <1>5 DEF S

\* What is read at one depth is written as it was read, when it is so one
\* deeper.
LEMMA LevelForm ==
  ASSUME NEW s \in Seq(Byte), NEW depth \in Nat, NEW item, Onward(s, item),
         NEW D, NEW write, Faithful(s, item, D, write),
         NEW values, \A x \in values : Parts(x) \subseteq D
  PROVE  /\ Onward(s, ReadLevel(s, depth, item))
         /\ Faithful(s, ReadLevel(s, depth, item), values, WriteLevel(values, depth, write))
<1>. DEFINE R == ReadLevel(s, depth, item)  W == WriteLevel(values, depth, write)
<1>1. \A p \in 0 .. Len(s) : R[p] = ItemFrom(s, p, depth, item)
  BY DEF ReadLevel
<1>2. \A x \in values : W[x] = EncodeItem(x, depth, write)
  BY DEF WriteLevel
<1>. HIDE DEF R, W
<1>3. ASSUME NEW p \in 0 .. Len(s), IsOk(R[p]) PROVE AsRead(s, p, depth, D, write, R[p])
  BY <1>1, <1>3, ItemForm
<1>4. Onward(s, R)
  BY <1>3 DEF Onward, AsRead
<1>5. ASSUME NEW p \in 0 .. Len(s), IsOk(R[p]), R[p].value \in values
      PROVE  W[R[p].value] = Written(Part(s, p, R[p].pos))
  <2>1. AsRead(s, p, depth, D, write, R[p]) /\ Parts(R[p].value) \subseteq D
    BY <1>3, <1>5
  <2>2. EncodeItem(R[p].value, depth, write) = Written(Part(s, p, R[p].pos))
    BY <2>1 DEF AsRead
  <2>. QED  BY <1>2, <1>5, <2>2
<1>6. Faithful(s, R, values, W)
  BY <1>5 DEF Faithful
<1>. QED  BY <1>4, <1>6 DEF R, W

LEMMA LevelsForm ==
  ASSUME NEW s \in Seq(Byte), NEW v, NEW R, IsReading(R, s, 0),
         NEW L, IsLevels(L, v, MaxDepth + 1), NEW W, IsWriting(W, L, 0)
  PROVE  \A depth \in 0 .. MaxDepth + 1 : Onward(s, R[depth]) /\ Faithful(s, R[depth], L[depth], W[depth])
<1>. DEFINE N == MaxDepth + 1
            S == {j \in 0 .. N : Onward(s, R[N - j]) /\ Faithful(s, R[N - j], L[N - j], W[N - j])}
<1>1. N \in Nat /\ 0 \in 0 .. N
  BY BaseType
<1>2. \A depth \in 0 .. N : R[depth] = ReadLevel(s, depth, R[depth + 1])
  BY <1>1, ReadingAt
<1>3. \A depth \in 0 .. N : W[depth] = WriteLevel(L[depth], depth, W[depth + 1])
  BY <1>1, WritingAt
<1>4. \A depth \in 1 .. N : L[depth] = UNION {Parts(x) : x \in L[depth - 1]}
  BY <1>1, LevelsAt
<1>5. 0 \in S
  <2>1. \A p \in 0 .. Len(s) : ~IsOk(R[N][p])
    <3>1. N > MaxDepth /\ N \in 0 .. N
      BY <1>1, BaseType
    <3>2. \A p, x : ItemFrom(s, p, N, x) = Fail("NestingTooDeep")
      BY <3>1, Zenon DEF ItemFrom
    <3>3. R[N] = ReadLevel(s, N, R[N + 1])
      BY <1>2, <3>1
    <3>. QED  BY <3>2, <3>3, Results DEF ReadLevel
  <2>2. Onward(s, R[N]) /\ Faithful(s, R[N], L[N], W[N])
    BY <2>1 DEF Onward, Faithful
  <2>3. N - 0 = N
    BY <1>1
  <2>. HIDE DEF N
  <2>. QED  BY <1>1, <2>2, <2>3
<1>6. ASSUME NEW j \in 0 .. N - 1, j \in S PROVE j + 1 \in S
  <2>. DEFINE a == N - j  b == N - (j + 1)
  <2>1. a \in 1 .. N /\ b \in 0 .. N /\ b + 1 = a /\ a - 1 = b /\ b \in Nat
    BY <1>1
  <2>2. Onward(s, R[a]) /\ Faithful(s, R[a], L[a], W[a])
    BY <1>6
  <2>. HIDE DEF a, b, N
  <2>3. \A x \in L[b] : Parts(x) \subseteq L[a]
    BY <1>4, <2>1
  <2>4. R[b] = ReadLevel(s, b, R[a]) /\ W[b] = WriteLevel(L[b], b, W[a])
    BY <1>2, <1>3, <2>1
  <2>5. Onward(s, R[b]) /\ Faithful(s, R[b], L[b], W[b])
    BY <2>1, <2>2, <2>3, <2>4, LevelForm
  <2>6. j + 1 \in 0 .. N
    BY <1>1
  <2>. QED  BY <2>5, <2>6 DEF b
<1>7. 0 .. N \subseteq S
  <2>. HIDE DEF N, S
  <2>. QED  BY <1>1, <1>5, <1>6, InductionUpTo
<1>8. ASSUME NEW depth \in 0 .. N PROVE Onward(s, R[depth]) /\ Faithful(s, R[depth], L[depth], W[depth])
  <2>. DEFINE j == N - depth
  <2>1. j \in 0 .. N /\ N - j = depth
    BY <1>1
  <2>. HIDE DEF j, N
  <2>2. j \in S
    BY <1>7, <2>1
  <2>. QED  BY <2>1, <2>2
<1>. QED  BY <1>8

LEMMA DecodedIsWritten ==
  ASSUME NEW s \in Seq(Byte), IsOk(Decode(s))
  PROVE  Encode(Decode(s).value) = Written(s)
<1>. DEFINE v == Decode(s).value
            R == CHOOSE f : IsReading(f, s, 0)
            L == CHOOSE f : IsLevels(f, v, MaxDepth + 1)
            W == CHOOSE f : IsWriting(f, L, 0)
            r == R[0][0]
<1>1. Item(s, 0, 0) = r
  BY Zenon DEF Item, IsReading, ReadLevel
<1>2. Encode(v) = W[0][v]
  BY Zenon DEF Encode, LevelsOf, IsLevels, IsWriting, WriteLevel
<1>3. MaxDepth + 1 \in Nat /\ 0 \in 0 .. MaxDepth + 1
  BY BaseType
<1>4. IsReading(R, s, 0)
  BY ReadingExists
<1>5. IsLevels(L, v, MaxDepth + 1)
  <2>. HIDE DEF v
  <2>. QED  BY <1>3, LevelsExist
<1>. HIDE DEF L
<1>6. IsWriting(W, L, 0)
  BY WritingExists
<1>. HIDE DEF R, W
<1>7. Decode(s) = Then(r, LAMBDA value, at : IF at = Len(s) THEN Read(value, at) ELSE Fail("TrailingBytes"))
  BY <1>1 DEF Decode
<1>. HIDE DEF r
<1>8. IsOk(r)
  BY <1>7 DEF Then
<1>9. Decode(s) = IF r.pos = Len(s) THEN Read(r.value, r.pos) ELSE Fail("TrailingBytes")
  BY <1>7, <1>8 DEF Then
<1>10. r.pos = Len(s) /\ v = r.value
  BY <1>9, Results
<1>. HIDE DEF v
<1>11. Faithful(s, R[0], L[0], W[0])
  BY <1>3, <1>4, <1>5, <1>6, LevelsForm
<1>12. v \in L[0]
  BY <1>3, <1>5, LevelsAt
<1>13. 0 \in 0 .. Len(s)
  BY BytesType
<1>14. W[0][v] = Written(Part(s, 0, Len(s)))
  BY <1>8, <1>10, <1>11, <1>12, <1>13 DEF Faithful, r
<1>15. Part(s, 0, Len(s)) = s
  BY PartWhole
<1>. QED  BY <1>2, <1>14, <1>15 DEF v

\* Bytes that are accepted are the one form of their value.
LEMMA HasOneForm ==
  ASSUME form = "cbor" => bytes \in Seq(Byte)
  PROVE  OneFormPerValue
<1>1. ASSUME form = "cbor", IsOk(Decode(bytes)) PROVE Encode(Decode(bytes).value) = Written(bytes)
  BY <1>1, DecodedIsWritten
<1>. QED  BY <1>1 DEF OneFormPerValue

----------------------------------------------------------------------------
(* Reading back what is written: bytes that are held in s.                 *)

\* b stands in s from p.
Holds(s, p, b) == Spans(s, p, p + Len(b)) /\ Part(s, p, p + Len(b)) = b

LEMMA HoldsShows ==
  ASSUME NEW s \in Seq(Byte), NEW p, NEW b \in Seq(Byte), Holds(s, p, b)
  PROVE  /\ p \in Nat /\ p \in 0 .. Len(s) /\ Len(b) \in Nat /\ Len(s) \in Nat
         /\ p + Len(b) <= Len(s) /\ p + Len(b) \in 0 .. Len(s)
         /\ \A k \in 1 .. Len(b) : s[p + k] = b[k]
<1>. DEFINE l == Len(b)  q == p + l
<1>1. Spans(s, p, q) /\ Part(s, p, q) = b
  BY DEF Holds
<1>2. l \in Nat
  BY BytesType
<1>. HIDE DEF q, l
<1>3. p \in Nat /\ q \in Nat /\ p <= q /\ q <= Len(s) /\ Len(s) \in Nat /\ p \in 0 .. Len(s) /\ q \in 0 .. Len(s)
  BY <1>1, SpansType
<1>4. \A k \in 1 .. q - p : b[k] = s[p + k]
  BY <1>1, PartType
<1>5. q - p = l
  BY <1>2, <1>3 DEF q
<1>. QED  BY <1>2, <1>3, <1>4, <1>5 DEF q, l

LEMMA HoldsWhen ==
  ASSUME NEW s \in Seq(Byte), NEW p \in Nat, NEW b \in Seq(Byte), p + Len(b) <= Len(s),
         \A k \in 1 .. Len(b) : s[p + k] = b[k]
  PROVE  Holds(s, p, b)
<1>. DEFINE l == Len(b)  q == p + l
<1>1. l \in Nat /\ Len(s) \in Nat
  BY BytesType
<1>. HIDE DEF l
<1>2. Spans(s, p, q) /\ q - p = l
  BY <1>1 DEF Spans, l
<1>. HIDE DEF q
<1>. DEFINE a == Part(s, p, q)
<1>3. a \in Seq(Byte) /\ Len(a) = q - p /\ \A k \in 1 .. q - p : a[k] = s[p + k]
  BY <1>2, PartType
<1>. HIDE DEF a
<1>4. Len(a) = Len(b) /\ \A k \in 1 .. Len(a) : a[k] = b[k]
  BY <1>2, <1>3 DEF l
<1>5. a = b
  BY <1>3, <1>4, SameSequence
<1>. QED  BY <1>2, <1>5 DEF Holds, a, q, l

\* c, which is a and then b, stands in s from p.
HoldsInTurn(s, p, c, a, b) ==
  /\ Holds(s, p, a) /\ Holds(s, p + Len(a), b)
  /\ Len(c) = Len(a) + Len(b) /\ c \in Seq(Byte)

LEMMA HoldsBoth ==
  ASSUME NEW s \in Seq(Byte), NEW p, NEW a \in Seq(Byte), NEW b \in Seq(Byte),
         NEW c \in Seq(Byte), IsConcat(c, a, b), Holds(s, p, c)
  PROVE  HoldsInTurn(s, p, c, a, b)
<1>. DEFINE i == Len(a)  j == Len(b)
<1>2. /\ Len(c) = i + j /\ i \in Nat /\ j \in Nat
      /\ \A k \in 1 .. i : c[k] = a[k]
      /\ \A k \in 1 .. j : c[i + k] = b[k]
  BY DEF IsConcat
<1>4. /\ p \in Nat /\ Len(s) \in Nat /\ p + Len(c) <= Len(s)
      /\ \A k \in 1 .. Len(c) : s[p + k] = c[k]
  BY HoldsShows
<1>. HIDE DEF i, j
<1>5. Holds(s, p, a)
  <2>1. p + i <= Len(s)
    BY <1>2, <1>4
  <2>2. ASSUME NEW k \in 1 .. i PROVE s[p + k] = a[k]
    <3>1. k \in 1 .. Len(c)
      BY <1>2
    <3>. QED  BY <1>2, <1>4, <3>1
  <2>. QED  BY <1>4, <2>1, <2>2, HoldsWhen DEF i
<1>6. Holds(s, p + i, b)
  <2>. DEFINE q == p + i
  <2>1. q \in Nat /\ q + j <= Len(s)
    BY <1>2, <1>4
  <2>2. ASSUME NEW k \in 1 .. j PROVE s[q + k] = b[k]
    <3>. DEFINE n == i + k
    <3>1. n \in 1 .. Len(c) /\ q + k = p + n
      BY <1>2, <1>4
    <3>2. c[n] = b[k]
      BY <1>2
    <3>. HIDE DEF n, q
    <3>. QED  BY <1>4, <3>1, <3>2
  <2>. HIDE DEF q
  <2>3. Holds(s, q, b)
    BY <2>1, <2>2, HoldsWhen DEF j
  <2>. QED  BY <2>3 DEF q
<1>. QED  BY <1>2, <1>5, <1>6 DEF HoldsInTurn, i, j

LEMMA TakeBack ==
  ASSUME NEW s \in Seq(Byte), Len(s) <= MaxArg, NEW p, NEW b \in Seq(Byte), Holds(s, p, b)
  PROVE  Take(s, p, Len(b)) = Read(b, p + Len(b))
<1>1. p \in Nat /\ Len(b) \in Nat /\ Len(s) \in Nat /\ p + Len(b) <= Len(s)
  BY HoldsShows
<1>2. MaxArg \in Nat
  BY LargestType, BaseType
<1>3. ~(p + Len(b) > MaxArg) /\ ~(p + Len(b) > Len(s))
  BY <1>1, <1>2
<1>4. SubSeq(s, p + 1, p + Len(b)) = b
  BY DEF Holds, Part
<1>. QED  BY <1>3, <1>4 DEF Take

\* A first byte of m and i, then b.
LEMMA FirstByte ==
  ASSUME NEW m \in 0 .. 7, NEW i \in 0 .. Infos - 1
  PROVE  /\ m * Infos + i \in Byte
         /\ (m * Infos + i) \div Infos = m /\ (m * Infos + i) % Infos = i
<1>1. Infos \in Nat /\ Infos > 0 /\ m \in Nat /\ i \in Nat /\ Base = 8 * Infos
  BY BaseType
<1>2. (Infos * m + i) \div Infos = m /\ (Infos * m + i) % Infos = i
  BY <1>1, DivideUnique
<1>3. Infos * m = m * Infos
  BY <1>1
<1>4. m * Infos \in Nat /\ m * Infos <= 7 * Infos
  <2>1. m \in {0, 1, 2, 3, 4, 5, 6, 7}
    OBVIOUS
  <2>. QED  BY <1>1, <2>1
<1>5. m * Infos + i \in 0 .. Base - 1
  BY <1>1, <1>4
<1>. QED  BY <1>2, <1>3, <1>5 DEF Byte

\* a is the one byte of m and i.
IsFirst(a, m, i) == a \in Seq(Byte) /\ Len(a) = 1 /\ a[1] = m * Infos + i

\* ... which is at p of s, and b after it.
FirstRead(s, p, c, m, i, b) ==
  /\ p \in Nat /\ p < Len(s) /\ Major(s, p) = m /\ Info(s, p) = i /\ Holds(s, p + 1, b)
  /\ Len(c) = Len(b) + 1

LEMMA FirstBack ==
  ASSUME NEW s \in Seq(Byte), NEW p, NEW m \in 0 .. 7, NEW i \in 0 .. Infos - 1,
         NEW a, IsFirst(a, m, i),
         NEW b \in Seq(Byte), NEW c \in Seq(Byte), IsConcat(c, a, b), Holds(s, p, c)
  PROVE  FirstRead(s, p, c, m, i, b)
<1>. DEFINE x == m * Infos + i
<1>1. x \in Byte /\ x \div Infos = m /\ x % Infos = i
  BY FirstByte
<1>2. a \in Seq(Byte) /\ Len(a) = 1 /\ a[1] = x
  BY DEF IsFirst
<1>. HIDE DEF x
<1>3. Holds(s, p, a) /\ Holds(s, p + Len(a), b) /\ Len(c) = Len(a) + Len(b)
  <2>1. HoldsInTurn(s, p, c, a, b)
    BY <1>2, HoldsBoth
  <2>. QED  BY <2>1 DEF HoldsInTurn
<1>4. p \in Nat /\ p + Len(a) <= Len(s) /\ Len(s) \in Nat /\ \A k \in 1 .. Len(a) : s[p + k] = a[k]
  <2>1. a \in Seq(Byte) /\ Holds(s, p, a)
    BY <1>2, <1>3
  <2>. QED  BY <2>1, HoldsShows
<1>5. p < Len(s) /\ s[p + 1] = x
  BY <1>2, <1>4
<1>6. Len(b) \in Nat
  BY BytesType
<1>7. Len(c) = Len(b) + 1
  BY <1>2, <1>3, <1>6
<1>8. Holds(s, p + 1, b)
  BY <1>2, <1>3
<1>. QED  BY <1>1, <1>4, <1>5, <1>7, <1>8 DEF FirstRead, Major, Info, x

----------------------------------------------------------------------------
(* Numbers and heads.                                                      *)

LEMMA BigEndianBack ==
  ASSUME NEW w \in 0 .. Widths, NEW n \in Nat, n < Power[w]
  PROVE  /\ BigEndian(n, w) \in Seq(Byte) /\ Len(BigEndian(n, w)) = w
         /\ BigEndianValue(BigEndian(n, w)) = n
<1>. DEFINE b == BigEndian(n, w)  F == CHOOSE f : IsNumber(f, b)
<1>1. w \in Nat /\ Widths \in Nat /\ \A k \in 1 .. w : w - k \in 0 .. Widths
  BY BaseType
<1>2. \A k \in 0 .. Widths : Power[k] \in Nat /\ Power[k] > 0
  BY PowerRule
<1>3. ASSUME NEW k \in 1 .. w PROVE (n \div Power[w - k]) % Base \in Byte
  <2>. DEFINE c == Power[w - k]
  <2>1. c \in Nat /\ c > 0 /\ Base \in Nat /\ Base > 0
    BY <1>1, <1>2, BaseType
  <2>. HIDE DEF c
  <2>. DEFINE x == n \div c
  <2>2. x \in Nat
    BY <2>1
  <2>. HIDE DEF x
  <2>3. x % Base \in 0 .. Base - 1
    BY <2>1, <2>2
  <2>. QED  BY <2>3 DEF Byte, x, c
<1>4. b \in Seq(Byte) /\ Len(b) = w /\ \A k \in 1 .. w : b[k] = (n \div Power[w - k]) % Base
  <2>. DEFINE g == [k \in 1 .. w |-> (n \div Power[w - k]) % Base]
  <2>1. b = g
    BY DEF BigEndian
  <2>2. g \in [1 .. w -> Byte]
    BY <1>3
  <2>3. \A k \in 1 .. w : g[k] = (n \div Power[w - k]) % Base
    OBVIOUS
  <2>. HIDE DEF g
  <2>4. g \in Seq(Byte) /\ Len(g) = w
    BY <1>1, <2>2
  <2>. QED  BY <2>1, <2>3, <2>4
<1>5. BigEndianValue(b) = F[w]
  <2>1. BigEndianValue(b) = F[Len(b)]
    BY Zenon DEF BigEndianValue, IsNumber
  <2>. QED  BY <1>4, <2>1
<1>. HIDE DEF b
<1>6. IsNumber(F, b)
  BY <1>4, NumberExists
<1>. HIDE DEF F
<1>7. F[0] = 0 /\ \A k \in 1 .. w : F[k] = F[k - 1] * Base + b[k]
  <2>. DEFINE g == [k \in 0 .. w |-> IF k = 0 THEN 0 ELSE F[k - 1] * Base + b[k]]
  <2>1. F = g
    BY <1>4, <1>6 DEF IsNumber
  <2>2. g[0] = 0 /\ \A k \in 1 .. w : g[k] = F[k - 1] * Base + b[k]
    BY <1>1
  <2>. HIDE DEF g
  <2>. QED  BY <2>1, <2>2
<1>. DEFINE S == {k \in 0 .. w : F[k] = n \div Power[w - k]}
<1>8. 0 \in S
  <2>1. Power[w] \in Nat /\ Power[w] > 0 /\ w - 0 = w
    BY <1>1, <1>2
  <2>2. n \div Power[w] = 0
    <3>. DEFINE c == Power[w]
    <3>1. c \in Nat /\ c > 0 /\ n \in 0 .. c - 1
      BY <2>1
    <3>. HIDE DEF c
    <3>2. (c * 0 + n) \div c = 0
      BY <3>1, DivideUnique, 0 \in Nat
    <3>3. c * 0 + n = n
      BY <3>1
    <3>. QED  BY <3>2, <3>3 DEF c
  <2>. QED  BY <1>1, <1>7, <2>1, <2>2
<1>9. ASSUME NEW k \in 0 .. w - 1, k \in S PROVE k + 1 \in S
  <2>. DEFINE i == k + 1  c == w - i  p == Power[c]  x == n \div p
  <2>1. i \in 1 .. w /\ i \in 0 .. w /\ i - 1 = k /\ c \in 0 .. Widths /\ c + 1 \in 1 .. Widths /\ c + 1 = w - k
        /\ c + 1 - 1 = c
    BY <1>1
  <2>. HIDE DEF i, c
  <2>2. Power[c + 1] = Base * p /\ p \in Nat /\ p > 0
    BY <2>1, PowerRule
  <2>3. F[k] = n \div (Base * p) /\ F[i] = F[k] * Base + b[i] /\ b[i] = x % Base
    <3>1. F[k] = n \div Power[w - k]
      BY <1>9
    <3>2. F[i] = F[i - 1] * Base + b[i] /\ b[i] = (n \div Power[w - i]) % Base
      BY <1>4, <1>7, <2>1
    <3>. QED  BY <2>1, <2>2, <3>1, <3>2 DEF c
  <2>. HIDE DEF p
  <2>4. x \in Nat /\ n = p * x + (n % p) /\ n % p \in 0 .. p - 1
    BY <2>2
  <2>. DEFINE t == n % p
  <2>. HIDE DEF x, t
  <2>5. Base \in Nat /\ Base > 0
    BY BaseType
  <2>6. (x * p + t) \div (p * Base) = x \div Base
    BY <2>2, <2>4, <2>5, DivideTwice DEF t
  <2>7. x * p + t = n /\ p * Base = Base * p
    BY <2>2, <2>4, <2>5 DEF t
  <2>8. x = Base * (x \div Base) + (x % Base) /\ x \div Base \in Nat /\ x % Base \in Nat
    BY <2>4, <2>5
  <2>. DEFINE y == x \div Base  z == x % Base
  <2>9. F[k] = y /\ F[i] = F[k] * Base + z
    BY <2>3, <2>6, <2>7
  <2>. HIDE DEF y, z
  <2>10. x = Base * y + z /\ y \in Nat /\ z \in Nat
    BY <2>8 DEF y, z
  <2>11. F[i] = x
    BY <2>5, <2>9, <2>10
  <2>. QED  BY <2>1, <2>11 DEF i, c, p, x
<1>. HIDE DEF S
<1>10. w \in S
  <2>1. 0 .. w \subseteq S
    BY <1>1, <1>8, <1>9, InductionUpTo
  <2>. QED  BY <1>1, <2>1
<1>11. F[w] = n
  <2>1. F[w] = n \div Power[w - w] /\ w - w = 0
    BY <1>1, <1>10 DEF S
  <2>2. n \div 1 = n
    OBVIOUS
  <2>. QED  BY <2>1, <2>2, PowerRule
<1>. QED  BY <1>4, <1>5, <1>11 DEF b

LEMMA WidthExists ==
  ASSUME NEW arg \in Nat, arg <= MaxArg
  PROVE  \E w : IsWidth(w, arg)
<1>. DEFINE T == {w \in 0 .. Widths : arg <= Largest(w)}
<1>1. Widths \in T
  BY LargestType, BaseType
<1>2. T \subseteq Nat /\ T # {}
  BY <1>1
<1>3. PICK w \in T : \A v \in T : w <= v
  <2>. HIDE DEF T
  <2>. QED  BY <1>2, Least
<1>4. ASSUME w > 0 PROVE arg > Largest(w - 1)
  <2>1. w - 1 \in 0 .. Widths /\ ~(w <= w - 1)
    BY <1>4, BaseType
  <2>2. ~(arg <= Largest(w - 1))
    BY <1>3, <2>1
  <2>3. Largest(w - 1) \in Nat
    BY <2>1, LargestType
  <2>. QED  BY <2>2, <2>3
<1>. QED  BY <1>3, <1>4 DEF IsWidth

\* How an argument is announced in w bytes.
InfoOf(w, arg) == IF w = 0 THEN arg ELSE Direct + w - 1

LEMMA HeadShape ==
  ASSUME NEW arg \in Nat, arg <= MaxArg
  PROVE  \E w : /\ IsWidth(w, arg) /\ InfoOf(w, arg) \in 0 .. Infos - 1
                /\ BigEndian(arg, w) \in Seq(Byte) /\ Len(BigEndian(arg, w)) = w
                /\ w > 0 => BigEndianValue(BigEndian(arg, w)) = arg
                /\ \A major : EncodeHead(major, arg)
                                = << major * Infos + InfoOf(w, arg) >> \o BigEndian(arg, w)
<1>1. PICK w : IsWidth(w, arg)
  BY WidthExists
<1>2. w \in 0 .. Widths /\ arg <= Largest(w) /\ Widths \in Nat
  BY <1>1, BaseType DEF IsWidth
<1>3. InfoOf(w, arg) \in 0 .. Infos - 1
  <2>1. CASE w = 0
    BY <1>2, <2>1, LargestType, BaseType DEF InfoOf
  <2>2. CASE w # 0
    BY <1>2, <2>2, BaseType DEF InfoOf
  <2>. QED  BY <2>1, <2>2
<1>4. /\ BigEndian(arg, w) \in Seq(Byte) /\ Len(BigEndian(arg, w)) = w
      /\ w > 0 => BigEndianValue(BigEndian(arg, w)) = arg
  <2>1. CASE w = 0
    <3>1. BigEndian(arg, 0) = << >>
      BY DEF BigEndian
    <3>2. BigEndian(arg, w) = << >> /\ w = 0
      BY <2>1, <3>1
    <3>. QED  BY <3>2
  <2>2. CASE w # 0
    <3>1. w \in 1 .. Widths
      BY <1>2, <2>2
    <3>2. arg < Power[w]
      BY <1>2, <3>1, LargestType, PowerRule
    <3>. QED  BY <1>2, <3>2, BigEndianBack
  <2>. QED  BY <2>1, <2>2
<1>5. ASSUME NEW major
      PROVE  EncodeHead(major, arg) = << major * Infos + InfoOf(w, arg) >> \o BigEndian(arg, w)
  <2>1. EncodeHead(major, arg) = HeadIn(w, major, arg)
    BY <1>1, HeadForm
  <2>. QED  BY <2>1 DEF HeadIn, InfoOf
<1>. QED  BY <1>1, <1>3, <1>4, <1>5

LEMMA HeadType ==
  ASSUME NEW major \in 0 .. 7, NEW arg \in Nat, arg <= MaxArg
  PROVE  EncodeHead(major, arg) \in Seq(Byte)
<1>1. PICK w : /\ InfoOf(w, arg) \in 0 .. Infos - 1 /\ BigEndian(arg, w) \in Seq(Byte)
               /\ \A m : EncodeHead(m, arg) = << m * Infos + InfoOf(w, arg) >> \o BigEndian(arg, w)
  BY HeadShape
<1>. DEFINE x == major * Infos + InfoOf(w, arg)  b == BigEndian(arg, w)
<1>2. x \in Byte
  BY <1>1, FirstByte
<1>3. EncodeHead(major, arg) = << x >> \o b /\ b \in Seq(Byte)
  BY <1>1
<1>. HIDE DEF x, b
<1>. QED  BY <1>2, <1>3

\* A head is read to its end.
HeadRead(s, p, major, arg) ==
  /\ p \in Nat /\ p < Len(s) /\ Major(s, p) = major
  /\ HeadAt(s, p) = Read([major |-> major, arg |-> arg], p + Len(EncodeHead(major, arg)))

LEMMA ArgumentBack ==
  ASSUME NEW s \in Seq(Byte), Len(s) <= MaxArg, NEW p, NEW arg \in Nat, NEW w, IsWidth(w, arg),
         NEW b \in Seq(Byte), Len(b) = w, w > 0 => BigEndianValue(b) = arg, Holds(s, p, b)
  PROVE  Argument(s, p, InfoOf(w, arg)) = Read(arg, p + w)
<1>1. w \in 0 .. Widths /\ w \in Nat /\ arg <= Largest(w) /\ (w > 0 => arg > Largest(w - 1))
  BY BaseType DEF IsWidth
<1>2. p \in Nat
  BY HoldsShows
<1>3. CASE w = 0
  <2>1. arg < Direct
    BY <1>1, <1>3, LargestType, BaseType
  <2>2. InfoOf(w, arg) = arg /\ p + w = p
    BY <1>2, <1>3 DEF InfoOf
  <2>. QED  BY <2>1, <2>2 DEF Argument
<1>4. CASE w # 0
  <2>. DEFINE info == InfoOf(w, arg)  t == Take(s, p, info - Direct + 1)
  <2>1. info = Direct + w - 1 /\ info - Direct + 1 = w /\ ~(info < Direct) /\ info < Direct + Widths
    BY <1>1, <1>4, BaseType DEF InfoOf
  <2>. HIDE DEF info
  <2>2. Argument(s, p, info) = Then(t, LAMBDA field, at : Minimal(BigEndianValue(field), Len(field), at))
    BY <2>1 DEF Argument
  <2>3. t = Read(b, p + w)
    <3>1. Take(s, p, Len(b)) = Read(b, p + Len(b))
      BY TakeBack
    <3>. QED  BY <2>1, <3>1
  <2>. HIDE DEF t
  <2>4. Argument(s, p, info) = Minimal(BigEndianValue(b), Len(b), p + w)
    BY <2>2, <2>3, Results DEF Then
  <2>5. ~(arg <= Largest(w - 1))
    <3>1. w - 1 \in 0 .. Widths
      BY <1>1, <1>4, BaseType
    <3>2. Largest(w - 1) \in Nat /\ arg > Largest(w - 1)
      BY <1>1, <1>4, <3>1, LargestType
    <3>. QED  BY <3>2
  <2>6. Minimal(arg, w, p + w) = Read(arg, p + w)
    BY <2>5 DEF Minimal, Narrower
  <2>. QED  BY <1>1, <1>4, <2>4, <2>6 DEF info
<1>. QED  BY <1>3, <1>4

LEMMA HeadBack ==
  ASSUME NEW s \in Seq(Byte), Len(s) <= MaxArg, NEW p, NEW major \in 0 .. 6,
         NEW arg \in Nat, arg <= MaxArg, Holds(s, p, EncodeHead(major, arg))
  PROVE  HeadRead(s, p, major, arg)
<1>1. PICK w : /\ IsWidth(w, arg) /\ InfoOf(w, arg) \in 0 .. Infos - 1
               /\ BigEndian(arg, w) \in Seq(Byte) /\ Len(BigEndian(arg, w)) = w
               /\ w > 0 => BigEndianValue(BigEndian(arg, w)) = arg
               /\ \A m : EncodeHead(m, arg) = << m * Infos + InfoOf(w, arg) >> \o BigEndian(arg, w)
  BY HeadShape
<1>. DEFINE i == InfoOf(w, arg)  b == BigEndian(arg, w)  l == Len(EncodeHead(major, arg))
<1>2. i \in 0 .. Infos - 1 /\ b \in Seq(Byte) /\ Len(b) = w /\ (w > 0 => BigEndianValue(b) = arg)
      /\ EncodeHead(major, arg) = << major * Infos + i >> \o b /\ major \in 0 .. 7
  BY <1>1
<1>. HIDE DEF i, b
<1>. DEFINE a == << major * Infos + i >>
<1>3. /\ EncodeHead(major, arg) \in Seq(Byte) /\ IsConcat(EncodeHead(major, arg), a, b)
      /\ IsFirst(a, major, i)
  <2>. DEFINE x == major * Infos + i
  <2>1. x \in Byte
    BY <1>2, FirstByte
  <2>. HIDE DEF x
  <2>2. << x >> \in Seq(Byte)
    BY <2>1
  <2>3. << x >> \in Seq(Byte) /\ Len(<< x >>) = 1 /\ << x >>[1] = x
    BY <2>1
  <2>. QED  BY <1>2, <2>2, <2>3, ConcatType DEF IsFirst, x
<1>4. /\ p \in Nat /\ p < Len(s) /\ Major(s, p) = major /\ Info(s, p) = i
      /\ Holds(s, p + 1, b) /\ l = Len(b) + 1
  <2>. DEFINE c == EncodeHead(major, arg)
  <2>1. Holds(s, p, c) /\ c \in Seq(Byte) /\ IsConcat(c, a, b) /\ IsFirst(a, major, i)
        /\ i \in 0 .. Infos - 1 /\ b \in Seq(Byte) /\ major \in 0 .. 7
    BY <1>2, <1>3
  <2>. HIDE DEF a, c, l
  <2>2. FirstRead(s, p, c, major, i, b)
    BY <2>1, FirstBack
  <2>. QED  BY <2>2 DEF c, l, FirstRead
<1>5. l = w + 1
  BY <1>2, <1>4
<1>. HIDE DEF a
<1>. DEFINE g == Argument(s, p + 1, Info(s, p))  q == p + 1
<1>6. w \in Nat /\ q + w = p + l
  BY <1>1, <1>4, <1>5, BaseType DEF IsWidth
<1>7. g = Read(arg, p + l)
  <2>1. Holds(s, q, b)
    BY <1>4
  <2>. HIDE DEF q, l
  <2>2. Argument(s, q, InfoOf(w, arg)) = Read(arg, q + w)
    BY <1>1, <1>2, <2>1, ArgumentBack
  <2>. QED  BY <1>4, <1>6, <2>2 DEF q, i
<1>8. ~(p >= Len(s)) /\ Major(s, p) # 7
  <2>1. Len(s) \in Nat
    BY BytesType
  <2>. QED  BY <1>4, <2>1
<1>9. HeadAt(s, p) = Then(g, LAMBDA arg1, at : Read([major |-> Major(s, p), arg |-> arg1], at))
  BY <1>8 DEF HeadAt
<1>. HIDE DEF g, l
<1>10. HeadAt(s, p) = Read([major |-> major, arg |-> arg], p + l)
  BY <1>4, <1>7, <1>9, Results DEF Then
<1>. QED  BY <1>4, <1>10 DEF HeadRead, l

\* A string is read to its end.
StringRead(s, p, major, b, q) ==
  /\ HeadRead(s, p, major, Len(b))
  /\ p + Len(EncodeHead(major, Len(b))) \in 0 .. Len(s)
  /\ Take(s, p + Len(EncodeHead(major, Len(b))), Len(b)) = Read(b, q)

LEMMA StringType ==
  ASSUME NEW major \in 0 .. 6, NEW b \in Seq(Byte), Len(b) <= MaxArg
  PROVE  /\ EncodeString(major, b) = Written(EncodeString(major, b).value)
         /\ EncodeString(major, b).value \in Seq(Byte) /\ EncodeHead(major, Len(b)) \in Seq(Byte)
         /\ IsConcat(EncodeString(major, b).value, EncodeHead(major, Len(b)), b)
<1>. DEFINE h == EncodeHead(major, Len(b))
<1>1. h \in Seq(Byte)
  BY HeadType, BytesType
<1>2. EncodeString(major, b) = Written(h \o b)
  BY DEF EncodeString
<1>. HIDE DEF h
<1>. DEFINE c == h \o b
<1>3. c \in Seq(Byte) /\ IsConcat(c, h, b)
  BY <1>1, ConcatType
<1>. HIDE DEF c
<1>4. EncodeString(major, b).value = c
  <2>1. EncodeString(major, b) = Written(c)
    BY <1>2 DEF c
  <2>. QED  BY <2>1, Results DEF Written
<1>. QED  BY <1>1, <1>2, <1>3, <1>4 DEF c, h

LEMMA StringBack ==
  ASSUME NEW s \in Seq(Byte), Len(s) <= MaxArg, NEW p, NEW major \in 0 .. 6,
         NEW b \in Seq(Byte), Len(b) <= MaxArg, Holds(s, p, EncodeString(major, b).value)
  PROVE  StringRead(s, p, major, b, p + Len(EncodeString(major, b).value))
<1>. DEFINE h == EncodeHead(major, Len(b))  c == EncodeString(major, b).value  at == p + Len(h)
<1>1. Len(b) \in Nat
  BY BytesType
<1>2. h \in Seq(Byte) /\ c \in Seq(Byte) /\ IsConcat(c, h, b)
  BY StringType
<1>. HIDE DEF h, c
<1>4. Holds(s, p, c)
  BY DEF c
<1>5. HoldsInTurn(s, p, c, h, b)
  BY <1>2, <1>4, HoldsBoth
<1>6. Holds(s, p, h) /\ Holds(s, at, b) /\ Len(c) = Len(h) + Len(b)
  BY <1>5 DEF HoldsInTurn
<1>7. HeadRead(s, p, major, Len(b))
  BY <1>1, <1>6, HeadBack DEF h
<1>8. p \in Nat /\ Len(h) \in Nat
  BY <1>2, <1>6, HoldsShows
<1>9. at + Len(b) = p + Len(c)
  BY <1>1, <1>6, <1>8
<1>. HIDE DEF at
<1>10. Take(s, at, Len(b)) = Read(b, at + Len(b)) /\ at \in 0 .. Len(s)
  BY <1>6, TakeBack, HoldsShows
<1>. QED  BY <1>7, <1>9, <1>10 DEF StringRead, at, h, c

LEMMA StringAtBack ==
  ASSUME NEW s, NEW p, NEW major, NEW b, NEW q, StringRead(s, p, major, b, q)
  PROVE  StringAt(s, p, major) = Read(b, q)
<1>. DEFINE h == HeadAt(s, p)  at == p + Len(EncodeHead(major, Len(b)))
<1>1. h = Read([major |-> major, arg |-> Len(b)], at) /\ Take(s, at, Len(b)) = Read(b, q)
  BY DEF StringRead, HeadRead
<1>2. StringAt(s, p, major) = Then(h, LAMBDA head, at1 :
         IF head.major # major THEN Fail("UnexpectedType") ELSE Take(s, at1, head.arg))
  BY DEF StringAt
<1>. HIDE DEF h, at
<1>3. StringAt(s, p, major) = IF h.value.major # major THEN Fail("UnexpectedType") ELSE Take(s, h.pos, h.value.arg)
  <2>1. IsOk(h)
    BY <1>1, Results
  <2>. QED  BY <1>2, <2>1 DEF Then
<1>4. h.value.major = major /\ h.value.arg = Len(b) /\ h.pos = at
  BY <1>1, Results
<1>. QED  BY <1>1, <1>3, <1>4

----------------------------------------------------------------------------
(* What is written part by part, held in s.                                *)

\* The n parts v, which make c, are held in s one after another from p, with
\* the ends q.
InTurn(s, p, c, v, n, q) ==
  /\ q[0] = p /\ q[n] = p + Len(c)
  /\ \A k \in 1 .. n : Holds(s, q[k - 1], v[k]) /\ q[k] = q[k - 1] + Len(v[k])
AllInTurn(c, v, n) ==
  c \in Seq(Byte) /\ \A s \in Seq(Byte) : \A p : Holds(s, p, c) => \E q : InTurn(s, p, c, v, n, q)

LEMMA FlatInTurn ==
  ASSUME NEW n \in Nat, n > 0, NEW v, Len(v) = n, \A k \in 1 .. n : v[k] \in Seq(Byte)
  PROVE  AllInTurn(FlattenSeq(v), v, n)
<1>0. AreParts(v, n, Byte)
  BY DEF AreParts
<1>. DEFINE B == Byte
<1>10. PICK f : Flattens(f, v, n, B)
  <2>. HIDE DEF B
  <2>. QED  BY <1>0, FlatExists DEF B
<1>1. /\ f \in [0 .. n -> Seq(Byte)] /\ f[0] = << >>
      /\ \A k \in 1 .. n : f[k] = f[k - 1] \o v[k]
  BY <1>10 DEF Flattens
<1>2. FlattenSeq(v) = f[n]
  BY <1>0, <1>10, FlatIs
<1>3. \A k \in 0 .. n : f[k] \in Seq(Byte)
  BY <1>1
<1>4. ASSUME NEW s \in Seq(Byte), NEW p, Holds(s, p, f[n]) PROVE \E q : InTurn(s, p, f[n], v, n, q)
  <2>. DEFINE q == [k \in 0 .. n |-> p + Len(f[k])]
              Upto(i) == \A k \in 1 .. i : Holds(s, q[k - 1], v[k]) /\ q[k] = q[k - 1] + Len(v[k])
              S == {i \in 0 .. n : Holds(s, p, f[i]) => Upto(i)}
  <2>1. \A k \in 0 .. n : q[k] = p + Len(f[k])
    OBVIOUS
  <2>. HIDE DEF q
  <2>2. q[0] = p
    <3>1. p \in Nat
      BY <1>3, <1>4, HoldsShows
    <3>2. Len(f[0]) = 0 /\ 0 \in 0 .. n
      BY <1>1
    <3>3. q[0] = p + Len(f[0])
      BY <2>1, <3>2
    <3>. QED  BY <3>1, <3>2, <3>3
  <2>3. 0 \in S
    OBVIOUS
  <2>4. ASSUME NEW i \in 0 .. n - 1, i \in S PROVE i + 1 \in S
    <3>. DEFINE j == i + 1  a == f[i]  b == v[j]  c == f[j]
    <3>1. j \in 1 .. n /\ j \in 0 .. n /\ i \in 0 .. n /\ j - 1 = i
      OBVIOUS
    <3>. HIDE DEF j
    <3>2. a \in Seq(Byte) /\ b \in Seq(Byte) /\ c = a \o b
      BY <1>1, <1>3, <3>1
    <3>3. q[i] = p + Len(a) /\ q[j] = p + Len(c)
      BY <2>1, <3>1
    <3>. HIDE DEF a, b, c
    <3>4. c \in Seq(Byte) /\ IsConcat(c, a, b)
      BY <3>2, ConcatType
    <3>5. ASSUME Holds(s, p, c) PROVE Upto(j)
      <4>1. HoldsInTurn(s, p, c, a, b)
        BY <3>2, <3>4, <3>5, HoldsBoth
      <4>2. Holds(s, p, a) /\ Holds(s, p + Len(a), b) /\ Len(c) = Len(a) + Len(b)
        BY <4>1 DEF HoldsInTurn
      <4>3. p \in Nat /\ Len(a) \in Nat /\ Len(b) \in Nat
        BY <3>2, <3>5, <3>4, HoldsShows, BytesType
      <4>4. Holds(s, q[i], b) /\ q[j] = q[i] + Len(b)
        BY <3>3, <4>2, <4>3
      <4>5. Upto(i)
        BY <2>4, <4>2 DEF a
      <4>6. ASSUME NEW k \in 1 .. j
            PROVE  Holds(s, q[k - 1], v[k]) /\ q[k] = q[k - 1] + Len(v[k])
        <5>1. CASE k = j
          BY <3>1, <4>4, <5>1 DEF b
        <5>2. CASE k # j
          <6>1. k \in 1 .. i
            BY <3>1, <5>2
          <6>. QED  BY <4>5, <6>1
        <5>. QED  BY <5>1, <5>2
      <4>. QED  BY <4>6
    <3>. HIDE DEF Upto
    <3>. QED  BY <3>1, <3>5 DEF c, j
  <2>. HIDE DEF S
  <2>5. n \in S
    <3>1. 0 .. n \subseteq S
      BY <2>3, <2>4, InductionUpTo
    <3>. QED  BY <3>1
  <2>6. Upto(n) /\ q[n] = p + Len(f[n])
    BY <1>4, <2>1, <2>5 DEF S
  <2>7. InTurn(s, p, f[n], v, n, q)
    BY <2>2, <2>6 DEF InTurn
  <2>. QED  BY <2>7
<1>5. AllInTurn(f[n], v, n)
  BY <1>3, <1>4 DEF AllInTurn
<1>. QED  BY <1>2, <1>5

\* Something written, as bytes.
IsWritten(w) == IsOk(w) /\ w = Written(w.value) /\ w.value \in Seq(Byte)

\* The n parts are written, and w is what they make: wherever it is held, they
\* are held in turn.
PartHeld(s, q, parts, k) ==
  Holds(s, q[k - 1], parts[k].value) /\ q[k] = q[k - 1] + Len(parts[k].value)
PartsHeld(s, p, w, parts, n, q) ==
  /\ q[0] = p /\ q[n] = p + Len(w.value)
  /\ \A k \in 1 .. n : PartHeld(s, q, parts, k)
IsMadeOf(w, parts, n) ==
  /\ IsWritten(w) /\ \A k \in 1 .. n : IsWritten(parts[k])
  /\ \A s \in Seq(Byte) : \A p : Holds(s, p, w.value) => \E q : PartsHeld(s, p, w, parts, n, q)

LEMMA JoinedInTurn ==
  ASSUME NEW n \in Nat, n > 0, NEW parts, DOMAIN parts = 1 .. n,
         \A k \in 1 .. n : IsOk(parts[k]) => IsWritten(parts[k]), IsOk(Joined(parts))
  PROVE  IsMadeOf(Joined(parts), parts, n)
<1>. DEFINE v == [k \in DOMAIN parts |-> parts[k].value]
            failed == {k \in DOMAIN parts : ~IsOk(parts[k])}
            w == Joined(parts)
<1>1. w = IF failed = {} THEN Written(FlattenSeq(v)) ELSE parts[Min(failed)]
  BY Zenon DEF Joined
<1>2. failed = {}
  <2>1. ASSUME failed # {} PROVE FALSE
    <3>1. failed \subseteq Nat
      OBVIOUS
    <3>2. \E x \in failed : \A y \in failed : x <= y
      <4>. HIDE DEF failed
      <4>. QED  BY <2>1, <3>1, Least
    <3>3. Min(failed) \in failed
      BY <3>2 DEF Min
    <3>4. ~IsOk(parts[Min(failed)])
      <4>. DEFINE e == Min(failed)
      <4>. HIDE DEF e
      <4>. QED  BY <3>3 DEF e
    <3>. HIDE DEF failed
    <3>. QED  BY <1>1, <2>1, <3>4
  <2>. QED  BY <2>1
<1>3. \A k \in 1 .. n : IsWritten(parts[k])
  BY <1>2
<1>4. Len(v) = n /\ \A k \in 1 .. n : v[k] = parts[k].value /\ v[k] \in Seq(Byte)
  BY <1>3 DEF IsWritten
<1>. HIDE DEF v, failed
<1>. DEFINE c == FlattenSeq(v)
<1>5. w = Written(c)
  BY <1>1, <1>2
<1>6. AllInTurn(c, v, n)
  BY <1>4, FlatInTurn
<1>. HIDE DEF c, w
<1>7. w.value = c /\ c \in Seq(Byte) /\ IsWritten(w)
  BY <1>5, <1>6, Results DEF Written, AllInTurn, IsWritten
<1>8. ASSUME NEW s \in Seq(Byte), NEW p, Holds(s, p, w.value)
      PROVE  \E q : PartsHeld(s, p, w, parts, n, q)
  <2>1. PICK q : InTurn(s, p, c, v, n, q)
    BY <1>6, <1>7, <1>8 DEF AllInTurn
  <2>2. PartsHeld(s, p, w, parts, n, q)
    BY <1>4, <1>7, <2>1 DEF InTurn, PartsHeld, PartHeld
  <2>. QED  BY <2>2
<1>. QED  BY <1>3, <1>7, <1>8 DEF IsMadeOf, w

\* Two parts.
IsPair(w, a, b) ==
  /\ IsWritten(w) /\ IsWritten(a) /\ IsWritten(b)
  /\ \A s \in Seq(Byte) : \A p : Holds(s, p, w.value) =>
       /\ Holds(s, p, a.value) /\ Holds(s, p + Len(a.value), b.value)
       /\ p + Len(w.value) = p + Len(a.value) + Len(b.value)

LEMMA PairInTurn ==
  ASSUME NEW a, NEW b, IsOk(a) => IsWritten(a), IsOk(b) => IsWritten(b), IsOk(Joined(<< a, b >>))
  PROVE  IsPair(Joined(<< a, b >>), a, b)
<1>. DEFINE parts == << a, b >>  n == 2  w == Joined(parts)
<1>1. /\ n \in Nat /\ n > 0 /\ DOMAIN parts = 1 .. n /\ IsOk(w)
      /\ 1 \in 1 .. n /\ 2 \in 1 .. n /\ 1 - 1 = 0 /\ 2 - 1 = 1 /\ n = 2
      /\ parts[1] = a /\ parts[2] = b
  OBVIOUS
<1>2. \A k \in 1 .. n : IsOk(parts[k]) => IsWritten(parts[k])
  <2>. TAKE k \in 1 .. n
  <2>1. k = 1 \/ k = 2
    OBVIOUS
  <2>. HIDE DEF n
  <2>. QED  BY <1>1, <2>1
<1>. HIDE DEF parts, n
<1>3. IsMadeOf(w, parts, n)
  BY <1>1, <1>2, JoinedInTurn
<1>. HIDE DEF w
<1>4. IsWritten(w) /\ IsWritten(a) /\ IsWritten(b)
  BY <1>1, <1>3 DEF IsMadeOf
<1>5. ASSUME NEW s \in Seq(Byte), NEW p, Holds(s, p, w.value)
      PROVE  /\ Holds(s, p, a.value) /\ Holds(s, p + Len(a.value), b.value)
             /\ p + Len(w.value) = p + Len(a.value) + Len(b.value)
  <2>1. PICK q : PartsHeld(s, p, w, parts, n, q)
    BY <1>3, <1>5 DEF IsMadeOf
  <2>2. /\ q[0] = p /\ q[n] = p + Len(w.value)
        /\ PartHeld(s, q, parts, 1) /\ PartHeld(s, q, parts, 2)
    BY <1>1, <2>1 DEF PartsHeld
  <2>3. Holds(s, q[0], a.value) /\ q[1] = q[0] + Len(a.value)
    BY <1>1, <2>2, Zenon DEF PartHeld
  <2>4. Holds(s, q[1], b.value) /\ q[2] = q[1] + Len(b.value)
    BY <1>1, <2>2, Zenon DEF PartHeld
  <2>. QED  BY <1>1, <2>2, <2>3, <2>4
<1>. QED  BY <1>4, <1>5 DEF IsPair, w, parts

\* A head and what follows it.
RestHeld(s, at, end, rest, n, q) ==
  q[0] = at /\ q[n] = end /\ \A k \in 1 .. n : PartHeld(s, q, rest, k)
IsHeaded(w, head, rest, n) ==
  /\ IsWritten(w) /\ \A k \in 1 .. n : IsWritten(rest[k])
  /\ \A s \in Seq(Byte) : \A p : Holds(s, p, w.value) =>
       /\ Holds(s, p, head)
       /\ \E q : RestHeld(s, p + Len(head), p + Len(w.value), rest, n, q)

LEMMA HeadInTurn ==
  ASSUME NEW head \in Seq(Byte), NEW n \in Nat, NEW rest, rest = [k \in 1 .. n |-> rest[k]],
         \A k \in 1 .. n : IsOk(rest[k]) => IsWritten(rest[k]),
         IsOk(Joined(<< Written(head) >> \o rest))
  PROVE  IsHeaded(Joined(<< Written(head) >> \o rest), head, rest, n)
<1>. DEFINE first == Written(head)
            T == {first} \cup {rest[k] : k \in 1 .. n}
            parts == << first >> \o rest
            m == n + 1
            w == Joined(parts)
<1>1. rest \in Seq(T) /\ Len(rest) = n /\ << first >> \in Seq(T) /\ Len(<< first >>) = 1
  <2>2. \A k \in 1 .. n : rest[k] \in T
    OBVIOUS
  <2>3. first \in T
    OBVIOUS
  <2>. HIDE DEF T, first
  <2>. QED  BY <2>2, <2>3
<1>2. m \in Nat /\ m > 0 /\ m - 1 = n /\ IsOk(w)
  OBVIOUS
<1>. HIDE DEF T
<1>3. parts \in Seq(T) /\ IsConcat(parts, << first >>, rest)
  BY <1>1, ConcatType
<1>4. DOMAIN parts = 1 .. m /\ parts[1] = first /\ \A k \in 1 .. n : parts[1 + k] = rest[k]
  <2>. HIDE DEF parts, first
  <2>1. DOMAIN parts = 1 .. Len(parts)
    BY <1>3
  <2>2. Len(parts) = m /\ \A k \in 1 .. n : parts[1 + k] = rest[k]
    BY <1>1, <1>3 DEF IsConcat
  <2>3. 1 \in 1 .. Len(<< first >>) /\ << first >>[1] = first
    OBVIOUS
  <2>4. parts[1] = first
    BY <1>3, <2>3 DEF IsConcat
  <2>. QED  BY <2>1, <2>2, <2>4
<1>. HIDE DEF parts, m
<1>5. first.value = head /\ IsWritten(first)
  BY Results DEF Written, IsWritten
<1>6. \A k \in 1 .. m : IsOk(parts[k]) => IsWritten(parts[k])
  <2>. TAKE k \in 1 .. m
  <2>1. CASE k = 1
    BY <1>4, <1>5, <2>1
  <2>2. CASE k # 1
    <3>. DEFINE j == k - 1
    <3>1. j \in 1 .. n /\ 1 + j = k
      BY <1>2, <2>2
    <3>. HIDE DEF j
    <3>2. parts[k] = rest[j]
      BY <1>4, <3>1
    <3>. QED  BY <3>1, <3>2
  <2>. QED  BY <2>1, <2>2
<1>. HIDE DEF w, first
<1>7. IsMadeOf(w, parts, m)
  <2>1. IsOk(Joined(parts))
    BY <1>2 DEF w
  <2>. QED  BY <1>2, <1>4, <1>6, <2>1, JoinedInTurn DEF w
<1>8. IsWritten(w) /\ \A k \in 1 .. n : IsWritten(rest[k])
  <2>1. ASSUME NEW k \in 1 .. n PROVE IsWritten(rest[k])
    <3>1. 1 + k \in 1 .. m
      BY <1>2
    <3>2. IsWritten(parts[1 + k])
      BY <1>7, <3>1 DEF IsMadeOf
    <3>. QED  BY <1>4, <3>2
  <2>. QED  BY <1>7, <2>1 DEF IsMadeOf
<1>9. ASSUME NEW s \in Seq(Byte), NEW p, Holds(s, p, w.value)
      PROVE  /\ Holds(s, p, head)
             /\ \E q : RestHeld(s, p + Len(head), p + Len(w.value), rest, n, q)
  <2>1. PICK q : PartsHeld(s, p, w, parts, m, q)
    BY <1>7, <1>9 DEF IsMadeOf
  <2>2. q[0] = p /\ q[m] = p + Len(w.value) /\ \A k \in 1 .. m : PartHeld(s, q, parts, k)
    BY <2>1 DEF PartsHeld
  <2>3. Holds(s, p, head) /\ q[1] = p + Len(head)
    <3>1. 1 \in 1 .. m /\ 1 - 1 = 0
      BY <1>2
    <3>2. Holds(s, q[0], parts[1].value) /\ q[1] = q[0] + Len(parts[1].value)
      <4>1. PartHeld(s, q, parts, 1)
        BY <2>2, <3>1
      <4>. QED  BY <3>1, <4>1, Zenon DEF PartHeld
    <3>. QED  BY <1>4, <1>5, <2>2, <3>2
  <2>. DEFINE e == [k \in 0 .. n |-> q[k + 1]]
  <2>4. \A k \in 0 .. n : e[k] = q[k + 1]
    OBVIOUS
  <2>. HIDE DEF e
  <2>5. e[0] = p + Len(head) /\ e[n] = p + Len(w.value)
    <3>1. 0 \in 0 .. n /\ n \in 0 .. n /\ 0 + 1 = 1 /\ n + 1 = m
      BY <1>2 DEF m
    <3>. QED  BY <2>2, <2>3, <2>4, <3>1
  <2>6. ASSUME NEW k \in 1 .. n PROVE PartHeld(s, e, rest, k)
    <3>. DEFINE j == k + 1  i == k - 1
    <3>1. j \in 1 .. m /\ j - 1 = k /\ i \in 0 .. n /\ k \in 0 .. n /\ i + 1 = k /\ 1 + k = j
      BY <1>2 DEF m
    <3>. HIDE DEF j, i
    <3>2. PartHeld(s, q, parts, j)
      BY <2>2, <3>1
    <3>3. Holds(s, q[k], parts[j].value) /\ q[j] = q[k] + Len(parts[j].value)
      BY <3>1, <3>2, Zenon DEF PartHeld
    <3>4. parts[j] = rest[k]
      BY <1>4, <3>1
    <3>5. e[i] = q[k] /\ e[k] = q[j]
      <4>1. k + 1 = j
        BY DEF j
      <4>. QED  BY <2>4, <3>1, <4>1
    <3>6. Holds(s, e[i], rest[k].value) /\ e[k] = e[i] + Len(rest[k].value)
      BY <3>3, <3>4, <3>5
    <3>. QED  BY <3>6, Zenon DEF PartHeld, i
  <2>7. RestHeld(s, p + Len(head), p + Len(w.value), rest, n, e)
    BY <2>5, <2>6 DEF RestHeld
  <2>. QED  BY <2>3, <2>7
<1>. QED  BY <1>8, <1>9 DEF IsHeaded, w, parts, first

----------------------------------------------------------------------------
(* Lists and keys, read back.                                              *)

\* From each of the places q, item reads what is in out and goes on to the next.
ReadsOn(item, q, n, out) == \A k \in 1 .. n : item[q[k - 1]] = Read(out[k], q[k])

LEMMA OneMore ==
  ASSUME NEW out, NEW k \in Nat, k > 0
  PROVE  Append([j \in 1 .. k - 1 |-> out[j]], out[k]) = [j \in 1 .. k |-> out[j]]
<1>. DEFINE T == {out[j] : j \in 1 .. k}  a == [j \in 1 .. k - 1 |-> out[j]]  x == out[k]
            b == [j \in 1 .. k |-> out[j]]
<1>1. x \in T /\ \A j \in 1 .. k - 1 : out[j] \in T
  OBVIOUS
<1>2. \A j \in 1 .. k : out[j] \in T
  OBVIOUS
<1>. HIDE DEF T
<1>3. a \in Seq(T) /\ Len(a) = k - 1 /\ \A j \in 1 .. k - 1 : a[j] = out[j]
  BY <1>1
<1>4. b \in Seq(T) /\ Len(b) = k /\ \A j \in 1 .. k : b[j] = out[j]
  BY <1>2
<1>. HIDE DEF a, b
<1>. DEFINE c == Append(a, x)
<1>5. c \in Seq(T) /\ Len(c) = k /\ (\A j \in 1 .. k - 1 : c[j] = out[j]) /\ c[k] = out[k]
  BY <1>1, <1>3
<1>. HIDE DEF c
<1>6. \A j \in 1 .. Len(c) : c[j] = b[j]
  <2>. TAKE j \in 1 .. Len(c)
  <2>1. CASE j = k
    BY <1>4, <1>5, <2>1
  <2>2. CASE j # k
    <3>1. j \in 1 .. k - 1 /\ j \in 1 .. k
      BY <1>5, <2>2
    <3>. QED  BY <1>4, <1>5, <3>1
  <2>. QED  BY <2>1, <2>2
<1>7. c = b
  BY <1>4, <1>5, <1>6, SameSequence
<1>. QED  BY <1>7 DEF c, b, a

\* ... which is what Items reads.
ItemsAre(s, q, n, item, out) ==
  Items(s, q[0], n, item) = Read([j \in 1 .. n |-> out[j]], q[n])

LEMMA ItemsBack ==
  ASSUME NEW s, NEW n \in Nat, NEW item, NEW q, NEW out, ReadsOn(item, q, n, out)
  PROVE  ItemsAre(s, q, n, item, out)
<1>. DEFINE F == CHOOSE f : IsItems(f, q[0], n, item)
<1>1. Items(s, q[0], n, item) = F[n]
  BY Zenon DEF Items, IsItems, ItemsStep
<1>2. IsItems(F, q[0], n, item)
  BY ItemsExist
<1>. HIDE DEF F
<1>3. F[0] = Read(<< >>, q[0]) /\ \A k \in 1 .. n : F[k] = ItemsStep(F[k - 1], item)
  BY <1>2, ItemsAt
<1>. DEFINE S == {k \in 0 .. n : F[k] = Read([j \in 1 .. k |-> out[j]], q[k])}
<1>4. 0 \in S
  <2>1. [j \in 1 .. 0 |-> out[j]] = << >>
    OBVIOUS
  <2>. QED  BY <1>3, <2>1
<1>5. ASSUME NEW i \in 0 .. n - 1, i \in S PROVE i + 1 \in S
  <2>. DEFINE k == i + 1  a == [j \in 1 .. i |-> out[j]]  x == out[k]  b == [j \in 1 .. k |-> out[j]]
  <2>1. k \in 1 .. n /\ k \in 0 .. n /\ k - 1 = i /\ k \in Nat /\ k > 0
    OBVIOUS
  <2>2. F[i] = Read(a, q[i])
    BY <1>5
  <2>. HIDE DEF k
  <2>3. item[q[i]] = Read(x, q[k]) /\ F[k] = ItemsStep(F[i], item)
    <3>1. item[q[k - 1]] = Read(out[k], q[k]) /\ F[k] = ItemsStep(F[k - 1], item)
      BY <1>3, <2>1 DEF ReadsOn
    <3>. QED  BY <2>1, <3>1
  <2>4. Append(a, x) = b
    <3>1. Append([j \in 1 .. k - 1 |-> out[j]], out[k]) = [j \in 1 .. k |-> out[j]]
      BY <2>1, OneMore
    <3>. QED  BY <2>1, <3>1
  <2>. HIDE DEF a, b, x
  <2>. DEFINE r == item[q[i]]
  <2>5. ItemsStep(Read(a, q[i]), item) = Then(r, LAMBDA next, after : Read(Append(a, next), after))
    BY Results DEF ItemsStep, Then
  <2>6. r = Read(x, q[k])
    BY <2>3
  <2>. HIDE DEF r
  <2>7. ItemsStep(Read(a, q[i]), item) = Read(b, q[k])
    BY <2>4, <2>5, <2>6, Results DEF Then
  <2>8. F[k] = Read(b, q[k])
    BY <2>2, <2>3, <2>7
  <2>. QED  BY <2>1, <2>8 DEF k, b
<1>. HIDE DEF S
<1>6. n \in S
  <2>1. 0 .. n \subseteq S
    BY <1>4, <1>5, InductionUpTo
  <2>. QED  BY <2>1
<1>. QED  BY <1>1, <1>6 DEF S, ItemsAre

\* Keys can be put in order.
Greatest(T, x) == x \in T /\ \A y \in T : y # x => KeyBelow(y, x)

LEMMA GreatestKey ==
  \A n \in Nat : \A T : IsFiniteSet(T) /\ T \subseteq Strings /\ Cardinality(T) = n + 1 => \E x : Greatest(T, x)
<1>. DEFINE P(n) == \A T : IsFiniteSet(T) /\ T \subseteq Strings /\ Cardinality(T) = n + 1 => \E x : Greatest(T, x)
            S == {n \in Nat : P(n)}
<1>1. ASSUME NEW n \in Nat, NEW T, IsFiniteSet(T), T \subseteq Strings, Cardinality(T) = n + 1
      PROVE  \E x \in T : IsFiniteSet(T \ {x}) /\ Cardinality(T \ {x}) = n
  <2>1. T # {}
    BY <1>1, FS_EmptySet
  <2>2. PICK x \in T : TRUE
    BY <2>1
  <2>3. IsFiniteSet(T \ {x}) /\ Cardinality(T \ {x}) = Cardinality(T) - 1
    BY <1>1, FS_RemoveElement
  <2>. QED  BY <1>1, <2>3
<1>2. 0 \in S
  <2>1. ASSUME NEW T, IsFiniteSet(T), T \subseteq Strings, Cardinality(T) = 0 + 1 PROVE \E x : Greatest(T, x)
    <3>1. PICK x \in T : IsFiniteSet(T \ {x}) /\ Cardinality(T \ {x}) = 0
      BY <1>1, <2>1, 0 \in Nat
    <3>2. T \ {x} = {}
      BY <3>1, FS_EmptySet
    <3>. QED  BY <3>2 DEF Greatest
  <2>. QED  BY <2>1
<1>3. ASSUME NEW n \in Nat, n \in S PROVE n + 1 \in S
  <2>1. ASSUME NEW T, IsFiniteSet(T), T \subseteq Strings, Cardinality(T) = n + 1 + 1
        PROVE  \E x : Greatest(T, x)
    <3>1. PICK x \in T : IsFiniteSet(T \ {x}) /\ Cardinality(T \ {x}) = n + 1
      BY <1>1, <2>1, n + 1 \in Nat
    <3>. DEFINE U == T \ {x}
    <3>2. PICK y : Greatest(U, y)
      <4>1. U \subseteq Strings /\ P(n)
        BY <1>3, <2>1
      <4>. HIDE DEF U
      <4>. QED  BY <3>1, <4>1 DEF U
    <3>3. y \in U /\ \A z \in U : z # y => KeyBelow(z, y)
      BY <3>2 DEF Greatest
    <3>4. x \in Strings /\ y \in Strings /\ x # y /\ U \subseteq Strings
      BY <2>1, <3>3
    <3>5. CASE KeyBelow(x, y)
      <4>1. \A z \in T : z # y => KeyBelow(z, y)
        BY <3>3, <3>5
      <4>2. y \in T
        BY <3>3
      <4>. QED  BY <4>1, <4>2 DEF Greatest
    <3>6. CASE KeyBelow(y, x)
      <4>1. ASSUME NEW z \in T, z # x PROVE KeyBelow(z, x)
        <5>1. z \in U /\ z \in Strings
          BY <3>4, <4>1
        <5>. HIDE DEF U
        <5>2. CASE z = y
          BY <3>6, <5>2
        <5>3. CASE z # y
          <6>1. KeyBelow(z, y)
            BY <3>3, <5>1, <5>3
          <6>. QED  BY <3>4, <3>6, <5>1, <6>1, KeyTransitive
        <5>. QED  BY <5>2, <5>3
      <4>. QED  BY <4>1 DEF Greatest
    <3>. QED  BY <3>4, <3>5, <3>6, KeyTotal
  <2>. QED  BY <2>1
<1>. HIDE DEF S
<1>4. Nat \subseteq S
  BY <1>2, <1>3, Induction
<1>. QED  BY <1>4 DEF S

LEMMA KeysInLine ==
  \A n \in Nat : \A T : IsFiniteSet(T) /\ T \subseteq Strings /\ Cardinality(T) = n =>
    \E ks : Increasing(ks, n) /\ FirstOf(ks, n) = T
<1>. DEFINE P(n) == \A T : IsFiniteSet(T) /\ T \subseteq Strings /\ Cardinality(T) = n =>
                      \E ks : Increasing(ks, n) /\ FirstOf(ks, n) = T
            S == {n \in Nat : P(n)}
<1>1. 0 \in S
  <2>1. ASSUME NEW T, IsFiniteSet(T), Cardinality(T) = 0 PROVE \E ks : Increasing(ks, 0) /\ FirstOf(ks, 0) = T
    <3>1. T = {}
      BY <2>1, FS_EmptySet
    <3>2. FirstOf(T, 0) = {} /\ Increasing(T, 0)
      BY DEF FirstOf, Increasing
    <3>. QED  BY <3>1, <3>2
  <2>. QED  BY <2>1
<1>2. ASSUME NEW n \in Nat, n \in S PROVE n + 1 \in S
  <2>. DEFINE m == n + 1
  <2>1. ASSUME NEW T, IsFiniteSet(T), T \subseteq Strings, Cardinality(T) = m
        PROVE  \E ks : Increasing(ks, m) /\ FirstOf(ks, m) = T
    <3>1. PICK x : Greatest(T, x)
      BY <2>1, GreatestKey
    <3>2. x \in T /\ \A y \in T : y # x => KeyBelow(y, x)
      BY <3>1 DEF Greatest
    <3>. DEFINE U == T \ {x}
    <3>3. IsFiniteSet(U) /\ Cardinality(U) = n /\ U \subseteq Strings
      <4>1. IsFiniteSet(U) /\ Cardinality(U) = Cardinality(T) - 1
        BY <2>1, <3>2, FS_RemoveElement
      <4>. QED  BY <2>1, <4>1
    <3>4. T = U \cup {x} /\ \A y \in U : KeyBelow(y, x)
      BY <3>2
    <3>. HIDE DEF U
    <3>5. PICK js : Increasing(js, n) /\ FirstOf(js, n) = U
      BY <1>2, <3>3
    <3>. DEFINE ks == [i \in 1 .. m |-> IF i = m THEN x ELSE js[i]]
    <3>6. ks[m] = x /\ \A i \in 1 .. n : ks[i] = js[i]
      OBVIOUS
    <3>. HIDE DEF ks
    <3>7. \A i \in 1 .. n : js[i] \in U
      BY <3>5 DEF FirstOf
    <3>8. Increasing(ks, m)
      <4>1. ASSUME NEW k \in 1 .. m PROVE ks[k] \in Strings
        <5>1. CASE k = m
          BY <2>1, <3>2, <3>6, <5>1
        <5>2. CASE k # m
          <6>1. k \in 1 .. n
            BY <5>2
          <6>. QED  BY <3>3, <3>6, <3>7, <6>1
        <5>. QED  BY <5>1, <5>2
      <4>2. ASSUME NEW k \in 2 .. m PROVE KeyBelow(ks[k - 1], ks[k])
        <5>1. k - 1 \in 1 .. n
          OBVIOUS
        <5>2. CASE k = m
          <6>1. ks[k - 1] = js[k - 1] /\ js[k - 1] \in U
            BY <3>6, <3>7, <5>1
          <6>. QED  BY <3>4, <3>6, <5>2, <6>1
        <5>3. CASE k # m
          <6>1. k \in 2 .. n /\ k \in 1 .. n
            BY <5>3
          <6>2. KeyBelow(js[k - 1], js[k])
            BY <3>5, <6>1 DEF Increasing
          <6>. QED  BY <3>6, <5>1, <6>1, <6>2
        <5>. QED  BY <5>2, <5>3
      <4>. QED  BY <4>1, <4>2 DEF Increasing
    <3>9. FirstOf(ks, m) = T
      <4>1. \A i \in 1 .. m : ks[i] \in T
        <5>. TAKE i \in 1 .. m
        <5>1. CASE i = m
          BY <3>4, <3>6, <5>1
        <5>2. CASE i # m
          <6>1. i \in 1 .. n
            BY <5>2
          <6>. QED  BY <3>4, <3>6, <3>7, <6>1
        <5>. QED  BY <5>1, <5>2
      <4>2. ASSUME NEW y \in T PROVE \E i \in 1 .. m : ks[i] = y
        <5>1. CASE y = x
          BY <3>6, <5>1
        <5>2. CASE y # x
          <6>1. y \in FirstOf(js, n)
            BY <3>4, <3>5, <5>2
          <6>2. PICK i \in 1 .. n : js[i] = y
            BY <6>1 DEF FirstOf
          <6>3. i \in 1 .. m
            OBVIOUS
          <6>. QED  BY <3>6, <6>2, <6>3
        <5>. QED  BY <5>1, <5>2
      <4>. HIDE DEF m
      <4>. QED  BY <4>1, <4>2 DEF FirstOf
    <3>. QED  BY <3>8, <3>9
  <2>. QED  BY <2>1
<1>. HIDE DEF S
<1>3. Nat \subseteq S
  BY <1>1, <1>2, Induction
<1>. QED  BY <1>3 DEF S

----------------------------------------------------------------------------
(* Maps, read back.                                                        *)

\* From p to q stand key and what item reads as x.
EntryStands(s, item, p, q, key, x) ==
  \E m : StringAt(s, p, 3) = Read(key, m) /\ item[m] = Read(x, q)

LEMMA EntryBack ==
  ASSUME NEW s, NEW item, NEW p, NEW q, NEW key, NEW x, EntryStands(s, item, p, q, key, x),
         NotUtf8 \notin ToSet(key),
         NEW done, done.previous # << >> => Misorder(key, done.previous[1]) = "Ok"
  PROVE  Entry(s, p, done, item) = Read([of |-> Inserted(done.of, key, x), previous |-> << key >>], q)
<1>1. PICK m : StringAt(s, p, 3) = Read(key, m) /\ item[m] = Read(x, q)
  BY DEF EntryStands
<1>. DEFINE t == StringAt(s, p, 3)  v == Utf8(t)  u == Renamed(v, "UnexpectedType", "NonStringKey")
            r == item[m]
            Bad(k) == done.previous # << >> /\ Misorder(k, done.previous[1]) # "Ok"
            Then1(k, next, after) == Read([of |-> Inserted(done.of, k, next), previous |-> << k >>], after)
<1>2. Entry(s, p, done, item) =
          Then(u, LAMBDA k, at :
            IF done.previous # << >> /\ Misorder(k, done.previous[1]) # "Ok"
            THEN Fail(Misorder(k, done.previous[1]))
            ELSE Then(item[at], LAMBDA next, after :
                   Read([of |-> Inserted(done.of, k, next), previous |-> << k >>], after)))
  BY DEF Entry
<1>3. t = Read(key, m) /\ r = Read(x, q)
  BY <1>1
<1>. HIDE DEF t
<1>4. v = t
  <2>1. v = IF NotUtf8 \in ToSet(t.value) THEN Fail("InvalidUtf8") ELSE t
    BY <1>3, Results DEF Utf8, Then
  <2>2. t.value = key
    BY <1>3, Results
  <2>. HIDE DEF v
  <2>. QED  BY <2>1, <2>2
<1>. HIDE DEF v
<1>5. u = t
  <2>1. t.error = "Ok"
    BY <1>3 DEF Read
  <2>. QED  BY <1>4, <2>1 DEF Renamed
<1>. HIDE DEF u
<1>6. IsOk(u) /\ u.value = key /\ u.pos = m
  BY <1>3, <1>5, Results
<1>7. Entry(s, p, done, item) =
          IF done.previous # << >> /\ Misorder(key, done.previous[1]) # "Ok"
          THEN Fail(Misorder(key, done.previous[1]))
          ELSE Then(r, LAMBDA next, after :
                 Read([of |-> Inserted(done.of, key, next), previous |-> << key >>], after))
  BY <1>2, <1>6 DEF Then
<1>. HIDE DEF r
<1>8. Entry(s, p, done, item) = Then(r, LAMBDA next, after :
                 Read([of |-> Inserted(done.of, key, next), previous |-> << key >>], after))
  BY <1>7
<1>. QED  BY <1>3, <1>8, Results DEF Then

EntriesAre(s, q, n, item, ks, out) ==
  Entries(s, q[0], n, item) = Read([key \in FirstOf(ks, n) |-> out[key]], q[n])

LEMMA EntriesBack ==
  ASSUME NEW s, NEW n \in Nat, NEW item, NEW q, NEW ks, Increasing(ks, n), NEW out,
         \A k \in 1 .. n : EntryStands(s, item, q[k - 1], q[k], ks[k], out[ks[k]]),
         \A k \in 1 .. n : NotUtf8 \notin ToSet(ks[k])
  PROVE  EntriesAre(s, q, n, item, ks, out)
<1>. DEFINE F == CHOOSE f : IsEntries(f, s, q[0], n, item)
            Done(k) == [of |-> [key \in FirstOf(ks, k) |-> out[key]],
                        previous |-> IF k = 0 THEN << >> ELSE << ks[k] >>]
<1>1. Entries(s, q[0], n, item) = Then(F[n], LAMBDA done, at : Read(done.of, at))
  BY Zenon DEF Entries, IsEntries, EntriesStep, NoEntries
<1>2. IsEntries(F, s, q[0], n, item)
  BY EntriesExist
<1>. HIDE DEF F
<1>3. F[0] = NoEntries(q[0]) /\ \A k \in 1 .. n : F[k] = EntriesStep(s, F[k - 1], item)
  BY <1>2, EntriesAt
<1>. DEFINE S == {k \in 0 .. n : F[k] = Read(Done(k), q[k])}
<1>4. 0 \in S
  <2>1. FirstOf(ks, 0) = {}
    BY DEF FirstOf
  <2>2. [key \in FirstOf(ks, 0) |-> out[key]] = << >>
    BY <2>1
  <2>3. Done(0) = [of |-> << >>, previous |-> << >>]
    BY <2>2
  <2>. HIDE DEF Done
  <2>. QED  BY <1>3, <2>3 DEF NoEntries
<1>5. ASSUME NEW i \in 0 .. n - 1, i \in S PROVE i + 1 \in S
  <2>. DEFINE k == i + 1  done == Done(i)  key == ks[k]  x == out[key]
  <2>1. k \in 1 .. n /\ k \in 0 .. n /\ k - 1 = i /\ k # 0
    OBVIOUS
  <2>2. F[i] = Read(done, q[i])
    BY <1>5
  <2>3. /\ done.of = [y \in FirstOf(ks, i) |-> out[y]]
        /\ done.previous = IF i = 0 THEN << >> ELSE << ks[i] >>
    OBVIOUS
  <2>. HIDE DEF k
  <2>4. EntryStands(s, item, q[i], q[k], key, x) /\ NotUtf8 \notin ToSet(key)
        /\ F[k] = EntriesStep(s, F[i], item)
    <3>1. EntryStands(s, item, q[k - 1], q[k], ks[k], out[ks[k]]) /\ F[k] = EntriesStep(s, F[k - 1], item)
      BY <1>3, <2>1
    <3>. QED  BY <2>1, <3>1
  <2>. HIDE DEF done, S
  <2>5. done.previous # << >> => Misorder(key, done.previous[1]) = "Ok"
    <3>1. CASE i = 0
      BY <2>3, <3>1
    <3>2. CASE i # 0
      <4>1. done.previous[1] = ks[i]
        BY <2>3, <3>2
      <4>2. k \in 2 .. n /\ i \in 1 .. n
        BY <2>1, <3>2
      <4>3. KeyBelow(ks[i], ks[k]) /\ ks[i] \in Strings /\ ks[k] \in Strings
        <5>1. KeyBelow(ks[k - 1], ks[k])
          BY <4>2 DEF Increasing
        <5>. QED  BY <2>1, <4>2, <5>1 DEF Increasing
      <4>4. ks[k] # ks[i] /\ ~KeyBelow(ks[k], ks[i])
        <5>1. ~KeyBelow(ks[k], ks[k]) /\ ~KeyBelow(ks[i], ks[i])
          BY <4>3, KeyIrreflexive
        <5>2. KeyBelow(ks[i], ks[k]) /\ KeyBelow(ks[k], ks[i]) => KeyBelow(ks[i], ks[i])
          BY <4>3, KeyTransitive
        <5>. QED  BY <4>3, <5>1, <5>2
      <4>. QED  BY <4>1, <4>4 DEF Misorder
    <3>. QED  BY <3>1, <3>2
  <2>. HIDE DEF key, x
  <2>6. Entry(s, q[i], done, item) = Read([of |-> Inserted(done.of, key, x), previous |-> << key >>], q[k])
    BY <2>4, <2>5, EntryBack
  <2>7. Inserted(done.of, key, x) = [y \in FirstOf(ks, k) |-> out[y]]
    <3>1. FirstOf(ks, k) = FirstOf(ks, i) \cup {key}
      <4>1. 1 .. k = 1 .. i \cup {k}
        BY <2>1
      <4>. QED  BY <4>1 DEF FirstOf, key
    <3>2. DOMAIN done.of = FirstOf(ks, i)
      BY <2>3
    <3>3. Inserted(done.of, key, x) = [y \in FirstOf(ks, k) |-> IF y = key THEN x ELSE done.of[y]]
      BY <3>1, <3>2 DEF Inserted
    <3>4. ASSUME NEW y \in FirstOf(ks, k) PROVE (IF y = key THEN x ELSE done.of[y]) = out[y]
      <4>1. CASE y = key
        BY <4>1 DEF x
      <4>2. CASE y # key
        BY <2>3, <3>1, <4>2
      <4>. QED  BY <4>1, <4>2
    <3>. QED  BY <3>3, <3>4
  <2>8. [of |-> Inserted(done.of, key, x), previous |-> << key >>] = Done(k)
    BY <2>1, <2>7 DEF key
  <2>. HIDE DEF Done
  <2>9. EntriesStep(s, Read(done, q[i]), item) = Entry(s, q[i], done, item)
    BY Results DEF EntriesStep, Then
  <2>10. F[k] = Read(Done(k), q[k])
    BY <2>2, <2>4, <2>6, <2>8, <2>9
  <2>. QED  BY <2>1, <2>10 DEF k, S
<1>6. F[n] = Read(Done(n), q[n])
  <2>. HIDE DEF S
  <2>1. 0 .. n \subseteq S
    BY <1>4, <1>5, InductionUpTo
  <2>2. n \in S
    BY <2>1
  <2>. QED  BY <2>2 DEF S
<1>. DEFINE r == F[n]
<1>7. r = Read(Done(n), q[n]) /\ Entries(s, q[0], n, item) = Then(r, LAMBDA done, at : Read(done.of, at))
  BY <1>1, <1>6
<1>8. Done(n).of = [key \in FirstOf(ks, n) |-> out[key]]
  OBVIOUS
<1>. HIDE DEF r, Done
<1>9. Entries(s, q[0], n, item) = Read(Done(n).of, q[n])
  BY <1>7, Results DEF Then
<1>. QED  BY <1>8, <1>9 DEF EntriesAre

----------------------------------------------------------------------------
(* Any item, read back.                                                    *)

\* At this depth, w is bytes that are read back as y.
IsBack(s, depth, item, w, y) ==
  /\ IsWritten(w)
  /\ \A p : Holds(s, p, w.value) => ItemFrom(s, p, depth, item) = Read(y, p + Len(w.value))

\* c is the first byte of a simple value or float, and b.
IsSimple(s, c, i, b) ==
  c \in Seq(Byte) /\ \A p : Holds(s, p, c) => FirstRead(s, p, c, 7, i, b)

LEMMA SimpleFirst ==
  ASSUME NEW s \in Seq(Byte), NEW i \in 0 .. Infos - 1, NEW b \in Seq(Byte)
  PROVE  IsSimple(s, << 7 * Infos + i >> \o b, i, b)
<1>. DEFINE x == 7 * Infos + i  a == << x >>  c == a \o b  m == 7
<1>1. x \in Byte
  <2>1. 7 \in 0 .. 7
    OBVIOUS
  <2>. QED  BY <2>1, FirstByte
<1>2. a \in Seq(Byte) /\ IsFirst(a, m, i)
  <2>. HIDE DEF x
  <2>1. << x >> \in Seq(Byte) /\ Len(<< x >>) = 1 /\ << x >>[1] = x
    BY <1>1
  <2>. QED  BY <2>1 DEF IsFirst, x
<1>3. m \in 0 .. 7
  OBVIOUS
<1>. HIDE DEF a, m
<1>4. c \in Seq(Byte) /\ IsConcat(c, a, b)
  BY <1>2, ConcatType
<1>. HIDE DEF c
<1>5. ASSUME NEW p, Holds(s, p, c) PROVE FirstRead(s, p, c, m, i, b)
  BY <1>2, <1>3, <1>4, <1>5, FirstBack
<1>. QED  BY <1>4, <1>5 DEF IsSimple, c, a, m

\* How a simple value or float is read.
LEMMA FromFirst ==
  ASSUME NEW s \in Seq(Byte), NEW p \in Nat, p < Len(s), NEW depth \in Nat, depth <= MaxDepth,
         NEW item, Major(s, p) = 7
  PROVE  ItemFrom(s, p, depth, item) = SimpleAt(s, p + 1, Info(s, p))
<1>1. Len(s) \in Nat
  BY BytesType
<1>. QED  BY <1>1, BaseType DEF ItemFrom

\* The low values of what needs no argument.
LEMMA SimpleInfos ==
  /\ SimpleInfo("false") = Direct - 4 /\ SimpleInfo("true") = Direct - 3
  /\ SimpleInfo("null") = Direct - 2 /\ FloatInfo = Direct + Widths - 1
<1>1. FloatInfo = Direct + Widths - 1
  BY Zenon DEF FloatInfo
<1>2. SimpleInfo("false") = Direct - 4
  BY DEF SimpleInfo
<1>3. SimpleInfo("true") = Direct - 3
  BY DEF SimpleInfo
<1>4. SimpleInfo("null") = Direct - 2
  BY DEF SimpleInfo
<1>. QED  BY <1>1, <1>2, <1>3, <1>4

LEMMA SimpleBack ==
  ASSUME NEW s \in Seq(Byte), NEW depth \in Nat, depth <= MaxDepth, NEW item, NEW write,
         NEW name \in {"false", "true", "null"}
  PROVE  IsBack(s, depth, item, EncodeItem(Simple(name), depth, write), Simple(name))
<1>. DEFINE i == SimpleInfo(name)  x == 7 * Infos + i  c == << x >>  w == EncodeItem(Simple(name), depth, write)
<1>1. w = Written(c)
  <2>1. \A n : EncodeItem(Simple(n), depth, write) = Written(<< 7 * Infos + SimpleInfo(n) >>)
    BY EncodedByKind, Zenon
  <2>. QED  BY <2>1
<1>. HIDE DEF w
<1>2. i \in 0 .. Infos - 1
  BY BaseType, SimpleInfos
<1>3. \A other \in {"false", "true", "null"} : i = SimpleInfo(other) => other = name
  BY BaseType, SimpleInfos
<1>. HIDE DEF i
<1>4. << 7 * Infos + i >> \o << >> = c
  <2>1. x \in Byte
    <3>1. 7 \in 0 .. 7
      OBVIOUS
    <3>. QED  BY <1>2, <3>1, FirstByte
  <2>. HIDE DEF x
  <2>2. << x >> \o << >> = << x >>
    BY <2>1
  <2>. QED  BY <2>2 DEF x
<1>. DEFINE b == << >>
<1>5. b \in Seq(Byte) /\ Len(b) = 0
  OBVIOUS
<1>6. << 7 * Infos + i >> \o b = c
  BY <1>4
<1>. HIDE DEF c, b
<1>7. IsSimple(s, c, i, b)
  BY <1>2, <1>5, <1>6, SimpleFirst
<1>8. w.value = c /\ IsWritten(w)
  BY <1>1, <1>7, Results DEF Written, IsWritten, IsSimple
<1>9. ASSUME NEW p, Holds(s, p, c)
      PROVE  ItemFrom(s, p, depth, item) = Read(Simple(name), p + Len(c))
  <2>1. /\ p \in Nat /\ p < Len(s) /\ Major(s, p) = 7 /\ Info(s, p) = i
        /\ Len(c) = Len(b) + 1
    BY <1>7, <1>9 DEF IsSimple, FirstRead
  <2>2. Len(c) = 1
    BY <1>5, <2>1
  <2>3. ItemFrom(s, p, depth, item) = SimpleAt(s, p + 1, i)
    BY <2>1, FromFirst
  <2>4. (CHOOSE other \in {"false", "true", "null"} : i = SimpleInfo(other)) = name
    BY <1>3, Zenon DEF i
  <2>5. i \in {SimpleInfo("false"), SimpleInfo("true"), SimpleInfo("null")}
    BY DEF i
  <2>6. SimpleAt(s, p + 1, i) = Read(Simple(name), p + 1)
    BY <2>4, <2>5 DEF SimpleAt
  <2>. QED  BY <2>2, <2>3, <2>6
<1>. QED  BY <1>8, <1>9 DEF IsBack, w

LEMMA FloatBack ==
  ASSUME NEW s \in Seq(Byte), Len(s) <= MaxArg, NEW depth \in Nat, depth <= MaxDepth, NEW item, NEW write,
         NEW f \in Seq(Byte), Len(f) = FloatBytes, IsOk(EncodeItem(Float(f), depth, write))
  PROVE  IsBack(s, depth, item, EncodeItem(Float(f), depth, write), Float(FloatForm(f)))
<1>. DEFINE i == FloatInfo  b == FloatForm(f)  c == << 7 * Infos + i >> \o b  w == EncodeItem(Float(f), depth, write)
<1>1. f \notin NotFinite
  <2>1. ~(depth > MaxDepth)
    BY BaseType
  <2>2. Float(f).kind = "float" /\ Float(f).bytes = f
    BY DEF Float
  <2>3. f \in NotFinite => w = Fail("InvalidFloat")
    BY <2>1, <2>2 DEF EncodeItem
  <2>. HIDE DEF w
  <2>4. IsOk(w)
    BY DEF w
  <2>. QED  BY <2>3, <2>4, Results
<1>2. w = Written(c)
  <2>1. \A x : x \notin NotFinite => EncodeItem(Float(x), depth, write)
                  = Written(<< 7 * Infos + FloatInfo >> \o FloatForm(x))
    BY EncodedByKind, Zenon
  <2>. QED  BY <1>1, <2>1
<1>. HIDE DEF w
<1>3. b \in Seq(Byte) /\ Len(b) = FloatBytes /\ IsFloat(b)
  BY <1>1, WireAssumption DEF FloatForm, IsFloat
<1>4. i \in 0 .. Infos - 1 /\ i \notin {SimpleInfo("false"), SimpleInfo("true"), SimpleInfo("null")}
  BY BaseType, SimpleInfos
<1>. HIDE DEF i, b
<1>5. IsSimple(s, c, i, b)
  BY <1>3, <1>4, SimpleFirst
<1>. HIDE DEF c
<1>6. w.value = c /\ IsWritten(w)
  BY <1>2, <1>5, Results DEF Written, IsWritten, IsSimple
<1>7. ASSUME NEW p, Holds(s, p, c)
      PROVE  ItemFrom(s, p, depth, item) = Read(Float(b), p + Len(c))
  <2>1. /\ p \in Nat /\ p < Len(s) /\ Major(s, p) = 7 /\ Info(s, p) = i
        /\ Holds(s, p + 1, b) /\ Len(c) = Len(b) + 1
    BY <1>5, <1>7 DEF IsSimple, FirstRead
  <2>2. ItemFrom(s, p, depth, item) = SimpleAt(s, p + 1, i)
    BY <2>1, FromFirst
  <2>. DEFINE t == Take(s, p + 1, FloatBytes)  q == p + 1
  <2>3. SimpleAt(s, p + 1, i) = Then(t, LAMBDA bytes1, at :
              IF IsFloat(bytes1) THEN Read(Float(bytes1), at) ELSE Fail("InvalidFloat"))
    BY <1>4 DEF SimpleAt, i
  <2>4. q + Len(b) = p + Len(c)
    <3>1. Len(b) \in Nat
      BY <1>3, BytesType
    <3>. QED  BY <2>1, <3>1
  <2>5. t = Read(b, p + Len(c))
    <3>1. Holds(s, q, b)
      BY <2>1
    <3>2. t = Take(s, q, Len(b))
      BY <1>3
    <3>. HIDE DEF t, q
    <3>3. Take(s, q, Len(b)) = Read(b, q + Len(b))
      BY <1>3, <3>1, TakeBack
    <3>. QED  BY <2>4, <3>2, <3>3
  <2>. HIDE DEF t, q
  <2>6. SimpleAt(s, p + 1, i) = Read(Float(b), p + Len(c))
    BY <1>3, <2>3, <2>5, Results DEF Then
  <2>. QED  BY <2>2, <2>6
<1>. QED  BY <1>6, <1>7 DEF IsBack, w, b

\* What is read after a head.
AfterHead(s, major, arg, at, item) ==
  CASE major = 0 -> Read(Integer(arg), at)
    [] major = 1 -> Read(Integer(-1 - arg), at)
    [] major = 2 -> As(Take(s, at, arg), Bytes)
    [] major = 3 -> As(Utf8(Take(s, at, arg)), Text)
    [] major = 4 -> As(Items(s, at, arg, item), List)
    [] major = 5 -> As(Entries(s, at, arg, item), Map)
    [] major = 6 -> LinkAt(s, at, arg)

\* ... from p on, to at and beyond.
GoesOn(s, p, depth, item, major, arg, at) ==
  ItemFrom(s, p, depth, item) = AfterHead(s, major, arg, at, item)

LEMMA FromHead ==
  ASSUME NEW s \in Seq(Byte), NEW p, NEW major \in 0 .. 6, NEW arg, HeadRead(s, p, major, arg),
         NEW depth \in Nat, depth <= MaxDepth, NEW item,
         NEW at, at = p + Len(EncodeHead(major, arg))
  PROVE  GoesOn(s, p, depth, item, major, arg, at)
<1>. DEFINE h == HeadAt(s, p)
<1>1. p \in Nat /\ p < Len(s) /\ Major(s, p) = major /\ h = Read([major |-> major, arg |-> arg], at)
  BY DEF HeadRead
<1>2. ~(depth > MaxDepth) /\ ~(p >= Len(s)) /\ Major(s, p) # 7
  <2>1. Len(s) \in Nat
    BY BytesType
  <2>. QED  BY <1>1, <2>1, BaseType
<1>3. ItemFrom(s, p, depth, item) = Then(h, LAMBDA head, at1 :
         CASE head.major = 0 -> Read(Integer(head.arg), at1)
           [] head.major = 1 -> Read(Integer(-1 - head.arg), at1)
           [] head.major = 2 -> As(Take(s, at1, head.arg), Bytes)
           [] head.major = 3 -> As(Utf8(Take(s, at1, head.arg)), Text)
           [] head.major = 4 -> As(Items(s, at1, head.arg, item), List)
           [] head.major = 5 -> As(Entries(s, at1, head.arg, item), Map)
           [] head.major = 6 -> LinkAt(s, at1, head.arg))
  BY <1>2, Zenon DEF ItemFrom
<1>. HIDE DEF h
<1>4. IsOk(h) /\ h.value.major = major /\ h.value.arg = arg /\ h.pos = at
  BY <1>1, Results
<1>5. ItemFrom(s, p, depth, item) = AfterHead(s, h.value.major, h.value.arg, h.pos, item)
  BY <1>3, <1>4 DEF Then, AfterHead
<1>. QED  BY <1>4, <1>5 DEF GoesOn

LEMMA NumberBack ==
  ASSUME NEW s \in Seq(Byte), Len(s) <= MaxArg, NEW depth \in Nat, depth <= MaxDepth, NEW item, NEW write,
         NEW n \in Int, IsOk(EncodeItem(Integer(n), depth, write))
  PROVE  IsBack(s, depth, item, EncodeItem(Integer(n), depth, write), Integer(n))
<1>. DEFINE major == IF n >= 0 THEN 0 ELSE 1  arg == IF n >= 0 THEN n ELSE -1 - n
            w == EncodeItem(Integer(n), depth, write)  c == EncodeHead(major, arg)
<1>1. major \in 0 .. 6 /\ major \in 0 .. 7 /\ arg \in Nat
  OBVIOUS
<1>2. n = IF major = 0 THEN arg ELSE -1 - arg
  OBVIOUS
<1>3. major = 0 \/ major = 1
  OBVIOUS
<1>4. w = EncodeInteger(major, arg)
  <2>1. \A m : EncodeItem(Integer(m), depth, write)
                     = IF m >= 0 THEN EncodeInteger(0, m) ELSE EncodeInteger(1, -1 - m)
    BY EncodedByKind, Zenon
  <2>2. w = IF n >= 0 THEN EncodeInteger(0, n) ELSE EncodeInteger(1, -1 - n)
    BY <2>1
  <2>. HIDE DEF w
  <2>. QED  BY <2>2
<1>5. IsOk(w)
  OBVIOUS
<1>. HIDE DEF major, arg, w
<1>6. arg <= MaxArg /\ w = Written(c)
  <2>1. ~(arg > MaxArg)
    BY <1>4, <1>5, Results DEF EncodeInteger
  <2>. QED  BY <1>1, <1>4, <2>1, LargestType, BaseType DEF EncodeInteger
<1>7. c \in Seq(Byte)
  BY <1>1, <1>6, HeadType
<1>. HIDE DEF c
<1>8. w.value = c /\ IsWritten(w)
  BY <1>5, <1>6, <1>7, Results DEF Written, IsWritten
<1>9. ASSUME NEW p, Holds(s, p, c)
      PROVE  ItemFrom(s, p, depth, item) = Read(Integer(n), p + Len(c))
  <2>1. HeadRead(s, p, major, arg)
    BY <1>1, <1>6, <1>9, HeadBack DEF c
  <2>. DEFINE at == p + Len(c)
  <2>2. at = p + Len(EncodeHead(major, arg))
    BY DEF c
  <2>. HIDE DEF at
  <2>5. ItemFrom(s, p, depth, item) = AfterHead(s, major, arg, at, item)
    <3>1. GoesOn(s, p, depth, item, major, arg, at)
      BY <1>1, <2>1, <2>2, FromHead
    <3>. QED  BY <3>1 DEF GoesOn
  <2>3. AfterHead(s, major, arg, at, item) = Read(Integer(n), at)
    <3>1. CASE major = 0
      BY <1>2, <3>1 DEF AfterHead
    <3>2. CASE major = 1
      BY <1>2, <3>2 DEF AfterHead
    <3>. QED  BY <1>3, <3>1, <3>2
  <2>. QED  BY <2>5, <2>3 DEF at
<1>. QED  BY <1>8, <1>9 DEF IsBack, w

\* Byte strings and texts.
LEMMA StringItemBack ==
  ASSUME NEW s \in Seq(Byte), Len(s) <= MaxArg, NEW depth \in Nat, depth <= MaxDepth, NEW item,
         NEW b \in Seq(Byte), Len(b) <= MaxArg, NEW major \in {2, 3}, major = 3 => NotUtf8 \notin ToSet(b)
  PROVE  IsBack(s, depth, item, EncodeString(major, b), IF major = 2 THEN Bytes(b) ELSE Text(b))
<1>. DEFINE w == EncodeString(major, b)  y == IF major = 2 THEN Bytes(b) ELSE Text(b)
<1>1. major \in 0 .. 6
  OBVIOUS
<1>2. w = Written(w.value) /\ w.value \in Seq(Byte)
  BY <1>1, StringType
<1>3. IsWritten(w)
  <2>. HIDE DEF w
  <2>1. IsOk(Written(w.value))
    BY Results DEF Written
  <2>2. IsOk(w)
    <3>. DEFINE x == Written(w.value)
    <3>. HIDE DEF x
    <3>1. w = x /\ IsOk(x)
      BY <1>2, <2>1 DEF x
    <3>. QED  BY <3>1
  <2>. QED  BY <1>2, <2>2 DEF IsWritten
<1>4. ASSUME NEW p, Holds(s, p, w.value)
      PROVE  ItemFrom(s, p, depth, item) = Read(y, p + Len(w.value))
  <2>. DEFINE at == p + Len(EncodeHead(major, Len(b)))  q == p + Len(w.value)  t == Take(s, at, Len(b))
  <2>1. StringRead(s, p, major, b, q)
    BY <1>1, <1>4, StringBack
  <2>2. HeadRead(s, p, major, Len(b)) /\ t = Read(b, q)
    BY <2>1 DEF StringRead
  <2>3. ItemFrom(s, p, depth, item) = AfterHead(s, major, Len(b), at, item)
    <3>1. at = p + Len(EncodeHead(major, Len(b)))
      OBVIOUS
    <3>. HIDE DEF at
    <3>2. GoesOn(s, p, depth, item, major, Len(b), at)
      BY <1>1, <2>2, <3>1, FromHead
    <3>. QED  BY <3>2 DEF GoesOn
  <2>4. AfterHead(s, major, Len(b), at, item) = IF major = 2 THEN As(t, Bytes) ELSE As(Utf8(t), Text)
    <3>. HIDE DEF at
    <3>1. CASE major = 2
      BY <3>1 DEF AfterHead
    <3>2. CASE major = 3
      BY <3>2 DEF AfterHead
    <3>. QED  BY <3>1, <3>2
  <2>. HIDE DEF t, at, q
  <2>5. IsOk(t) /\ t.value = b /\ t.pos = q
    BY <2>2, Results
  <2>6. major = 3 => Utf8(t) = t
    BY <2>5 DEF Utf8, Then
  <2>7. ItemFrom(s, p, depth, item) = IF major = 2 THEN As(t, Bytes) ELSE As(t, Text)
    BY <2>3, <2>4, <2>6
  <2>8. As(t, Bytes) = Read(Bytes(b), q) /\ As(t, Text) = Read(Text(b), q)
    BY <2>5 DEF As, Then
  <2>. QED  BY <2>7, <2>8 DEF q
<1>. QED  BY <1>3, <1>4 DEF IsBack

LEMMA StringWritten ==
  ASSUME NEW major \in 0 .. 6, NEW b \in Seq(Byte), Len(b) <= MaxArg
  PROVE  IsWritten(EncodeString(major, b))
<1>. DEFINE w == EncodeString(major, b)  x == Written(w.value)
<1>1. w = x /\ w.value \in Seq(Byte)
  BY StringType
<1>2. IsOk(x)
  BY Results DEF Written
<1>. HIDE DEF w, x
<1>3. IsOk(w) /\ w = x
  BY <1>1, <1>2
<1>. QED  BY <1>1, <1>3 DEF IsWritten, w, x

\* The bytes of a link, after a zero.
IsRaw(raw, c) ==
  /\ raw \in Seq(Byte) /\ Len(raw) <= MaxArg
  /\ raw # << >> /\ raw[1] = 0 /\ Tail(raw) = c

LEMMA RawOf ==
  ASSUME NEW c \in Seq(Byte), Len(c) < MaxArg
  PROVE  IsRaw(<< 0 >> \o c, c)
<1>. DEFINE raw == << 0 >> \o c
<1>1. 0 \in Byte /\ MaxArg \in Nat /\ Len(c) \in Nat
  BY LargestType, BaseType, BytesType DEF Byte
<1>2. << 0 >> \in Seq(Byte) /\ Len(<< 0 >>) = 1 /\ << 0 >>[1] = 0
  BY <1>1
<1>. DEFINE a == << 0 >>
<1>3. a \in Seq(Byte) /\ Len(a) = 1 /\ a[1] = 0 /\ raw = a \o c
  BY <1>2
<1>. HIDE DEF a, raw
<1>4. raw \in Seq(Byte) /\ IsConcat(raw, a, c)
  BY <1>3, ConcatType
<1>5. /\ Len(raw) = 1 + Len(c) /\ raw[1] = 0
      /\ \A k \in 1 .. Len(c) : raw[1 + k] = c[k]
  <2>1. /\ Len(raw) = Len(a) + Len(c) /\ \A k \in 1 .. Len(a) : raw[k] = a[k]
        /\ \A k \in 1 .. Len(c) : raw[Len(a) + k] = c[k]
    BY <1>4 DEF IsConcat
  <2>2. 1 \in 1 .. Len(a)
    BY <1>3
  <2>. QED  BY <1>3, <2>1, <2>2
<1>6. raw # << >> /\ Len(raw) <= MaxArg
  BY <1>1, <1>5
<1>. DEFINE t == Tail(raw)
<1>7. t \in Seq(Byte) /\ Len(t) = Len(raw) - 1 /\ \A k \in 1 .. Len(raw) - 1 : t[k] = raw[k + 1]
  BY <1>4, <1>6
<1>. HIDE DEF t
<1>8. Len(t) = Len(c) /\ \A k \in 1 .. Len(t) : t[k] = c[k]
  <2>1. Len(t) = Len(c)
    BY <1>1, <1>5, <1>7
  <2>2. ASSUME NEW k \in 1 .. Len(t) PROVE t[k] = c[k]
    <3>1. k \in 1 .. Len(c) /\ k \in 1 .. Len(raw) - 1 /\ k + 1 = 1 + k
      BY <1>7, <2>1
    <3>. QED  BY <1>5, <1>7, <3>1
  <2>. QED  BY <2>1, <2>2
<1>9. t = c
  BY <1>7, <1>8, SameSequence
<1>. QED  BY <1>4, <1>5, <1>6, <1>9 DEF IsRaw, t, raw, a

LEMMA LinkBack ==
  ASSUME NEW s \in Seq(Byte), Len(s) <= MaxArg, NEW depth \in Nat, depth <= MaxDepth, NEW item, NEW write,
         NEW c \in Cids, Len(c) < MaxArg, IsOk(EncodeItem(Link(c), depth, write))
  PROVE  IsBack(s, depth, item, EncodeItem(Link(c), depth, write), Link(c))
<1>. DEFINE h == EncodeHead(6, CidTag)  raw == << 0 >> \o c  a == Written(h)  b == EncodeString(2, raw)
            w == EncodeItem(Link(c), depth, write)
<1>1. c \in Seq(Byte)
  BY WireAssumption
<1>2. IsRaw(raw, c)
  BY <1>1, RawOf
<1>3. w = Joined(<< a, b >>)
  <2>1. \A x : EncodeItem(Link(x), depth, write)
                     = Joined(<< Written(EncodeHead(6, CidTag)), EncodeString(2, << 0 >> \o x) >>)
    BY EncodedByKind, Zenon
  <2>. QED  BY <2>1
<1>4. IsOk(w) /\ CidTag \in Nat /\ CidTag <= MaxArg /\ 6 \in 0 .. 6 /\ 6 \in 0 .. 7 /\ 2 \in 0 .. 6
  BY BaseType, WireAssumption
<1>. HIDE DEF raw, w
<1>5. h \in Seq(Byte)
  BY <1>4, HeadType
<1>6. IsWritten(b) /\ raw \in Seq(Byte) /\ Len(raw) <= MaxArg
  BY <1>2, <1>4, StringWritten DEF IsRaw
<1>. HIDE DEF h, b
<1>7. IsWritten(a) /\ a.value = h
  BY <1>5, Results DEF Written, IsWritten
<1>. HIDE DEF a
<1>8. IsPair(w, a, b)
  BY <1>3, <1>4, <1>6, <1>7, PairInTurn
<1>9. ASSUME NEW p, Holds(s, p, w.value)
      PROVE  ItemFrom(s, p, depth, item) = Read(Link(c), p + Len(w.value))
  <2>. DEFINE at == p + Len(h)  q == p + Len(w.value)  t == StringAt(s, at, 2)  u == Renamed(t, "UnexpectedType", "InvalidCid")
  <2>1. Holds(s, p, h) /\ Holds(s, at, b.value) /\ q = at + Len(b.value)
    BY <1>7, <1>8, <1>9 DEF IsPair
  <2>2. HeadRead(s, p, 6, CidTag)
    BY <1>4, <2>1, HeadBack DEF h
  <2>3. at = p + Len(EncodeHead(6, CidTag))
    BY DEF h
  <2>. HIDE DEF at, q
  <2>4. GoesOn(s, p, depth, item, 6, CidTag, at)
    BY <1>4, <2>2, <2>3, FromHead
  <2>5. StringRead(s, at, 2, raw, at + Len(b.value))
    BY <1>4, <1>6, <2>1, StringBack DEF b
  <2>6. t = Read(raw, q)
    BY <2>1, <2>5, StringAtBack
  <2>7. LinkAt(s, at, CidTag) = Then(u, LAMBDA raw1, at1 :
              IF raw1 # << >> /\ raw1[1] = 0 /\ IsCid(Tail(raw1))
              THEN Read(Link(CidIn(Tail(raw1))), at1)
              ELSE Fail("InvalidCid"))
    BY DEF LinkAt
  <2>. HIDE DEF t
  <2>8. u = t
    <3>1. t.error = "Ok"
      BY <2>6 DEF Read
    <3>. QED  BY <3>1 DEF Renamed
  <2>. HIDE DEF u
  <2>9. IsOk(u) /\ u.value = raw /\ u.pos = q
    BY <2>6, <2>8, Results
  <2>10. LinkAt(s, at, CidTag) = IF raw # << >> /\ raw[1] = 0 /\ IsCid(Tail(raw))
                                 THEN Read(Link(CidIn(Tail(raw))), q) ELSE Fail("InvalidCid")
    BY <2>7, <2>9 DEF Then
  <2>11. IsCid(c) /\ CidIn(c) = c
    <3>1. IsPrefix(c, c)
      BY <1>1, PrefixIsPointwise
    <3>2. CidIn(c) \in Cids /\ IsPrefix(CidIn(c), c)
      BY <3>1, Zenon DEF CidIn
    <3>3. CidIn(c) = c
      BY <3>2, CborAssumption
    <3>. QED  BY <3>1, <3>3 DEF IsCid
  <2>12. LinkAt(s, at, CidTag) = Read(Link(c), q)
    BY <1>2, <2>10, <2>11 DEF IsRaw
  <2>13. ItemFrom(s, p, depth, item) = LinkAt(s, at, CidTag)
    BY <2>4 DEF GoesOn, AfterHead
  <2>. QED  BY <2>12, <2>13 DEF q
<1>. QED  BY <1>8, <1>9 DEF IsBack, IsPair, w

\* What is nested is written as bytes, or not at all, and is read back as plain.
WellWritten(D, write) == \A x \in D : IsOk(write[x]) => IsWritten(write[x])
Returned(s, item, D, write, plain) ==
  \A x \in D : \A p : IsOk(write[x]) /\ Holds(s, p, write[x].value) =>
    item[p] = Read(plain[x], p + Len(write[x].value))

LEMMA ListBack ==
  ASSUME NEW s \in Seq(Byte), Len(s) <= MaxArg, NEW depth \in Nat, depth <= MaxDepth, NEW item,
         NEW D, NEW write, WellWritten(D, write), NEW plain, Returned(s, item, D, write, plain),
         NEW n \in 0 .. MaxArg, NEW v, Len(v) = n, DOMAIN v = 1 .. n, \A k \in 1 .. n : v[k] \in D,
         IsOk(EncodeItem(List(v), depth, write))
  PROVE  IsBack(s, depth, item, EncodeItem(List(v), depth, write), List([k \in DOMAIN v |-> plain[v[k]]]))
<1>. DEFINE h == EncodeHead(4, n)  rest == EncodeItems(v, write)  w == EncodeItem(List(v), depth, write)
            out == [k \in DOMAIN v |-> plain[v[k]]]
<1>1. w = Joined(<< Written(h) >> \o rest)
  <2>1. \A x : EncodeItem(List(x), depth, write)
                     = Joined(<< Written(EncodeHead(4, Len(x))) >> \o EncodeItems(x, write))
    BY EncodedByKind, Zenon
  <2>. QED  BY <2>1
<1>2. IsOk(w) /\ n \in Nat /\ n <= MaxArg /\ 4 \in 0 .. 6 /\ 4 \in 0 .. 7
  BY LargestType, BaseType
<1>. HIDE DEF w
<1>3. h \in Seq(Byte)
  BY <1>2, HeadType
<1>4. rest = [k \in 1 .. n |-> write[v[k]]]
  BY DEF EncodeItems
<1>5. rest = [k \in 1 .. n |-> rest[k]] /\ \A k \in 1 .. n : rest[k] = write[v[k]]
  BY <1>4
<1>. HIDE DEF rest, h
<1>6. \A k \in 1 .. n : IsOk(rest[k]) => IsWritten(rest[k])
  BY <1>5 DEF WellWritten
<1>7. IsHeaded(w, h, rest, n)
  <2>1. IsOk(Joined(<< Written(h) >> \o rest))
    BY <1>1, <1>2
  <2>2. IsHeaded(Joined(<< Written(h) >> \o rest), h, rest, n)
    BY <1>2, <1>3, <1>5, <1>6, <2>1, HeadInTurn
  <2>. QED  BY <1>1, <2>2
<1>8. ASSUME NEW p, Holds(s, p, w.value)
      PROVE  ItemFrom(s, p, depth, item) = Read(List(out), p + Len(w.value))
  <2>. DEFINE at == p + Len(h)  end == p + Len(w.value)
  <2>1. Holds(s, p, h) /\ \E q : RestHeld(s, at, end, rest, n, q)
    BY <1>7, <1>8 DEF IsHeaded
  <2>2. PICK q : RestHeld(s, at, end, rest, n, q)
    BY <2>1
  <2>3. HeadRead(s, p, 4, n)
    BY <1>2, <2>1, HeadBack DEF h
  <2>4. at = p + Len(EncodeHead(4, n))
    BY DEF h
  <2>. HIDE DEF at, end
  <2>5. GoesOn(s, p, depth, item, 4, n, at)
    BY <1>2, <2>3, <2>4, FromHead
  <2>6. ItemFrom(s, p, depth, item) = As(Items(s, at, n, item), List)
    BY <2>5 DEF GoesOn, AfterHead
  <2>7. q[0] = at /\ q[n] = end /\ \A k \in 1 .. n : PartHeld(s, q, rest, k)
    BY <2>2 DEF RestHeld
  <2>8. ASSUME NEW k \in 1 .. n PROVE item[q[k - 1]] = Read(out[k], q[k])
    <3>. DEFINE i == q[k - 1]  x == v[k]
    <3>1. Holds(s, i, rest[k].value) /\ q[k] = i + Len(rest[k].value)
      BY <2>7 DEF PartHeld
    <3>2. IsOk(rest[k]) /\ rest[k] = write[x] /\ x \in D
      BY <1>5, <1>7 DEF IsHeaded, IsWritten
    <3>. HIDE DEF i
    <3>3. item[i] = Read(plain[x], q[k])
      BY <3>1, <3>2 DEF Returned
    <3>. QED  BY <3>3 DEF i
  <2>9. ReadsOn(item, q, n, out)
    BY <2>8 DEF ReadsOn
  <2>10. out = [j \in 1 .. n |-> out[j]]
    OBVIOUS
  <2>. HIDE DEF out
  <2>. DEFINE r == Items(s, at, n, item)
  <2>11. r = Read(out, end)
    <3>1. ItemsAre(s, q, n, item, out)
      BY <1>2, <2>9, ItemsBack
    <3>. QED  BY <2>7, <2>10, <3>1 DEF ItemsAre
  <2>. HIDE DEF r
  <2>12. As(r, List) = Read(List(out), end)
    BY <2>11, Results DEF As, Then
  <2>. QED  BY <2>6, <2>12 DEF r, end
<1>. QED  BY <1>7, <1>8 DEF IsBack, IsHeaded, w

LEMMA MapBack ==
  ASSUME NEW s \in Seq(Byte), Len(s) <= MaxArg, NEW depth \in Nat, depth <= MaxDepth, NEW item,
         NEW D, NEW write, WellWritten(D, write), NEW plain, Returned(s, item, D, write, plain),
         NEW of, IsFiniteSet(DOMAIN of), Cardinality(DOMAIN of) <= MaxArg,
         \A key \in DOMAIN of : IsText(key) /\ of[key] \in D,
         IsOk(EncodeItem(Map(of), depth, write))
  PROVE  IsBack(s, depth, item, EncodeItem(Map(of), depth, write), Map([key \in DOMAIN of |-> plain[of[key]]]))
<1>. DEFINE n == Cardinality(DOMAIN of)  h == EncodeHead(5, n)
            keys == KeysOf(of)  rest == EncodeEntries(keys, of, write)
            w == EncodeItem(Map(of), depth, write)  out == [key \in DOMAIN of |-> plain[of[key]]]
<1>1. w = Joined(<< Written(h) >> \o rest)
  <2>1. \A x : EncodeItem(Map(x), depth, write)
                     = Joined(<< Written(EncodeHead(5, Cardinality(DOMAIN x))) >>
                              \o EncodeEntries(KeysOf(x), x, write))
    BY EncodedByKind, Zenon
  <2>. QED  BY <2>1
<1>2. IsOk(w) /\ n \in Nat /\ n <= MaxArg /\ 5 \in 0 .. 6 /\ 5 \in 0 .. 7
  BY FS_CardinalityType
<1>3. DOMAIN of \subseteq Strings
  BY DEF IsText, Strings
<1>. HIDE DEF w, n
<1>4. PICK ks : Increasing(ks, n) /\ FirstOf(ks, n) = DOMAIN of
  BY <1>2, <1>3, KeysInLine DEF n
<1>5. KeysOf(of) = [k \in 1 .. n |-> ks[k]]
  BY <1>2, <1>4, KeysInOrder
<1>6. \A k \in 1 .. n : ks[k] \in DOMAIN of /\ IsText(ks[k]) /\ of[ks[k]] \in D
  <2>1. \A k \in 1 .. n : ks[k] \in DOMAIN of
    BY <1>4 DEF FirstOf
  <2>. QED  BY <2>1
<1>7. rest = [k \in 1 .. n |-> Joined(<< EncodeString(3, ks[k]), write[of[ks[k]]] >>)]
  <2>1. DOMAIN keys = 1 .. n /\ \A k \in 1 .. n : keys[k] = ks[k]
    BY <1>5
  <2>. HIDE DEF keys
  <2>2. rest = [k \in 1 .. n |-> Joined(<< EncodeString(3, keys[k]), write[of[keys[k]]] >>)]
    BY <2>1 DEF EncodeEntries
  <2>. QED  BY <2>1, <2>2
<1>8. /\ rest = [k \in 1 .. n |-> rest[k]]
      /\ \A k \in 1 .. n : rest[k] = Joined(<< EncodeString(3, ks[k]), write[of[ks[k]]] >>)
  BY <1>7
<1>. HIDE DEF rest
<1>9. h \in Seq(Byte)
  BY <1>2, HeadType
<1>. HIDE DEF h
<1>10. ASSUME NEW k \in 1 .. n, IsOk(rest[k])
       PROVE  IsPair(rest[k], EncodeString(3, ks[k]), write[of[ks[k]]])
  <2>. DEFINE a == EncodeString(3, ks[k])  b == write[of[ks[k]]]
  <2>1. IsWritten(a)
    <3>1. ks[k] \in Seq(Byte) /\ Len(ks[k]) <= MaxArg /\ 3 \in 0 .. 6
      BY <1>6 DEF IsText
    <3>. QED  BY <3>1, StringWritten
  <2>2. IsOk(b) => IsWritten(b)
    BY <1>6 DEF WellWritten
  <2>3. rest[k] = Joined(<< a, b >>)
    BY <1>8
  <2>. HIDE DEF a, b
  <2>4. IsPair(Joined(<< a, b >>), a, b)
    BY <1>10, <2>1, <2>2, <2>3, PairInTurn
  <2>. QED  BY <2>3, <2>4 DEF a, b
<1>11. IsHeaded(w, h, rest, n)
  <2>1. IsOk(Joined(<< Written(h) >> \o rest))
    BY <1>1, <1>2
  <2>2. \A k \in 1 .. n : IsOk(rest[k]) => IsWritten(rest[k])
    BY <1>10 DEF IsPair
  <2>3. IsHeaded(Joined(<< Written(h) >> \o rest), h, rest, n)
    BY <1>2, <1>8, <1>9, <2>1, <2>2, HeadInTurn
  <2>. QED  BY <1>1, <2>3
<1>12. ASSUME NEW p, Holds(s, p, w.value)
       PROVE  ItemFrom(s, p, depth, item) = Read(Map(out), p + Len(w.value))
  <2>. DEFINE at == p + Len(h)  end == p + Len(w.value)
  <2>1. Holds(s, p, h) /\ \E q : RestHeld(s, at, end, rest, n, q)
    BY <1>11, <1>12 DEF IsHeaded
  <2>2. PICK q : RestHeld(s, at, end, rest, n, q)
    BY <2>1
  <2>3. HeadRead(s, p, 5, n)
    BY <1>2, <2>1, HeadBack DEF h
  <2>4. at = p + Len(EncodeHead(5, n))
    BY DEF h
  <2>. HIDE DEF at, end
  <2>5. GoesOn(s, p, depth, item, 5, n, at)
    BY <1>2, <2>3, <2>4, FromHead
  <2>6. ItemFrom(s, p, depth, item) = As(Entries(s, at, n, item), Map)
    BY <2>5 DEF GoesOn, AfterHead
  <2>7. q[0] = at /\ q[n] = end /\ \A k \in 1 .. n : PartHeld(s, q, rest, k)
    BY <2>2 DEF RestHeld
  <2>8. ASSUME NEW k \in 1 .. n PROVE EntryStands(s, item, q[k - 1], q[k], ks[k], out[ks[k]])
    <3>. DEFINE i == q[k - 1]  key == ks[k]  x == of[ks[k]]  a == EncodeString(3, key)  b == write[x]
                m == i + Len(a.value)
    <3>1. Holds(s, i, rest[k].value) /\ q[k] = i + Len(rest[k].value)
      BY <2>7 DEF PartHeld
    <3>2. IsPair(rest[k], a, b)
      <4>1. IsOk(rest[k])
        BY <1>11 DEF IsHeaded, IsWritten
      <4>. QED  BY <1>10, <4>1
    <3>3. key \in Seq(Byte) /\ Len(key) <= MaxArg /\ x \in D /\ key \in DOMAIN of /\ 3 \in 0 .. 6
      BY <1>6 DEF IsText
    <3>4. out[key] = plain[x]
      BY <3>3
    <3>. HIDE DEF i, key, x, a, b
    <3>5. Holds(s, i, a.value) /\ Holds(s, m, b.value) /\ q[k] = m + Len(b.value) /\ IsOk(b)
      BY <3>1, <3>2 DEF IsPair, IsWritten
    <3>6. StringAt(s, i, 3) = Read(key, m)
      <4>1. StringRead(s, i, 3, key, i + Len(a.value))
        BY <3>3, <3>5, StringBack DEF a
      <4>. QED  BY <4>1, StringAtBack
    <3>. HIDE DEF m
    <3>7. item[m] = Read(plain[x], q[k])
      BY <3>3, <3>5 DEF Returned, b
    <3>. HIDE DEF out
    <3>8. EntryStands(s, item, i, q[k], key, out[key])
      BY <3>4, <3>6, <3>7 DEF EntryStands
    <3>. QED  BY <3>8 DEF i, key
  <2>9. \A k \in 1 .. n : NotUtf8 \notin ToSet(ks[k])
    BY <1>6 DEF IsText
  <2>10. out = [key \in FirstOf(ks, n) |-> out[key]]
    BY <1>4
  <2>. HIDE DEF out
  <2>. DEFINE r == Entries(s, at, n, item)
  <2>11. r = Read(out, end)
    <3>1. EntriesAre(s, q, n, item, ks, out)
      BY <1>2, <1>4, <2>8, <2>9, EntriesBack
    <3>. QED  BY <2>7, <2>10, <3>1 DEF EntriesAre
  <2>. HIDE DEF r
  <2>12. As(r, Map) = Read(Map(out), end)
    BY <2>11, Results DEF As, Then
  <2>. QED  BY <2>6, <2>12 DEF r, end
<1>. QED  BY <1>11, <1>12 DEF IsBack, IsHeaded, w

LEMMA UnsignedByKind ==
  ASSUME NEW plain
  PROVE  /\ \A n : UnsignedItem(Simple(n), plain) = Simple(n)
         /\ \A n : UnsignedItem(Integer(n), plain) = Integer(n)
         /\ \A b : UnsignedItem(Float(b), plain) = Float(FloatForm(b))
         /\ \A b : UnsignedItem(Bytes(b), plain) = Bytes(b)
         /\ \A b : UnsignedItem(Text(b), plain) = Text(b)
         /\ \A v : UnsignedItem(List(v), plain) = List([k \in DOMAIN v |-> plain[v[k]]])
         /\ \A of : UnsignedItem(Map(of), plain) = Map([key \in DOMAIN of |-> plain[of[key]]])
         /\ \A c : UnsignedItem(Link(c), plain) = Link(c)
<1>1. \A n : Simple(n).kind = "simple"
  BY DEF Simple
<1>2. \A n : Integer(n).kind = "integer"
  BY DEF Integer
<1>3. \A b : Float(b).kind = "float" /\ Float(b).bytes = b
  BY DEF Float
<1>4. \A b : Bytes(b).kind = "bytes"
  BY DEF Bytes
<1>5. \A b : Text(b).kind = "text"
  BY DEF Text
<1>6. \A v : List(v).kind = "list" /\ List(v).items = v
  BY DEF List
<1>7. \A of : Map(of).kind = "map" /\ Map(of).of = of
  BY DEF Map
<1>8. \A c : Link(c).kind = "link"
  BY DEF Link
<1>9. \A n : UnsignedItem(Simple(n), plain) = Simple(n)
  BY <1>1 DEF UnsignedItem
<1>10. \A n : UnsignedItem(Integer(n), plain) = Integer(n)
  BY <1>2 DEF UnsignedItem
<1>11. \A b : UnsignedItem(Float(b), plain) = Float(FloatForm(b))
  BY <1>3 DEF UnsignedItem
<1>12. \A b : UnsignedItem(Bytes(b), plain) = Bytes(b)
  BY <1>4 DEF UnsignedItem
<1>13. \A b : UnsignedItem(Text(b), plain) = Text(b)
  BY <1>5 DEF UnsignedItem
<1>14. \A v : UnsignedItem(List(v), plain) = List([k \in DOMAIN v |-> plain[v[k]]])
  BY <1>6 DEF UnsignedItem
<1>15. \A of : UnsignedItem(Map(of), plain) = Map([key \in DOMAIN of |-> plain[of[key]]])
  BY <1>7 DEF UnsignedItem
<1>16. \A c : UnsignedItem(Link(c), plain) = Link(c)
  BY <1>8 DEF UnsignedItem
<1>. QED  BY <1>9, <1>10, <1>11, <1>12, <1>13, <1>14, <1>15, <1>16

LEMMA ItemBack ==
  ASSUME NEW s \in Seq(Byte), Len(s) <= MaxArg, NEW depth \in Nat, depth <= MaxDepth, NEW item,
         NEW D, NEW write, WellWritten(D, write), NEW plain, Returned(s, item, D, write, plain),
         NEW x, IsNode(x), Parts(x) \subseteq D, IsOk(EncodeItem(x, depth, write))
  PROVE  IsBack(s, depth, item, EncodeItem(x, depth, write), UnsignedItem(x, plain))
<1>1. ASSUME NEW n \in {"false", "true", "null"}, x = Simple(n)
      PROVE  IsBack(s, depth, item, EncodeItem(x, depth, write), UnsignedItem(x, plain))
  <2>1. UnsignedItem(x, plain) = x
    BY <1>1, UnsignedByKind
  <2>2. IsBack(s, depth, item, EncodeItem(Simple(n), depth, write), Simple(n))
    BY SimpleBack
  <2>. QED  BY <1>1, <2>1, <2>2
<1>2. ASSUME NEW n \in Int, x = Integer(n)
      PROVE  IsBack(s, depth, item, EncodeItem(x, depth, write), UnsignedItem(x, plain))
  <2>1. UnsignedItem(x, plain) = x
    BY <1>2, UnsignedByKind
  <2>2. IsOk(EncodeItem(Integer(n), depth, write))
    BY <1>2
  <2>3. IsBack(s, depth, item, EncodeItem(Integer(n), depth, write), Integer(n))
    BY <2>2, NumberBack
  <2>. QED  BY <1>2, <2>1, <2>3
<1>3. ASSUME NEW b \in Seq(Byte), Len(b) = FloatBytes, x = Float(b)
      PROVE  IsBack(s, depth, item, EncodeItem(x, depth, write), UnsignedItem(x, plain))
  <2>1. UnsignedItem(x, plain) = Float(FloatForm(b))
    BY <1>3, UnsignedByKind
  <2>2. IsOk(EncodeItem(Float(b), depth, write))
    BY <1>3
  <2>3. IsBack(s, depth, item, EncodeItem(Float(b), depth, write), Float(FloatForm(b)))
    BY <1>3, <2>2, FloatBack
  <2>. QED  BY <1>3, <2>1, <2>3
<1>4. ASSUME NEW b \in Seq(Byte), Len(b) <= MaxArg, x = Bytes(b)
      PROVE  IsBack(s, depth, item, EncodeItem(x, depth, write), UnsignedItem(x, plain))
  <2>1. UnsignedItem(x, plain) = x
    BY <1>4, UnsignedByKind
  <2>. DEFINE major == 2
  <2>2. major \in {2, 3} /\ (major = 3 => NotUtf8 \notin ToSet(b)) /\ major = 2
    OBVIOUS
  <2>. HIDE DEF major
  <2>3. IsBack(s, depth, item, EncodeString(major, b), IF major = 2 THEN Bytes(b) ELSE Text(b))
    BY <1>4, <2>2, StringItemBack
  <2>4. \A a : EncodeItem(Bytes(a), depth, write) = EncodeString(2, a)
    BY EncodedByKind, Zenon
  <2>. QED  BY <1>4, <2>1, <2>2, <2>3, <2>4
<1>5. ASSUME NEW b, IsText(b), x = Text(b)
      PROVE  IsBack(s, depth, item, EncodeItem(x, depth, write), UnsignedItem(x, plain))
  <2>1. UnsignedItem(x, plain) = x
    BY <1>5, UnsignedByKind
  <2>. DEFINE major == 3
  <2>2. major \in {2, 3} /\ NotUtf8 \notin ToSet(b) /\ major = 3 /\ b \in Seq(Byte) /\ Len(b) <= MaxArg
    BY <1>5 DEF IsText
  <2>. HIDE DEF major
  <2>3. IsBack(s, depth, item, EncodeString(major, b), IF major = 2 THEN Bytes(b) ELSE Text(b))
    BY <2>2, StringItemBack
  <2>4. \A a : EncodeItem(Text(a), depth, write) = EncodeString(3, a)
    BY EncodedByKind, Zenon
  <2>. QED  BY <1>5, <2>1, <2>2, <2>3, <2>4
<1>6. ASSUME NEW v, NEW n \in 0 .. MaxArg, Len(v) = n, DOMAIN v = 1 .. n, x = List(v)
      PROVE  IsBack(s, depth, item, EncodeItem(x, depth, write), UnsignedItem(x, plain))
  <2>1. UnsignedItem(x, plain) = List([k \in DOMAIN v |-> plain[v[k]]])
    BY <1>6, UnsignedByKind
  <2>2. IsOk(EncodeItem(List(v), depth, write))
    BY <1>6
  <2>3. \A k \in 1 .. n : v[k] \in D
    BY <1>6, PartsByKind
  <2>4. IsBack(s, depth, item, EncodeItem(List(v), depth, write), List([k \in DOMAIN v |-> plain[v[k]]]))
    BY <1>6, <2>2, <2>3, ListBack
  <2>. QED  BY <1>6, <2>1, <2>4
<1>7. ASSUME NEW of, IsFiniteSet(DOMAIN of), Cardinality(DOMAIN of) <= MaxArg,
             \A key \in DOMAIN of : IsText(key), x = Map(of)
      PROVE  IsBack(s, depth, item, EncodeItem(x, depth, write), UnsignedItem(x, plain))
  <2>1. UnsignedItem(x, plain) = Map([key \in DOMAIN of |-> plain[of[key]]])
    BY <1>7, UnsignedByKind
  <2>2. IsOk(EncodeItem(Map(of), depth, write))
    BY <1>7
  <2>3. \A key \in DOMAIN of : IsText(key) /\ of[key] \in D
    BY <1>7, PartsByKind
  <2>4. IsBack(s, depth, item, EncodeItem(Map(of), depth, write), Map([key \in DOMAIN of |-> plain[of[key]]]))
    BY <1>7, <2>2, <2>3, MapBack
  <2>. QED  BY <1>7, <2>1, <2>4
<1>8. ASSUME NEW c \in Cids, Len(c) < MaxArg, x = Link(c)
      PROVE  IsBack(s, depth, item, EncodeItem(x, depth, write), UnsignedItem(x, plain))
  <2>1. UnsignedItem(x, plain) = x
    BY <1>8, UnsignedByKind
  <2>2. IsOk(EncodeItem(Link(c), depth, write))
    BY <1>8
  <2>3. IsBack(s, depth, item, EncodeItem(Link(c), depth, write), Link(c))
    BY <1>8, <2>2, LinkBack
  <2>. QED  BY <1>8, <2>1, <2>3
<1>9. ASSUME NEW n, NEW v, v = [k \in 1 .. n |-> v[k]] PROVE DOMAIN v = 1 .. n
  BY <1>9, Zenon
<1>10. CASE x.kind = "list"
  <2>1. x = List(x.items) /\ \E len \in 0 .. MaxArg : Len(x.items) = len /\ x.items = [k \in 1 .. len |-> x.items[k]]
    BY <1>10 DEF IsNode
  <2>. QED  BY <1>6, <1>9, <2>1
<1>. QED  BY <1>1, <1>2, <1>3, <1>4, <1>5, <1>7, <1>8, <1>10 DEF IsNode

----------------------------------------------------------------------------
(* Level by level, read back.                                              *)

PlainLevel(values, depth, next) ==
  [x \in values |-> IF depth > MaxDepth THEN x ELSE UnsignedItem(x, next)]
IsPlain(f, level, from) ==
  f = [depth \in from .. MaxDepth + 1 |-> PlainLevel(level[depth], depth, f[depth + 1])]

LEMMA PlainDeepest ==
  ASSUME NEW values, NEW a, NEW b
  PROVE  PlainLevel(values, MaxDepth + 1, a) = PlainLevel(values, MaxDepth + 1, b)
<1>1. MaxDepth + 1 > MaxDepth
  BY BaseType
<1>. QED  BY <1>1 DEF PlainLevel

LEMMA PlainAt ==
  ASSUME NEW level, NEW from \in 0 .. MaxDepth + 1, NEW f, IsPlain(f, level, from)
  PROVE  /\ DOMAIN f = from .. MaxDepth + 1
         /\ \A depth \in from .. MaxDepth + 1 : f[depth] = PlainLevel(level[depth], depth, f[depth + 1])
<1>. DEFINE g == [depth \in from .. MaxDepth + 1 |-> PlainLevel(level[depth], depth, f[depth + 1])]
<1>1. f = g
  BY DEF IsPlain
<1>2. DOMAIN g = from .. MaxDepth + 1
      /\ \A depth \in from .. MaxDepth + 1 : g[depth] = PlainLevel(level[depth], depth, f[depth + 1])
  OBVIOUS
<1>. HIDE DEF g
<1>. QED  BY <1>1, <1>2

LEMMA PlainExists ==
  ASSUME NEW level
  PROVE  \E f : IsPlain(f, level, 0)
<1>. DEFINE N == MaxDepth + 1
            S == {j \in 0 .. N : \E f : IsPlain(f, level, N - j)}
<1>1. N \in Nat
  BY BaseType
<1>2. 0 \in S
  <2>. DEFINE f == [depth \in N .. N |-> PlainLevel(level[depth], depth, 0)]
              g == [depth \in N .. N |-> PlainLevel(level[depth], depth, f[depth + 1])]
  <2>1. \A depth \in N .. N : depth = MaxDepth + 1
    BY <1>1
  <2>2. \A depth \in N .. N : PlainLevel(level[depth], depth, 0) = PlainLevel(level[depth], depth, f[depth + 1])
    BY <2>1, PlainDeepest
  <2>3. f = g
    BY <2>2
  <2>4. IsPlain(f, level, N)
    BY <2>3 DEF IsPlain
  <2>5. N - 0 = N
    BY <1>1
  <2>. HIDE DEF f, N
  <2>. QED  BY <1>1, <2>4, <2>5
<1>3. ASSUME NEW j \in 0 .. N - 1, j \in S PROVE j + 1 \in S
  <2>. DEFINE a == N - j  b == N - (j + 1)
  <2>1. PICK f : IsPlain(f, level, a)
    BY <1>3
  <2>2. a \in 0 .. N /\ b \in 0 .. N /\ b + 1 = a /\ a \in 1 .. N
    BY <1>1
  <2>. HIDE DEF a, b
  <2>. DEFINE g == [depth \in b .. N |-> PlainLevel(level[depth], depth, f[depth + 1])]
              h == [depth \in b .. N |-> PlainLevel(level[depth], depth, g[depth + 1])]
  <2>3. \A depth \in a .. N : f[depth] = PlainLevel(level[depth], depth, f[depth + 1])
    BY <2>1, <2>2, PlainAt
  <2>4. \A depth \in b .. N : /\ g[depth] = PlainLevel(level[depth], depth, f[depth + 1])
                              /\ h[depth] = PlainLevel(level[depth], depth, g[depth + 1])
    OBVIOUS
  <2>5. DOMAIN g = b .. N /\ DOMAIN h = b .. N /\ g = [depth \in DOMAIN g |-> g[depth]] /\ h = [depth \in DOMAIN h |-> h[depth]]
    OBVIOUS
  <2>6. IsPlain(g, level, b) <=> g = h
    BY Zenon DEF IsPlain
  <2>. HIDE DEF g, h
  <2>7. \A depth \in a .. N : g[depth] = f[depth]
    <3>. TAKE depth \in a .. N
    <3>1. depth \in b .. N
      BY <1>1, <2>2
    <3>. QED  BY <2>3, <2>4, <3>1
  <2>8. ASSUME NEW depth \in b .. N PROVE g[depth] = h[depth]
    <3>1. CASE depth = N
      BY <2>4, <3>1, PlainDeepest
    <3>2. CASE depth # N
      <4>1. depth + 1 \in a .. N
        BY <1>1, <2>2, <3>2
      <4>2. g[depth + 1] = f[depth + 1]
        BY <2>7, <4>1
      <4>. QED  BY <2>4, <4>2
    <3>. QED  BY <3>1, <3>2
  <2>9. g = h
    BY <2>5, <2>8
  <2>10. IsPlain(g, level, b)
    BY <2>6, <2>9
  <2>11. j + 1 \in 0 .. N
    BY <1>1
  <2>. QED  BY <2>10, <2>11 DEF b
<1>. HIDE DEF S
<1>4. 0 .. N \subseteq S
  <2>. HIDE DEF N
  <2>. QED  BY <1>1, <1>2, <1>3, InductionUpTo
<1>5. N \in S /\ N - N = 0
  BY <1>1, <1>4
<1>. QED  BY <1>5 DEF S

\* What is written at one depth is read back there, when it is so one deeper.
LevelIsBack(s, item, values, write, plain) ==
  WellWritten(values, write) /\ Returned(s, item, values, write, plain)

LEMMA LevelBack ==
  ASSUME NEW s \in Seq(Byte), Len(s) <= MaxArg, NEW depth \in Nat, NEW item,
         NEW D, NEW write, NEW plain, LevelIsBack(s, item, D, write, plain),
         NEW values, \A x \in values : IsNode(x) /\ Parts(x) \subseteq D
  PROVE  LevelIsBack(s, ReadLevel(s, depth, item), values,
                     WriteLevel(values, depth, write), PlainLevel(values, depth, plain))
<1>. DEFINE R == ReadLevel(s, depth, item)  W == WriteLevel(values, depth, write)  P == PlainLevel(values, depth, plain)
<1>1. \A p \in 0 .. Len(s) : R[p] = ItemFrom(s, p, depth, item)
  BY DEF ReadLevel
<1>2. \A x \in values : W[x] = EncodeItem(x, depth, write)
  BY DEF WriteLevel
<1>3. depth <= MaxDepth => \A x \in values : P[x] = UnsignedItem(x, plain)
  BY BaseType DEF PlainLevel
<1>. HIDE DEF R, W, P
<1>4. ASSUME NEW x \in values, IsOk(W[x]) PROVE depth <= MaxDepth /\ IsBack(s, depth, item, W[x], P[x])
  <2>1. depth <= MaxDepth
    <3>1. depth > MaxDepth => W[x] = Fail("NestingTooDeep")
      BY <1>2, Zenon DEF EncodeItem
    <3>2. W[x] # Fail("NestingTooDeep")
      BY <1>4, Results
    <3>. QED  BY <3>1, <3>2, BaseType
  <2>2. WellWritten(D, write) /\ Returned(s, item, D, write, plain) /\ IsNode(x) /\ Parts(x) \subseteq D
    BY DEF LevelIsBack
  <2>3. IsOk(EncodeItem(x, depth, write))
    BY <1>2, <1>4
  <2>4. IsBack(s, depth, item, EncodeItem(x, depth, write), UnsignedItem(x, plain))
    BY <2>1, <2>2, <2>3, ItemBack
  <2>. QED  BY <1>2, <1>3, <2>1, <2>4
<1>5. WellWritten(values, W)
  BY <1>4 DEF WellWritten, IsBack
<1>6. ASSUME NEW x \in values, NEW p, IsOk(W[x]), Holds(s, p, W[x].value)
      PROVE  R[p] = Read(P[x], p + Len(W[x].value))
  <2>1. IsBack(s, depth, item, W[x], P[x])
    BY <1>4, <1>6
  <2>2. ItemFrom(s, p, depth, item) = Read(P[x], p + Len(W[x].value)) /\ W[x].value \in Seq(Byte)
    BY <1>6, <2>1 DEF IsBack, IsWritten
  <2>. DEFINE b == W[x].value
  <2>3. b \in Seq(Byte) /\ Holds(s, p, b)
    BY <1>6, <2>2
  <2>. HIDE DEF b
  <2>4. p \in 0 .. Len(s)
    BY <2>3, HoldsShows
  <2>. QED  BY <1>1, <2>2, <2>4
<1>7. Returned(s, R, values, W, P)
  BY <1>6 DEF Returned
<1>. QED  BY <1>5, <1>7 DEF LevelIsBack, R, W, P

LEMMA LevelsBack ==
  ASSUME NEW s \in Seq(Byte), Len(s) <= MaxArg, NEW v, NEW R, IsReading(R, s, 0),
         NEW L, IsLevels(L, v, MaxDepth + 1), NEW W, IsWriting(W, L, 0), NEW P, IsPlain(P, L, 0),
         \A depth \in 0 .. MaxDepth + 1 : \A x \in L[depth] : IsNode(x)
  PROVE  \A depth \in 0 .. MaxDepth + 1 : LevelIsBack(s, R[depth], L[depth], W[depth], P[depth])
<1>. DEFINE N == MaxDepth + 1
            S == {j \in 0 .. N : LevelIsBack(s, R[N - j], L[N - j], W[N - j], P[N - j])}
<1>1. N \in Nat /\ 0 \in 0 .. N
  BY BaseType
<1>2. \A depth \in 0 .. N : R[depth] = ReadLevel(s, depth, R[depth + 1])
  BY <1>1, ReadingAt
<1>3. \A depth \in 0 .. N : W[depth] = WriteLevel(L[depth], depth, W[depth + 1])
  BY <1>1, WritingAt
<1>4. \A depth \in 0 .. N : P[depth] = PlainLevel(L[depth], depth, P[depth + 1])
  BY <1>1, PlainAt
<1>5. \A depth \in 1 .. N : L[depth] = UNION {Parts(x) : x \in L[depth - 1]}
  BY <1>1, LevelsAt
<1>6. 0 \in S
  <2>1. \A x \in L[N] : ~IsOk(W[N][x])
    <3>1. N > MaxDepth /\ N \in 0 .. N
      BY <1>1, BaseType
    <3>2. \A x, write : EncodeItem(x, N, write) = Fail("NestingTooDeep")
      BY <3>1, Zenon DEF EncodeItem
    <3>3. W[N] = WriteLevel(L[N], N, W[N + 1])
      BY <1>3, <3>1
    <3>. QED  BY <3>2, <3>3, Results DEF WriteLevel
  <2>2. LevelIsBack(s, R[N], L[N], W[N], P[N])
    BY <2>1 DEF LevelIsBack, WellWritten, Returned
  <2>3. N - 0 = N
    BY <1>1
  <2>. HIDE DEF N
  <2>. QED  BY <1>1, <2>2, <2>3
<1>7. ASSUME NEW j \in 0 .. N - 1, j \in S PROVE j + 1 \in S
  <2>. DEFINE a == N - j  b == N - (j + 1)
  <2>1. a \in 1 .. N /\ b \in 0 .. N /\ b + 1 = a /\ a - 1 = b /\ b \in Nat
    BY <1>1
  <2>2. LevelIsBack(s, R[a], L[a], W[a], P[a])
    BY <1>7
  <2>3. \A depth \in 0 .. N : \A x \in L[depth] : IsNode(x)
    OBVIOUS
  <2>. HIDE DEF a, b, N
  <2>4. \A x \in L[b] : IsNode(x) /\ Parts(x) \subseteq L[a]
    BY <1>5, <2>1, <2>3
  <2>5. R[b] = ReadLevel(s, b, R[a]) /\ W[b] = WriteLevel(L[b], b, W[a]) /\ P[b] = PlainLevel(L[b], b, P[a])
    BY <1>2, <1>3, <1>4, <2>1
  <2>6. LevelIsBack(s, R[b], L[b], W[b], P[b])
    BY <2>1, <2>2, <2>4, <2>5, LevelBack
  <2>7. j + 1 \in 0 .. N
    BY <1>1
  <2>. QED  BY <2>6, <2>7 DEF b
<1>8. 0 .. N \subseteq S
  <2>. HIDE DEF N, S
  <2>. QED  BY <1>1, <1>6, <1>7, InductionUpTo
<1>9. ASSUME NEW depth \in 0 .. N PROVE LevelIsBack(s, R[depth], L[depth], W[depth], P[depth])
  <2>. DEFINE j == N - depth
  <2>1. j \in 0 .. N /\ N - j = depth
    BY <1>1
  <2>. HIDE DEF j, N
  <2>2. j \in S
    BY <1>8, <2>1
  <2>. QED  BY <2>1, <2>2
<1>. QED  BY <1>9

LEMMA EncodedIsWritten ==
  ASSUME NEW v, IsValue(v), IsOk(Encode(v))
  PROVE  IsWritten(Encode(v))
<1>. DEFINE e == << >>
            L == CHOOSE f : IsLevels(f, v, MaxDepth + 1)
            W == CHOOSE f : IsWriting(f, L, 0)
            P == CHOOSE f : IsPlain(f, L, 0)
<1>1. Encode(v) = W[0][v]
  BY Zenon DEF Encode, LevelsOf, IsLevels, IsWriting, WriteLevel
<1>2. LevelsOf(v) = L
  BY Zenon DEF LevelsOf, IsLevels
<1>3. MaxDepth + 1 \in Nat /\ 0 \in 0 .. MaxDepth + 1
  BY BaseType
<1>4. IsLevels(L, v, MaxDepth + 1)
  BY <1>3, LevelsExist
<1>. HIDE DEF L
<1>5. IsWriting(W, L, 0) /\ IsPlain(P, L, 0)
  BY WritingExists, PlainExists
<1>. HIDE DEF W, P
<1>6. \A depth \in 0 .. MaxDepth + 1 : \A x \in L[depth] : IsNode(x)
  BY <1>2 DEF IsValue
<1>7. v \in L[0]
  BY <1>3, <1>4, LevelsAt
<1>8. e \in Seq(Byte) /\ Len(e) <= MaxArg
  BY LargestType, BaseType
<1>. HIDE DEF e
<1>9. PICK Q : IsReading(Q, e, 0)
  BY ReadingExists
<1>10. LevelIsBack(e, Q[0], L[0], W[0], P[0])
  BY <1>3, <1>4, <1>5, <1>6, <1>8, <1>9, LevelsBack
<1>. QED  BY <1>1, <1>7, <1>10 DEF LevelIsBack, WellWritten

LEMMA EncodedIsDecoded ==
  ASSUME NEW v, IsValue(v), IsOk(Encode(v)), NEW s, s = Encode(v).value, Len(s) <= MaxArg
  PROVE  s \in Seq(Byte) /\ Decode(s) = Read(Unsigned(v), Len(s))
<1>. DEFINE R == CHOOSE f : IsReading(f, s, 0)
            L == CHOOSE f : IsLevels(f, v, MaxDepth + 1)
            W == CHOOSE f : IsWriting(f, L, 0)
            P == CHOOSE f : IsPlain(f, L, 0)
            r == R[0][0]
<1>1. Item(s, 0, 0) = r
  BY Zenon DEF Item, IsReading, ReadLevel
<1>2. Encode(v) = W[0][v]
  BY Zenon DEF Encode, LevelsOf, IsLevels, IsWriting, WriteLevel
<1>3. Unsigned(v) = P[0][v]
  BY Zenon DEF Unsigned, LevelsOf, IsLevels, IsPlain, PlainLevel
<1>4. LevelsOf(v) = L
  BY Zenon DEF LevelsOf, IsLevels
<1>5. MaxDepth + 1 \in Nat /\ 0 \in 0 .. MaxDepth + 1
  BY BaseType
<1>6. IsReading(R, s, 0)
  BY ReadingExists
<1>7. IsLevels(L, v, MaxDepth + 1)
  BY <1>5, LevelsExist
<1>. HIDE DEF L
<1>8. IsWriting(W, L, 0) /\ IsPlain(P, L, 0)
  BY WritingExists, PlainExists
<1>. HIDE DEF R, W, P
<1>9. \A depth \in 0 .. MaxDepth + 1 : \A x \in L[depth] : IsNode(x)
  BY <1>4 DEF IsValue
<1>10. v \in L[0]
  BY <1>5, <1>7, LevelsAt
<1>11. IsWritten(W[0][v])
  BY <1>2, EncodedIsWritten
<1>12. s \in Seq(Byte) /\ IsOk(W[0][v]) /\ s = W[0][v].value
  BY <1>2, <1>11 DEF IsWritten
<1>13. LevelIsBack(s, R[0], L[0], W[0], P[0])
  BY <1>5, <1>6, <1>7, <1>8, <1>9, <1>12, LevelsBack
<1>14. Holds(s, 0, s)
  <2>1. 0 + Len(s) = Len(s)
    BY <1>12, BytesType
  <2>. QED  BY <1>12, <2>1, PartWhole DEF Holds
<1>15. r = Read(P[0][v], Len(s))
  <2>1. R[0][0] = Read(P[0][v], 0 + Len(s))
    BY <1>10, <1>12, <1>13, <1>14 DEF LevelIsBack, Returned
  <2>2. 0 + Len(s) = Len(s)
    BY <1>12, BytesType
  <2>. QED  BY <2>1, <2>2
<1>16. Decode(s) = Then(r, LAMBDA value, at : IF at = Len(s) THEN Read(value, at) ELSE Fail("TrailingBytes"))
  BY <1>1 DEF Decode
<1>. HIDE DEF r
<1>17. Decode(s) = Read(P[0][v], Len(s))
  BY <1>15, <1>16, Results DEF Then
<1>. QED  BY <1>3, <1>12, <1>17
=============================================================================
