-------------------------------- MODULE Ipld --------------------------------
(***************************************************************************)
(* Values a policy looks at, and when two of them are equal or one number  *)
(* is below another (src/policy/mod.rs).                                   *)
(*                                                                         *)
(* Floats are finite: the codecs refuse any other.  They are scaled down   *)
(* to a significand below Significand, and 1.0e38 to FloatLimit; a float   *)
(* is given by twice its value, which keeps the halves whole.              *)
(***************************************************************************)
EXTENDS Integers, Sequences

CONSTANTS
  Significand,  \* 2 ^ 53: floats hold the whole numbers up to it
  FloatLimit,   \* 1.0e38
  KeyOrder,     \* the keys of maps, in their order
  Values,       \* bound: the values looked at, with their parts
  Depth,        \* value -> how deep it is nested
  MaxDepth      \* how deep the codecs let a value be nested

Null == [kind |-> "null"]
Integer(n) == [kind |-> "integer", num |-> n]
Float(twice) == [kind |-> "float", num |-> twice]
Text(text) == [kind |-> "string", text |-> text]
Bytes(items) == [kind |-> "bytes", items |-> items]
List(items) == [kind |-> "list", items |-> items]
Map(of) == [kind |-> "map", of |-> of]

IsNumber(v) == v.kind \in {"integer", "float"}

----------------------------------------------------------------------------
Cmp(a, b) == IF a < b THEN "Less" ELSE IF a = b THEN "Equal" ELSE "Greater"

Reversed(order) ==
  CASE order = "Less" -> "Greater" [] order = "Greater" -> "Less" [] OTHER -> order

Magnitude(n) == IF n < 0 THEN -n ELSE n

\* The spacing of floats as large as m.
Spacing(m) ==
  LET unit[n \in 0 .. m] == IF n < Significand THEN 1 ELSE 2 * unit[n \div 2]
  IN  unit[m]

\* `i as f64`: the nearest float, and of two the one with the even significand.
Rounded(i) ==
  LET unit == Spacing(Magnitude(i))
      below == Magnitude(i) \div unit
      rest == 2 * (Magnitude(i) % unit)
      up == rest > unit \/ (rest = unit /\ below % 2 = 1)
      size == unit * (IF up THEN below + 1 ELSE below)
  IN  IF i < 0 THEN -size ELSE size

\* Mutant: integers are compared as floats throughout.
IntFloatRounding(i, twice) == Cmp(2 * Rounded(i), twice)

\* int_float: exact where the float is integral and within the limit.
IntFloat(i, twice) ==
  IF Magnitude(twice) < 2 * FloatLimit /\ twice % 2 = 0
  THEN Cmp(2 * i, twice)
  ELSE Cmp(2 * Rounded(i), twice)

\* Number::partial_cmp.
Order(x, y) ==
  CASE x.kind = y.kind -> Cmp(x.num, y.num)
    [] x.kind = "integer" /\ y.kind = "float" -> IntFloat(x.num, y.num)
    [] x.kind = "float" /\ y.kind = "integer" -> Reversed(IntFloat(y.num, x.num))

----------------------------------------------------------------------------
(* What the codecs let through: integers of 64 bits, far below 1.0e38, and *)
(* floats, of which those that are not whole have a significand to spare.  *)

IsInteger(v) ==
  /\ v.kind = "integer" /\ v = Integer(v.num)
  /\ v.num \in Int /\ 2 * Magnitude(v.num) < FloatLimit

IsFloat(v) ==
  /\ v.kind = "float" /\ v = Float(v.num)
  /\ v.num \in Int
  /\ v.num % 2 = 1 => Magnitude(v.num) < Significand

IsText(v) == v.kind = "string" /\ v = Text(v.text)

IsList(v) == v.kind = "list" /\ v = List(v.items) /\ v.items \in Seq(Values)

\* Each byte is also a number that a selector can find.
IsBytes(v) ==
  /\ v.kind = "bytes" /\ v = Bytes(v.items)
  /\ v.items \in Seq({n \in Nat : Integer(n) \in Values})

IsMap(v) ==
  /\ v.kind = "map" /\ v = Map(v.of)
  /\ DOMAIN v.of \subseteq {KeyOrder[n] : n \in DOMAIN KeyOrder}
  /\ v.of \in [DOMAIN v.of -> Values]

IsValue(v) ==
  \/ v = Null \/ IsInteger(v) \/ IsFloat(v) \/ IsText(v)
  \/ IsBytes(v) \/ IsList(v) \/ IsMap(v)

Parts(v) ==
  CASE v.kind = "list" -> {v.items[k] : k \in DOMAIN v.items}
    [] v.kind = "map" -> {v.of[k] : k \in DOMAIN v.of}
    [] OTHER -> {}

ASSUME IpldAssumption ==
  /\ Significand \in Nat \ {0} /\ Significand % 2 = 0
  /\ FloatLimit \in Nat
  /\ KeyOrder \in Seq({KeyOrder[n] : n \in DOMAIN KeyOrder})

ASSUME ValuesAssumption ==
  /\ MaxDepth \in Nat
  /\ Depth \in [Values -> 0 .. MaxDepth]
  /\ Null \in Values
  /\ \A v \in Values : IsValue(v) /\ \A p \in Parts(v) : Depth[p] < Depth[v]

----------------------------------------------------------------------------
\* Mutant: a map equals one that has its entries and more.
AlikeOpen(a, b, same) ==
  IF IsNumber(a) /\ IsNumber(b) THEN Order(a, b) = "Equal"
  ELSE IF a.kind = "list" /\ b.kind = "list"
  THEN Len(a.items) = Len(b.items) /\ \A k \in DOMAIN a.items : same[<<a.items[k], b.items[k]>>]
  ELSE IF a.kind = "map" /\ b.kind = "map"
  THEN \A k \in DOMAIN a.of : k \in DOMAIN b.of /\ same[<<a.of[k], b.of[k]>>]
  ELSE a = b

\* equal, where same is what it says of the parts: numbers compare by value.
Alike(a, b, same) ==
  IF IsNumber(a) /\ IsNumber(b) THEN Order(a, b) = "Equal"
  ELSE IF a.kind = "list" /\ b.kind = "list"
  THEN Len(a.items) = Len(b.items) /\ \A k \in DOMAIN a.items : same[<<a.items[k], b.items[k]>>]
  ELSE IF a.kind = "map" /\ b.kind = "map"
  THEN DOMAIN a.of = DOMAIN b.of /\ \A k \in DOMAIN a.of : same[<<a.of[k], b.of[k]>>]
  ELSE a = b

Same[pair \in Values \X Values] == Alike(pair[1], pair[2], Same)

\* Of values and of the lists that selectors make of them.
Equal(a, b) == Alike(a, b, Same)
=============================================================================
