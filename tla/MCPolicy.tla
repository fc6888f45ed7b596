------------------------------ MODULE MCPolicy ------------------------------
(***************************************************************************)
(* Every statement of a few selectors and operands, nested once and        *)
(* misshapen in each way, on arguments with numbers at the edge of what a  *)
(* float holds, short lists and byte strings, and maps.                    *)
(***************************************************************************)
EXTENDS PolicyEval, FiniteSetsExt

Key(key) == [kind |-> "key", key |-> key, optional |-> FALSE]
Optional(segment) == [segment EXCEPT !.optional = TRUE]
AllValues == [kind |-> "values", optional |-> FALSE]
At(at) == [kind |-> "index", at |-> at, optional |-> FALSE]
Slice(from, to) == [kind |-> "slice", from |-> from, to |-> to, optional |-> FALSE]

MCKeyOrder == <<"m", "n", "xs">>

MCSelectorOf ==
  [sel \in {".", ".n", ".xs", ".xs[1:]", ".xs[]", ".xs[-1]?", ".m", ".m[]", ".m.n", ".m?.n",
            ".n?.m.n"} |->
     CASE sel = "." -> << >>
       [] sel = ".n" -> <<Key("n")>>
       [] sel = ".xs" -> <<Key("xs")>>
       [] sel = ".xs[1:]" -> <<Key("xs"), Slice(1, None)>>
       [] sel = ".xs[]" -> <<Key("xs"), AllValues>>
       [] sel = ".xs[-1]?" -> <<Key("xs"), Optional(At(-1))>>
       [] sel = ".m" -> <<Key("m")>>
       [] sel = ".m[]" -> <<Key("m"), AllValues>>
       [] sel = ".m.n" -> <<Key("m"), Key("n")>>
       [] sel = ".m?.n" -> <<Optional(Key("m")), Key("n")>>
       [] sel = ".n?.m.n" -> <<Key("n"), Optional(Key("m")), Key("n")>>]

MCMatchesOf == [p \in {"s*"} |-> {"s", "st"}]

\* With three bits, 9, 11 and 13 lie between two floats.
Integers9 == {Integer(i) : i \in {-16, -9, -1, 0, 1, 8, 9, 11, 15}}
Floats == {Float(f) : f \in {-80, -40, -16, -1, 0, 1, 2, 16, 20, 28, 40, 80}}
MCNumbers == Integers9 \cup Floats

One == Integer(1)
MapOf(n) == Map([k \in {"n"} |-> n])
Args(n, xs, m) == Map([k \in {"n", "xs", "m"} |-> CASE k = "n" -> n [] k = "xs" -> xs [] OTHER -> m])

MCArguments ==
  {Args(n, List(<<One>>), Null) : n \in MCNumbers \cup {Null, Text("s")}}
    \cup {Args(One, xs, Null) : xs \in {List(<< >>), List(<<Float(2)>>), List(<<One, Integer(9), Float(16)>>),
                                        List(<<One, Float(20), Integer(8)>>),
                                        Bytes(<< >>), Bytes(<<1>>), Bytes(<<9, 1, 8>>), Text("st")}}
    \cup {Args(One, Null, m) : m \in {Map(<< >>), MapOf(One), MapOf(Float(2)), MapOf(MapOf(One)),
                                      Map([k \in {"m", "n"} |-> One]), List(<<One, Integer(9)>>)}}
    \cup {Map(<< >>), MapOf(One)}

MCPositions == {-4, -3, -2, -1, 0, 1, 2, 3, 4}

----------------------------------------------------------------------------
Three(op, sel, v) == List(<<Text(op), Text(sel), v>>)
Two(op, v) == List(<<Text(op), v>>)
Good == DOMAIN MCSelectorOf

LeafForms ==
  {Three(op, sel, v) : op \in Equalities, sel \in Good,
                       v \in {One, Integer(8), Null, List(<<One>>), MapOf(One)}}
    \cup {Three(op, sel, v) : op \in Comparisons, sel \in Good, v \in {Integer(9), Float(16)}}
    \cup {Three("like", sel, Text("s*")) : sel \in Good}

Inner == {Three("==", ".", One), Three("<", ".", Integer(9)), Three("!=", ".n", One),
          Three("any", ".", Three("<", ".", Float(16)))}
Nested ==
  {Three(op, sel, st) : op \in Quantifiers, sel \in Good, st \in Inner}
    \cup {Two("not", st) : st \in Inner}
    \cup {Two(op, List(sts)) : op \in Connectives, sts \in {<< >>} \cup (Inner \X Inner)}

Misshapen ==
  {One, List(<< >>), List(<<One>>), List(<<Text("==")>>), Two("==", Text(".n")),
   List(<<Text("=="), Text(".n"), One, One>>), Three("is", ".n", One), Three("==", "x", One),
   List(<<Text("<"), One, One>>), Three("<", ".n", Text("s")), Three("like", "x", One),
   Two("not", One), List(<<Text("not"), Three("==", ".n", One), One>>), Two("and", One),
   Two("or", List(<<One>>)), Three("all", ".n", One), Three("any", "x", One),
   Three("any", ".xs", List(<<Text("=="), Text("."), One, One>>))}

MCWires ==
  {List(<<st>>) : st \in LeafForms \cup Nested \cup Misshapen}
    \cup {List(<<a, b>>) : a, b \in Inner} \cup {One, List(<< >>)}

----------------------------------------------------------------------------
RECURSIVE Within(_)
Within(v) ==
  {v} \cup UNION {Within(p) : p \in Parts(v)}
    \cup IF v.kind = "bytes" THEN {Integer(v.items[k]) : k \in DOMAIN v.items} ELSE {}

RECURSIVE Nesting(_)
Nesting(v) == IF Parts(v) = {} THEN 0 ELSE 1 + Max({Nesting(p) : p \in Parts(v)})

MCValues == {Null} \cup MCNumbers \cup UNION {Within(v) : v \in MCArguments \cup MCWires}
MCDepth == [v \in MCValues |-> Nesting(v)]
=============================================================================
