----------------------------- MODULE PolicyEval -----------------------------
(***************************************************************************)
(* A policy from its wire form to a verdict on the arguments of an         *)
(* invocation (src/policy/mod.rs): Policy::from_ipld once, Policy::check   *)
(* for every invocation that uses the delegation.                          *)
(*                                                                         *)
(* A statement is a record of its operator and its operands.  Glob says    *)
(* which texts a pattern matches, SelectorOf what a selector parses to.    *)
(***************************************************************************)
EXTENDS Selector

CONSTANTS
  SelectorOf,  \* text that is a selector -> its segments
  MatchesOf,   \* pattern text -> the texts it matches
  Wires,       \* bound: wire forms of policies
  Arguments,   \* bound: arguments to check
  Numbers,     \* bound: numbers to compare with
  Positions    \* bound: positions to index and slice with

Selectors == DOMAIN SelectorOf

\* What Selector::parse makes of a text.
IsSegment(s) ==
  /\ s.optional \in BOOLEAN
  /\ CASE s.kind = "key" -> s = [kind |-> "key", key |-> s.key, optional |-> s.optional]
       [] s.kind = "values" -> s = [kind |-> "values", optional |-> s.optional]
       [] s.kind = "index" ->
            s.at \in Int /\ s = [kind |-> "index", at |-> s.at, optional |-> s.optional]
       [] s.kind = "slice" ->
            /\ s.from \in Int \cup {None} /\ s.to \in Int \cup {None}
            /\ s = [kind |-> "slice", from |-> s.from, to |-> s.to, optional |-> s.optional]
       [] OTHER -> FALSE

ASSUME PolicyAssumption ==
  /\ \A sel \in Selectors :
       LET segments == {SelectorOf[sel][k] : k \in DOMAIN SelectorOf[sel]}
       IN  SelectorOf[sel] \in Seq(segments) /\ \A s \in segments : IsSegment(s)
  /\ Wires \subseteq Values /\ None \notin Wires
  /\ Arguments \subseteq Values /\ None \notin Arguments
  /\ Numbers \subseteq {v \in Values : IsNumber(v)}
  /\ Positions \subseteq Int

VARIABLES
  wire,     \* what was parsed, None at first
  policy,   \* its statements, or the error it was refused for
  args,     \* what was checked last, None before that
  verdict   \* the statement that failed, 0 for none

vars == <<wire, policy, args, verdict>>

Equalities == {"==", "!="}
Comparisons == {"<", "<=", ">", ">="}
Connectives == {"and", "or"}
Quantifiers == {"all", "any"}
Leaves == Equalities \cup Comparisons \cup {"like"}

Error(name) == [op |-> "error", error |-> name]
IsError(x) == x.op = "error"

----------------------------------------------------------------------------
(* Statement::from_ipld and to_ipld.                                       *)

Arity(op) == IF op \in Connectives \cup {"not"} THEN 2 ELSE 3

\* Mutant: operands beyond those of the operator are passed over.
IsMisfitShort(op, items) == Len(items) < Arity(op)

IsMisfit(op, items) == Len(items) # Arity(op)

\* The selector operand, or the error it is refused for.
SelectorError(v) ==
  IF v.kind # "string" THEN "ExpectedSelector"
  ELSE IF v.text \notin Selectors THEN "Selector" ELSE "Ok"

\* What is wrong with the operands that hold no statement.
OperandError(op, items) ==
  IF op = "like" /\ items[3].kind # "string" THEN "ExpectedString"
  ELSE IF op \notin Connectives \cup {"not"} /\ SelectorError(items[2]) # "Ok"
  THEN SelectorError(items[2])
  ELSE IF op \in Comparisons /\ ~IsNumber(items[3]) THEN "ExpectedNumber"
  ELSE IF op \in Connectives /\ items[2].kind # "list" THEN "ExpectedStatementList"
  ELSE "Ok"

\* collect: the statements, or the first error among them.
Collected(statements) ==
  LET bad == {k \in DOMAIN statements : IsError(statements[k])}
  IN  IF bad = {} THEN statements
      ELSE << statements[CHOOSE k \in bad : \A j \in bad : k <= j] >>

\* A statement around others, or the error in them.
Around(inner, st) == IF IsError(inner) THEN inner ELSE st
AroundAll(list, st) == IF list # << >> /\ IsError(list[1]) THEN list[1] ELSE st

\* from_ipld, where parsed is what it makes of the parts.
StatementOf(v, parsed) ==
  IF v.kind # "list" THEN Error("StatementNotAList")
  ELSE IF v.items = << >> \/ v.items[1].kind # "string" THEN Error("MissingOperator")
  ELSE
    LET items == v.items
        op == items[1].text
        inner == parsed[items[Arity(op)]]
        list == Collected([k \in DOMAIN items[2].items |-> parsed[items[2].items[k]]])
    IN  IF op \notin Leaves \cup Connectives \cup Quantifiers \cup {"not"}
        THEN Error("UnknownOperator")
        ELSE IF IsMisfit(op, items) THEN Error("Arity")
        ELSE IF OperandError(op, items) # "Ok" THEN Error(OperandError(op, items))
        ELSE CASE op \in Connectives -> AroundAll(list, [op |-> op, list |-> list])
               [] op = "not" -> Around(inner, [op |-> op, inner |-> inner])
               [] op \in Quantifiers ->
                    Around(inner, [op |-> op, sel |-> items[2].text, inner |-> inner])
               [] OTHER -> [op |-> op, sel |-> items[2].text, operand |-> items[3]]

FromIpld[v \in Values] == StatementOf(v, FromIpld)

Statements == {st \in {FromIpld[v] : v \in Values} : ~IsError(st)}

\* to_ipld, where wires is what it makes of the statements inside.
WireOf(st, wires) ==
  CASE st.op \in Connectives ->
         List(<< Text(st.op), List([k \in DOMAIN st.list |-> wires[st.list[k]]]) >>)
    [] st.op = "not" -> List(<< Text(st.op), wires[st.inner] >>)
    [] st.op \in Quantifiers -> List(<< Text(st.op), Text(st.sel), wires[st.inner] >>)
    [] OTHER -> List(<< Text(st.op), Text(st.sel), st.operand >>)

ToIpld[st \in Statements] == WireOf(st, ToIpld)

\* Policy::from_ipld.
PolicyOf(v) ==
  IF v.kind # "list" THEN << Error("NotAList") >>
  ELSE Collected([k \in DOMAIN v.items |-> FromIpld[v.items[k]]])

Parsed == wire # None /\ \A k \in DOMAIN policy : ~IsError(policy[k])

----------------------------------------------------------------------------
(* Statement::holds.                                                       *)

Found(sel, v) == Resolve(SelectorOf[sel], v)

\* compare: only numbers compare.
Compares(found, number, orders) == IsNumber(found) /\ Order(found, number) \in orders

\* is_lt, is_le, is_gt, is_ge.
Accepted(op) ==
  CASE op = "<" -> {"Less"} [] op = "<=" -> {"Less", "Equal"}
    [] op = ">" -> {"Greater"} [] op = ">=" -> {"Greater", "Equal"}

\* What a leaf says of what its selector found.
Meets(op, found, operand) ==
  CASE op = "==" -> found # Failed /\ Equal(found, operand)
    [] op = "!=" -> ~(found # Failed /\ Equal(found, operand))
    [] op \in Comparisons -> Compares(found, operand, Accepted(op))
    [] op = "like" -> found.kind = "string" /\ found.text \in MatchesOf[operand.text]

\* elements: what a quantifier ranges over.
HasElements(found) == found.kind \in {"list", "map"}
Elements(found) == IF found.kind = "list" THEN found.items ELSE ValuesOf(found)

\* holds, where holding is what it says of the statements inside.
Decides(st, v, holding) ==
  LET found == Found(st.sel, v)
  IN  CASE st.op = "not" -> ~holding[<<st.inner, v>>]
        [] st.op = "and" -> \A k \in DOMAIN st.list : holding[<<st.list[k], v>>]
        [] st.op = "or" ->
             st.list = << >> \/ \E k \in DOMAIN st.list : holding[<<st.list[k], v>>]
        [] st.op = "all" ->
             /\ HasElements(found)
             /\ \A k \in DOMAIN Elements(found) : holding[<<st.inner, Elements(found)[k]>>]
        [] st.op = "any" ->
             /\ HasElements(found)
             /\ \/ Elements(found) = << >>
                \/ \E k \in DOMAIN Elements(found) : holding[<<st.inner, Elements(found)[k]>>]
        [] OTHER -> Meets(st.op, found, st.operand)

Holding[pair \in Statements \X Values] == Decides(pair[1], pair[2], Holding)

Holds(st, v) == Decides(st, v, Holding)

\* Policy::check: the first statement that does not hold.
FirstFailing(statements, v) ==
  LET failing == {k \in DOMAIN statements : ~Holds(statements[k], v)}
  IN  IF failing = {} THEN 0 ELSE CHOOSE k \in failing : \A j \in failing : k <= j

----------------------------------------------------------------------------
Init == wire = None /\ policy = << >> /\ args = None /\ verdict = 0

Load(w) ==
  /\ wire = None
  /\ wire' = w
  /\ policy' = PolicyOf(w)
  /\ UNCHANGED <<args, verdict>>

Check(v) ==
  /\ Parsed
  /\ args = None
  /\ args' = v
  /\ verdict' = FirstFailing(policy, v)
  /\ UNCHANGED <<wire, policy>>

Next == (\E w \in Wires : Load(w)) \/ (\E v \in Arguments : Check(v))

Spec == Init /\ [][Next]_vars

----------------------------------------------------------------------------
(* What the operators promise, in other terms.                             *)

HasSelector(items) ==
  Len(items) = 3 /\ items[2].kind = "string" /\ items[2].text \in Selectors

\* The forms a statement may have, where fits says which parts have one.
HasForm(v, fits) ==
  /\ v.kind = "list" /\ v.items # << >> /\ v.items[1].kind = "string"
  /\ LET items == v.items
         op == items[1].text
     IN  \/ op \in Equalities /\ HasSelector(items)
         \/ op \in Comparisons /\ HasSelector(items) /\ IsNumber(items[3])
         \/ op = "like" /\ HasSelector(items) /\ items[3].kind = "string"
         \/ op \in Quantifiers /\ HasSelector(items) /\ fits[items[3]]
         \/ op = "not" /\ Len(items) = 2 /\ fits[items[2]]
         \/ /\ op \in Connectives /\ Len(items) = 2 /\ items[2].kind = "list"
            /\ \A k \in DOMAIN items[2].items : fits[items[2].items[k]]

IsStatement[v \in Values] == HasForm(v, IsStatement)

\* A policy parses exactly when it has one of the documented forms throughout, and
\* encodes again to what was signed: no operand is dropped.
WireFormIsKept ==
  wire # None =>
    /\ Parsed <=> wire.kind = "list" /\ \A k \in DOMAIN wire.items : IsStatement[wire.items[k]]
    /\ Parsed => List([k \in DOMAIN policy |-> ToIpld[policy[k]]]) = wire

\* Arguments that are equal are decided alike by every policy: whether a number
\* is written 1 or 1.0 cannot decide an invocation, at any depth.
EqualArgumentsAreDecidedAlike ==
  args # None =>
    \A v \in Arguments :
      Equal(args, v) => Equal(v, args) /\ FirstFailing(policy, v) = verdict

Twice(x) == IF x.kind = "integer" THEN 2 * x.num ELSE x.num

IsByValue(op, a, b) ==
  CASE op = "<" -> a < b [] op = "<=" -> a <= b [] op = ">" -> a > b [] op = ">=" -> a >= b
    [] op = "==" -> a = b

\* Integers and floats compare by value, whichever side they are on and though a
\* float cannot hold the integer; what is not a number compares as nothing.
OrderIsByValue ==
  args # None =>
    \A sel \in Selectors, n \in Numbers, op \in Comparisons \cup {"=="} :
      LET found == Found(sel, args)
      IN  Holds([op |-> op, sel |-> sel, operand |-> n], args)
            <=> IsNumber(found) /\ IsByValue(op, Twice(found), Twice(n))

\* A position names the item that many from the start, or from the end when
\* negative, and an index fails only where no item is named; a slice takes the
\* items between two positions, none when they cross, and never fails.
SlicesAreRanges ==
  args # None =>
    \A sel \in Selectors :
      LET found == Found(sel, args)
          items == found.items
          AtLeast(k, at) == IF at < 0 THEN k - Len(items) >= at ELSE k >= at
          In(k, from, to) == (from # None => AtLeast(k, from)) /\ (to # None => ~AtLeast(k, to))
          IsAt(k, at) == k = at \/ k - Len(items) = at
          At(at) == Step(found, [kind |-> "index", at |-> at, optional |-> FALSE])
      IN  found.kind \in {"list", "bytes"} =>
            /\ \A from, to \in Positions \cup {None} :
                 \E first \in 0 .. Len(items) : \E last \in first .. Len(items) :
                   /\ {k \in 0 .. Len(items) - 1 : In(k, from, to)} = first .. last - 1
                   /\ SliceOf(found, from, to) = [found EXCEPT !.items = SubSeq(items, first + 1, last)]
            /\ \A at \in Positions :
                 /\ \A k \in 0 .. Len(items) - 1 :
                      IsAt(k, at) => At(at) = IF found.kind = "list" THEN items[k + 1]
                                              ELSE Integer(items[k + 1])
                 /\ (\A k \in 0 .. Len(items) - 1 : ~IsAt(k, at)) => At(at) = Failed

\* Where the first n segments lead, for each n.
Path(segments, root) ==
  LET upto[n \in 0 .. Len(segments)] ==
        IF n = 0 THEN root
        ELSE IF upto[n - 1] = Failed THEN Failed ELSE Step(upto[n - 1], segments[n])
  IN  upto

\* Only the first segment that cannot be followed counts: optional, it makes the
\* selector yield null, otherwise it fails it, whatever comes later.
FirstFailureDecides ==
  args # None =>
    \A sel \in Selectors :
      LET segments == SelectorOf[sel]
          upto == Path(segments, args)
          failing == {n \in DOMAIN segments : upto[n] = Failed}
          first == CHOOSE n \in failing : \A m \in failing : n <= m
      IN  Found(sel, args) = IF failing = {} THEN upto[Len(segments)]
                             ELSE IF segments[first].optional THEN Null ELSE Failed

\* "a statement that cannot be evaluated is false".
UnevaluableIsFalse ==
  args # None =>
    \A k \in DOMAIN policy :
      LET st == policy[k]
      IN  "sel" \in DOMAIN st /\ Found(st.sel, args) = Failed => ~Holds(st, args)
=============================================================================
