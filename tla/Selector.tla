------------------------------ MODULE Selector ------------------------------
(***************************************************************************)
(* Resolving a selector against a value (src/policy/selector.rs).          *)
(*                                                                         *)
(* A selector is the sequence of its segments:                             *)
(*   [kind |-> "key", key, optional], [kind |-> "values", optional],       *)
(*   [kind |-> "index", at, optional], [kind |-> "slice", from, to,        *)
(*   optional], where None is a bound left out.                            *)
(***************************************************************************)
EXTENDS Ipld

CONSTANT None

ASSUME SelectorAssumption == None \notin Int

\* Resolution that fails is Rust's None.
Failed == [kind |-> "failed"]

\* Mutant: the first item cannot be counted to from the end.
IndexShort(len, at) ==
  IF at < 0 THEN IF -at < len THEN len + at ELSE None
  ELSE IF at < len THEN at ELSE None

\* Positions count from 0, and from the end when negative.
Index(len, at) ==
  IF at < 0 THEN IF -at <= len THEN len + at ELSE None
  ELSE IF at < len THEN at ELSE None

Clamp(len, at) ==
  IF at < 0 THEN IF -at <= len THEN len + at ELSE 0
  ELSE IF at < len THEN at ELSE len

Bounds(len, from, to) ==
  LET start == IF from = None THEN 0 ELSE Clamp(len, from)
      end == IF to = None THEN len ELSE Clamp(len, to)
  IN  << start, IF end < start THEN start ELSE end >>

\* A map's values in the order of its keys.
ValuesOf(map) ==
  LET upto[n \in 0 .. Len(KeyOrder)] ==
        IF n = 0 THEN << >>
        ELSE IF KeyOrder[n] \in DOMAIN map.of THEN Append(upto[n - 1], map.of[KeyOrder[n]])
        ELSE upto[n - 1]
  IN  upto[Len(KeyOrder)]

\* get(s..e) is None when s is past e.
SliceOf(v, from, to) ==
  LET b == Bounds(Len(v.items), from, to)
  IN  IF b[1] <= b[2] THEN [v EXCEPT !.items = SubSeq(v.items, b[1] + 1, b[2])] ELSE Failed

Step(v, segment) ==
  CASE segment.kind = "key" /\ v.kind = "map" ->
         IF segment.key \in DOMAIN v.of THEN v.of[segment.key] ELSE Null
    [] segment.kind = "values" /\ v.kind = "list" -> v
    [] segment.kind = "values" /\ v.kind = "map" -> List(ValuesOf(v))
    [] segment.kind = "index" /\ v.kind \in {"list", "bytes"} ->
         LET at == Index(Len(v.items), segment.at)
         IN  IF at = None THEN Failed
             ELSE IF v.kind = "list" THEN v.items[at + 1] ELSE Integer(v.items[at + 1])
    [] segment.kind = "slice" /\ v.kind \in {"list", "bytes"} ->
         SliceOf(v, segment.from, segment.to)
    [] OTHER -> Failed

\* Mutant: a failing optional segment yields null, and resolution goes on.
TurnOn(found, segment) ==
  LET next == Step(found.value, segment)
  IN  IF found.done THEN found
      ELSE IF next # Failed THEN [value |-> next, done |-> FALSE]
      ELSE [value |-> IF segment.optional THEN Null ELSE Failed, done |-> ~segment.optional]

\* One segment: the first that fails is the last one looked at.
Turn(found, segment) ==
  LET next == Step(found.value, segment)
  IN  IF found.done THEN found
      ELSE IF next # Failed THEN [value |-> next, done |-> FALSE]
      ELSE [value |-> IF segment.optional THEN Null ELSE Failed, done |-> TRUE]

\* Selector::resolve.
Resolve(selector, root) ==
  LET after[n \in 0 .. Len(selector)] ==
        IF n = 0 THEN [value |-> root, done |-> FALSE] ELSE Turn(after[n - 1], selector[n])
  IN  after[Len(selector)].value
=============================================================================
