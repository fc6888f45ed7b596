------------------------------- MODULE Varint -------------------------------
(***************************************************************************)
(* Unsigned LEB128 (src/codec/varint.rs): groups of a number, the lowest   *)
(* first, each in a byte whose upper half says that another follows.       *)
(***************************************************************************)
EXTENDS Integers, Sequences, FiniteSetsExt

CONSTANTS
  Group,      \* 2^7: values of a group
  MaxGroups,  \* 10 groups ...
  MaxTop      \* ... of which the last is at most 1, make 64 bits

ASSUME VarintAssumption == Group \in Nat /\ MaxTop \in 1 .. Group - 1 /\ MaxGroups \in Nat \ {0}

\* put_uvarint.
PutUvarint(n) ==
  LET put[m \in 0 .. n] ==
        IF m < Group THEN << m >> ELSE << Group + (m % Group) >> \o put[m \div Group]
  IN  put[n]

\* The groups of s, the first the lowest.
GroupsValue(s) ==
  LET from[k \in 1 .. Len(s) + 1] ==
        IF k > Len(s) THEN 0 ELSE (s[k] % Group) + Group * from[k + 1]
  IN  from[1]

InvalidVarint == [error |-> "InvalidVarint", value |-> 0, length |-> 0]

\* Mutant: an empty last group is read.
IsMinimalAnyway(s, end) == TRUE
IsMinimal(s, end) == end > 1 => s[end] # 0

\* read_uvarint: the number s begins with, and its length.
ReadUvarint(s) ==
  LET ends == {k \in (1 .. MaxGroups) \cap DOMAIN s : s[k] < Group}
      end == Min(ends)
  IN  IF ends = {}
      THEN IF Len(s) < MaxGroups THEN [InvalidVarint EXCEPT !.error = "UnexpectedEnd"]
           ELSE InvalidVarint
      ELSE IF IsMinimal(s, end) /\ (end = MaxGroups => s[end] <= MaxTop)
      THEN [error |-> "Ok", value |-> GroupsValue(SubSeq(s, 1, end)), length |-> end]
      ELSE InvalidVarint
=============================================================================
