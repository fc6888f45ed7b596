----------------------------- MODULE GlobProofs -----------------------------
(***************************************************************************)
(* Glob's loop answers what the pattern means, for every pattern and every *)
(* input: one remembered star is enough.                                   *)
(*                                                                         *)
(* The argument needs two facts of the loop.  What is used up so far can   *)
(* be split between the tokens used up (so a yes is right), and every      *)
(* split of the whole input uses at least as much of it on those tokens    *)
(* (so a no is right).                                                     *)
(*                                                                         *)
(* The second part is about Pattern::parse: for every first part of a      *)
(* pattern, its characters and its tokens can stop at the same places.     *)
(***************************************************************************)
EXTENDS GlobText, WellFoundedInduction, TLAPS

----------------------------------------------------------------------------
(* Induction and recursion on numbers, stated of sets and functions, so    *)
(* that a proof can use them for the case it has.                          *)

LEMMA Least ==
  ASSUME NEW T, T \subseteq Nat, T # {}
  PROVE  \E x \in T : \A y \in T : x <= y
<1>. DEFINE R == OpToRel(<, Nat)
<1>1. IsWellFoundedOn(R, Nat)
  BY NatLessThanWellFounded
<1>2. \A x, y \in Nat : <<y, x>> \in R <=> y < x
  BY DEF OpToRel
<1>. HIDE DEF R
<1>3. PICK x \in T : \A y \in T : <<y, x>> \notin R
  BY <1>1, WFMin
<1>4. ASSUME NEW y \in T PROVE x <= y
  <2>1. x \in Nat /\ y \in Nat
    OBVIOUS
  <2>2. <<y, x>> \notin R
    BY <1>3
  <2>3. ~(y < x)
    BY <1>2, <2>1, <2>2
  <2>. QED  BY <2>1, <2>3
<1>. QED  BY <1>4

\* What holds of 0 and, when of n, of n + 1, holds of every number up to m.
LEMMA InductionUpTo ==
  ASSUME NEW m \in Nat, NEW S, 0 \in S,
         \A n \in 0 .. m - 1 : n \in S => n + 1 \in S
  PROVE  0 .. m \subseteq S
<1>. SUFFICES ASSUME ~(0 .. m \subseteq S) PROVE FALSE
  OBVIOUS
<1>. DEFINE Missing == {n \in 0 .. m : n \notin S}
<1>1. Missing \subseteq Nat /\ Missing # {}
  OBVIOUS
<1>2. PICK n \in Missing : \A k \in Missing : n <= k
  BY <1>1, Least
<1>3. n # 0 /\ n - 1 \in 0 .. m - 1
  BY <1>2
<1>4. n - 1 \in S
  BY <1>2, <1>3
<1>. QED  BY <1>2, <1>3, <1>4

LEMMA Induction ==
  ASSUME NEW S, 0 \in S, \A n \in Nat : n \in S => n + 1 \in S
  PROVE  Nat \subseteq S
<1>. SUFFICES ASSUME NEW m \in Nat PROVE m \in S
  OBVIOUS
<1>1. 0 .. m \subseteq S
  BY InductionUpTo
<1>. QED  BY <1>1

\* f is m steps of step, in T, from first.
Iterates(f, m, T, first, step) ==
  /\ f \in [0 .. m -> T]
  /\ f[0] = first
  /\ \A k \in 1 .. m : f[k] = step[k][f[k - 1]]

\* A first value and a step from each value to the next determine a sequence.
LEMMA Iteration ==
  ASSUME NEW m \in Nat, NEW T, NEW first \in T, NEW step \in [1 .. m -> [T -> T]]
  PROVE  \E f : Iterates(f, m, T, first, step)
<1>. DEFINE Upto(n) ==
       {f \in [0 .. n -> T] : f[0] = first /\ \A k \in 1 .. n : f[k] = step[k][f[k - 1]]}
            Reached == {n \in 0 .. m : Upto(n) # {}}
<1>1. 0 \in Reached
  <2>1. [k \in 0 .. 0 |-> first] \in Upto(0)
    OBVIOUS
  <2>. QED  BY <2>1
<1>2. ASSUME NEW n \in 0 .. m - 1, n \in Reached PROVE n + 1 \in Reached
  <2>1. PICK f \in [0 .. n -> T] :
          f[0] = first /\ \A k \in 1 .. n : f[k] = step[k][f[k - 1]]
    BY <1>2
  <2>. DEFINE g == [k \in 0 .. n + 1 |-> IF k = n + 1 THEN step[n + 1][f[n]] ELSE f[k]]
  <2>2. f[n] \in T /\ n + 1 \in 1 .. m
    OBVIOUS
  <2>3. step[n + 1][f[n]] \in T
    BY <2>2
  <2>4. g \in [0 .. n + 1 -> T]
    BY <2>3
  <2>5. g[0] = first
    BY <2>1
  <2>6. ASSUME NEW k \in 1 .. n + 1 PROVE g[k] = step[k][g[k - 1]]
    <3>1. CASE k = n + 1
      <4>1. k - 1 = n /\ g[k - 1] = f[n]
        BY <3>1
      <4>. QED  BY <3>1, <4>1
    <3>2. CASE k # n + 1
      <4>1. k \in 1 .. n /\ g[k] = f[k] /\ g[k - 1] = f[k - 1]
        BY <3>2
      <4>. QED  BY <2>1, <4>1
    <3>. QED  BY <3>1, <3>2
  <2>. HIDE DEF g
  <2>7. g \in Upto(n + 1)
    BY <2>4, <2>5, <2>6
  <2>. QED  BY <2>7
<1>. HIDE DEF Reached
<1>3. m \in Reached
  <2>1. 0 .. m \subseteq Reached
    BY <1>1, <1>2, InductionUpTo
  <2>. QED  BY <2>1
<1>. QED  BY <1>3 DEF Reached, Iterates

\* ... all of it of the type that the steps keep.
LEMMA IterationType ==
  ASSUME NEW m \in Nat, NEW T, NEW f, f[0] \in T,
         \A n \in 0 .. m - 1 : f[n] \in T => f[n + 1] \in T
  PROVE  \A k \in 0 .. m : f[k] \in T
<1>. DEFINE S == {k \in 0 .. m : f[k] \in T}
<1>1. 0 \in S
  OBVIOUS
<1>2. ASSUME NEW n \in 0 .. m - 1, n \in S PROVE n + 1 \in S
  BY <1>2
<1>. HIDE DEF S
<1>3. 0 .. m \subseteq S
  BY <1>1, <1>2, InductionUpTo
<1>. QED  BY <1>3 DEF S

----------------------------------------------------------------------------
(* matches.                                                                *)

\* cut splits the first m characters between the first n tokens.
Splits(cut, n, m) ==
  /\ cut \in [0 .. n -> 0 .. Len(input)]
  /\ cut[0] = 0
  /\ cut[n] = m
  /\ \A j, k \in 0 .. n : j <= k => cut[j] <= cut[k]
  /\ \A k \in 1 .. n :
       tokens[k] # AnyToken => cut[k] = cut[k - 1] + 1 /\ input[cut[k]] = tokens[k]

\* What is used up can be split, and what lies before the last star, too.
Reached ==
  /\ \E cut : Splits(cut, t, s)
  /\ star # NoStar =>
       /\ tokens[star + 1] = AnyToken
       /\ \E m \in 0 .. matched : \E cut : Splits(cut, star, m)

\* Since the last star only literals were taken, a character each.
OnlyLiterals == star # NoStar => s - matched = t - star - 1

\* Where a split of the whole input must have got to.
NotBehind(cut) ==
  IF star = NoStar THEN cut[t] = s
  ELSE cut[star + 1] >= matched /\ cut[t] - cut[star + 1] = t - star - 1

Cuts == {cut \in [0 .. Len(tokens) -> 0 .. Len(input)] : IsCut(cut, tokens, input)}

Complete == \A cut \in Cuts : NotBehind(cut)

Answered ==
  /\ answer = "yes" => Fits(tokens, input)
  /\ answer = "no" => ~Fits(tokens, input)

GlobInv == TypeOK /\ Reached /\ OnlyLiterals /\ Complete /\ Answered

----------------------------------------------------------------------------
LEMMA Bounds ==
  ASSUME TypeOK
  PROVE  /\ Len(tokens) \in Nat /\ Len(input) \in Nat
         /\ s \in Nat /\ s <= Len(input) /\ t \in Nat /\ t <= Len(tokens)
         /\ star # NoStar => star \in Nat /\ star < t /\ matched \in Nat /\ matched <= s
  BY DEF TypeOK, NoStar

\* Of a split of the whole input, in the form the steps use it.
LEMMA CutFacts ==
  ASSUME TypeOK, NEW cut \in Cuts
  PROVE  /\ \A k \in 0 .. Len(tokens) : cut[k] \in Nat /\ cut[k] <= Len(input)
         /\ cut[0] = 0 /\ cut[Len(tokens)] = Len(input)
         /\ \A j, k \in 0 .. Len(tokens) : j <= k => cut[j] <= cut[k]
         /\ \A k \in 1 .. Len(tokens) :
              tokens[k] # AnyToken => cut[k] = cut[k - 1] + 1 /\ input[cut[k]] = tokens[k]
<1>1. cut \in [0 .. Len(tokens) -> 0 .. Len(input)] /\ IsCut(cut, tokens, input)
  BY DEF Cuts
<1>2. \A k \in 0 .. Len(tokens) : cut[k] \in Nat /\ cut[k] <= Len(input)
  BY <1>1, Bounds
<1>. QED  BY <1>1, <1>2 DEF IsCut

\* No split of the whole input is behind the loop.
LEMMA AtLeast ==
  ASSUME TypeOK, OnlyLiterals, Complete, NEW cut \in Cuts
  PROVE  cut[t] >= s
<1>1. NotBehind(cut) /\ cut[t] \in Nat
  BY Bounds, CutFacts DEF Complete
<1>2. CASE star = NoStar
  BY <1>1, <1>2, Bounds DEF NotBehind
<1>3. CASE star # NoStar
  <2>1. cut[star + 1] \in Nat
    BY <1>3, Bounds, CutFacts
  <2>. QED  BY <1>1, <1>3, <2>1, Bounds DEF NotBehind, OnlyLiterals
<1>. QED  BY <1>2, <1>3

\* A split grows by one token: a star that ends at m, or a literal that is the
\* next character.
LEMMA SplitsOn ==
  ASSUME TypeOK, NEW n \in Nat, n < Len(tokens), NEW l \in Nat, NEW m \in Nat,
         l <= m, m <= Len(input), NEW cut, Splits(cut, n, l),
         tokens[n + 1] # AnyToken => m = l + 1 /\ input[m] = tokens[n + 1]
  PROVE  \E more : Splits(more, n + 1, m)
<1>. DEFINE more == [k \in 0 .. n + 1 |-> IF k = n + 1 THEN m ELSE cut[k]]
<1>1. \A k \in 0 .. n : cut[k] \in 0 .. Len(input)
  BY DEF Splits
<1>2. more \in [0 .. n + 1 -> 0 .. Len(input)]
  BY <1>1, Bounds
<1>3. more[0] = 0 /\ more[n + 1] = m
  BY DEF Splits
<1>4. ASSUME NEW j \in 0 .. n + 1, NEW k \in 0 .. n + 1, j <= k PROVE more[j] <= more[k]
  <2>1. CASE k = n + 1 /\ j # n + 1
    <3>1. j \in 0 .. n /\ n \in 0 .. n
      BY <2>1
    <3>2. cut[j] <= cut[n] /\ cut[n] = l
      BY <3>1 DEF Splits
    <3>3. more[j] = cut[j] /\ more[k] = m
      BY <2>1
    <3>4. cut[j] \in Int /\ cut[n] \in Int
      BY <1>1, <3>1, Bounds
    <3>. QED  BY <3>2, <3>3, <3>4
  <2>2. CASE k = n + 1 /\ j = n + 1
    BY <2>2
  <2>3. CASE k # n + 1
    <3>1. j \in 0 .. n /\ k \in 0 .. n
      BY <1>4, <2>3
    <3>2. more[j] = cut[j] /\ more[k] = cut[k]
      BY <3>1
    <3>. QED  BY <1>4, <3>1, <3>2 DEF Splits
  <2>. QED  BY <2>1, <2>2, <2>3
<1>5. ASSUME NEW k \in 1 .. n + 1, tokens[k] # AnyToken
      PROVE  more[k] = more[k - 1] + 1 /\ input[more[k]] = tokens[k]
  <2>1. CASE k = n + 1
    <3>1. more[k] = m /\ more[k - 1] = cut[n] /\ cut[n] = l
      BY <2>1 DEF Splits
    <3>. QED  BY <1>5, <2>1, <3>1
  <2>2. CASE k # n + 1
    <3>1. k \in 1 .. n /\ more[k] = cut[k] /\ more[k - 1] = cut[k - 1]
      BY <2>2
    <3>. QED  BY <1>5, <3>1 DEF Splits
  <2>. QED  BY <2>1, <2>2
<1>. HIDE DEF more
<1>6. Splits(more, n + 1, m)
  BY <1>2, <1>3, <1>4, <1>5 DEF Splits
<1>. QED  BY <1>6

----------------------------------------------------------------------------
LEMMA TypeNext ==
  ASSUME TypeOK, [Next]_vars
  PROVE  TypeOK'
<1>. USE DEF TypeOK, NoStar
<1>1. CASE TakeStar
  BY <1>1, Bounds DEF TakeStar, InLoop
<1>2. CASE TakeLiteral
  BY <1>2, Bounds DEF TakeLiteral, InLoop
<1>3. CASE Backtrack
  BY <1>3, Bounds DEF Backtrack, InLoop
<1>4. CASE GiveUp
  BY <1>4 DEF GiveUp
<1>5. CASE Finish
  BY <1>5 DEF Finish
<1>6. CASE UNCHANGED vars
  BY <1>6 DEF vars
<1>. QED  BY <1>1, <1>2, <1>3, <1>4, <1>5, <1>6 DEF Next

\* The tokens and the input of a call never change, so neither do its splits.
LEMMA CallStays ==
  ASSUME [Next]_vars
  PROVE  /\ tokens' = tokens /\ input' = input
         /\ Cuts' = Cuts
         /\ \A cut, n, m : Splits(cut, n, m)' <=> Splits(cut, n, m)
<1>1. tokens' = tokens /\ input' = input
  BY DEF Next, TakeStar, TakeLiteral, Backtrack, GiveUp, Finish, vars
<1>. QED  BY <1>1 DEF Cuts, Splits, IsCut

LEMMA ReachedNext ==
  ASSUME TypeOK, Reached, [Next]_vars
  PROVE  Reached'
<1>. USE CallStays
<1>1. CASE TakeStar
  <2>1. PICK cut : Splits(cut, t, s)
    BY DEF Reached
  <2>2. \E more : Splits(more, t + 1, s)
    BY <1>1, <2>1, SplitsOn, Bounds DEF TakeStar
  <2>. QED  BY <1>1, <2>1, <2>2, Bounds DEF Reached, TakeStar
<1>2. CASE TakeLiteral
  <2>1. PICK cut : Splits(cut, t, s)
    BY DEF Reached
  <2>2. \E more : Splits(more, t + 1, s + 1)
    BY <1>2, <2>1, SplitsOn, Bounds DEF TakeLiteral, InLoop
  <2>. QED  BY <1>2, <2>2 DEF Reached, TakeLiteral
<1>3. CASE Backtrack
  <2>1. PICK m \in 0 .. matched : \E cut : Splits(cut, star, m)
    BY <1>3 DEF Reached, Backtrack
  <2>2. PICK cut : Splits(cut, star, m)
    BY <2>1
  <2>3. /\ star \in Nat /\ star < Len(tokens) /\ m \in Nat /\ m <= matched + 1
        /\ matched + 1 \in Nat /\ matched + 1 <= Len(input) /\ tokens[star + 1] = AnyToken
    BY <1>3, Bounds DEF Backtrack, InLoop, Reached
  <2>4. \E more : Splits(more, star + 1, matched + 1)
    BY <2>2, <2>3, SplitsOn
  <2>5. m \in 0 .. matched + 1
    BY <1>3, Bounds DEF Backtrack
  <2>. QED  BY <1>3, <2>2, <2>3, <2>4, <2>5 DEF Reached, Backtrack
<1>4. CASE GiveUp \/ Finish \/ UNCHANGED vars
  BY <1>4 DEF Reached, GiveUp, Finish, vars
<1>. QED  BY <1>1, <1>2, <1>3, <1>4 DEF Next

LEMMA OnlyLiteralsNext ==
  ASSUME TypeOK, OnlyLiterals, [Next]_vars
  PROVE  OnlyLiterals'
<1>. USE Bounds DEF OnlyLiterals
<1>1. CASE TakeStar
  BY <1>1 DEF TakeStar
<1>2. CASE TakeLiteral
  BY <1>2 DEF TakeLiteral
<1>3. CASE Backtrack
  BY <1>3 DEF Backtrack
<1>4. CASE GiveUp \/ Finish \/ UNCHANGED vars
  BY <1>4 DEF GiveUp, Finish, vars
<1>. QED  BY <1>1, <1>2, <1>3, <1>4 DEF Next

\* At a mismatch, a split that is level with the loop would have to make it match.
LEMMA MismatchMovesOn ==
  ASSUME TypeOK, InLoop, Mismatch, NEW cut \in Cuts
  PROVE  cut[t] # s
<1>. SUFFICES ASSUME cut[t] = s PROVE FALSE
  OBVIOUS
<1>1. t < Len(tokens)
  BY Bounds, CutFacts DEF InLoop
<1>2. t + 1 \in 1 .. Len(tokens) /\ tokens[t + 1] # AnyToken /\ (t + 1) - 1 = t
  BY <1>1, Bounds DEF Mismatch
<1>3. cut[t + 1] = s + 1 /\ input[cut[t + 1]] = tokens[t + 1]
  BY <1>2, CutFacts
<1>. QED  BY <1>1, <1>3 DEF Mismatch

LEMMA CompleteNext ==
  ASSUME TypeOK, OnlyLiterals, Complete, [Next]_vars
  PROVE  Complete'
<1>. SUFFICES ASSUME NEW cut \in Cuts PROVE NotBehind(cut)'
  BY CallStays DEF Complete
<1>1. NotBehind(cut) /\ cut[t] >= s /\ cut[t] \in Nat
  BY AtLeast, Bounds, CutFacts DEF Complete
<1>2. CASE TakeStar
  <2>1. t + 1 \in 0 .. Len(tokens) /\ t \in 0 .. Len(tokens) /\ t <= t + 1
    BY <1>2, Bounds DEF TakeStar
  <2>2. cut[t] <= cut[t + 1] /\ cut[t + 1] \in Nat
    BY <2>1, CutFacts
  <2>. QED  BY <1>1, <1>2, <2>2, Bounds DEF NotBehind, TakeStar, NoStar
<1>3. CASE TakeLiteral
  <2>1. t + 1 \in 1 .. Len(tokens) /\ (t + 1) - 1 = t /\ tokens[t + 1] # AnyToken
    BY <1>3, Bounds, GlobAssumption DEF TakeLiteral, InLoop, TypeOK
  <2>2. cut[t + 1] = cut[t] + 1
    BY <2>1, CutFacts
  <2>3. star # NoStar => cut[star + 1] \in Nat
    BY Bounds, CutFacts
  <2>4. s' = s + 1 /\ t' = t + 1 /\ star' = star /\ matched' = matched
    BY <1>3 DEF TakeLiteral
  <2>5. star # NoStar => star \in Nat /\ t \in Nat
    BY Bounds
  <2>6. CASE star = NoStar
    BY <1>1, <2>2, <2>4, <2>6 DEF NotBehind
  <2>7. CASE star # NoStar
    <3>1. cut[star + 1] >= matched /\ cut[t] - cut[star + 1] = t - star - 1
      BY <1>1, <2>7 DEF NotBehind
    <3>2. cut[t + 1] - cut[star + 1] = (t + 1) - star - 1
      BY <1>1, <2>2, <2>3, <2>5, <2>7, <3>1
    <3>. QED  BY <2>4, <2>7, <3>1, <3>2 DEF NotBehind
  <2>. QED  BY <2>6, <2>7
<1>4. CASE Backtrack
  <2>1. cut[t] # s
    BY <1>4, MismatchMovesOn DEF Backtrack
  <2>2. cut[star + 1] \in Nat
    BY <1>4, Bounds, CutFacts DEF Backtrack
  <2>3. cut[star + 1] >= matched + 1
    BY <1>1, <1>4, <2>1, <2>2, Bounds DEF NotBehind, OnlyLiterals, Backtrack
  <2>. QED  BY <1>4, <2>2, <2>3, Bounds DEF NotBehind, Backtrack, NoStar
<1>5. CASE GiveUp \/ Finish \/ UNCHANGED vars
  BY <1>1, <1>5 DEF NotBehind, GiveUp, Finish, vars
<1>. QED  BY <1>2, <1>3, <1>4, <1>5 DEF Next

----------------------------------------------------------------------------
LEMMA FitsIsCuts ==
  ASSUME TypeOK
  PROVE  Fits(tokens, input) <=> Cuts # {}
BY DEF Fits, Cuts

\* Stars left over take nothing.
LEMMA YesIsRight ==
  ASSUME TypeOK, Reached, s = Len(input),
         \A k \in t + 1 .. Len(tokens) : tokens[k] = AnyToken
  PROVE  Cuts # {}
<1>1. PICK cut : Splits(cut, t, s)
  BY DEF Reached
<1>. DEFINE full == [k \in 0 .. Len(tokens) |-> IF k <= t THEN cut[k] ELSE s]
<1>2. \A k \in 0 .. t : cut[k] \in 0 .. Len(input) /\ cut[k] <= s
  <2>1. t \in 0 .. t
    BY Bounds
  <2>. QED  BY <1>1, <2>1 DEF Splits
<1>3. full \in [0 .. Len(tokens) -> 0 .. Len(input)]
  BY <1>2, Bounds
<1>4. full[0] = 0 /\ full[Len(tokens)] = Len(input)
  <2>1. full[0] = cut[0]
    BY Bounds
  <2>2. full[Len(tokens)] = Len(input)
    BY <1>1, Bounds DEF Splits
  <2>. QED  BY <1>1, <2>1, <2>2 DEF Splits
<1>5. ASSUME NEW j \in 0 .. Len(tokens), NEW k \in 0 .. Len(tokens), j <= k
      PROVE  full[j] <= full[k]
  <2>1. CASE k <= t
    <3>1. j \in 0 .. t /\ k \in 0 .. t /\ full[j] = cut[j] /\ full[k] = cut[k]
      BY <1>5, <2>1, Bounds
    <3>. QED  BY <1>1, <1>5, <3>1 DEF Splits
  <2>2. CASE ~(k <= t)
    <3>1. full[k] = s /\ (full[j] = s \/ (j \in 0 .. t /\ full[j] = cut[j]))
      BY <2>2, Bounds
    <3>. QED  BY <1>2, <3>1, Bounds
  <2>. QED  BY <2>1, <2>2
<1>6. ASSUME NEW k \in 1 .. Len(tokens), tokens[k] # AnyToken
      PROVE  full[k] = full[k - 1] + 1 /\ input[full[k]] = tokens[k]
  <2>1. k \in 1 .. t
    BY <1>6, Bounds
  <2>2. full[k] = cut[k] /\ full[k - 1] = cut[k - 1]
    BY <2>1, Bounds
  <2>. QED  BY <1>1, <1>6, <2>1, <2>2 DEF Splits
<1>. HIDE DEF full
<1>7. full \in Cuts
  BY <1>3, <1>4, <1>5, <1>6 DEF Cuts, IsCut
<1>. QED  BY <1>7

\* A literal left over has no character to take.
LEMMA NoIsRight ==
  ASSUME TypeOK, OnlyLiterals, Complete, s = Len(input),
         NEW k \in t + 1 .. Len(tokens), tokens[k] # AnyToken
  PROVE  Cuts = {}
<1>. SUFFICES ASSUME NEW cut \in Cuts PROVE FALSE
  OBVIOUS
<1>1. k \in 1 .. Len(tokens) /\ k \in 0 .. Len(tokens) /\ k - 1 \in 0 .. Len(tokens)
      /\ t \in 0 .. Len(tokens) /\ t <= k - 1
  BY Bounds
<1>2. cut[k] = cut[k - 1] + 1 /\ cut[t] <= cut[k - 1] /\ cut[t] >= s
  BY <1>1, CutFacts, AtLeast
<1>3. cut[k] \in Nat /\ cut[k - 1] \in Nat /\ cut[t] \in Nat /\ cut[k] <= Len(input)
  BY <1>1, CutFacts
<1>. QED  BY <1>2, <1>3, Bounds

LEMMA AnsweredNext ==
  ASSUME GlobInv, [Next]_vars
  PROVE  Answered'
<1>. USE DEF GlobInv
<1>1. Fits(tokens, input)' <=> Cuts # {}
  BY CallStays, FitsIsCuts
<1>2. CASE answer' = answer
  BY <1>1, <1>2, FitsIsCuts DEF Answered
<1>3. CASE GiveUp
  <2>. SUFFICES ASSUME NEW cut \in Cuts PROVE FALSE
    BY <1>1, <1>3 DEF GiveUp, Answered
  <2>. QED  BY <1>3, MismatchMovesOn DEF GiveUp, Complete, NotBehind
<1>4. CASE Finish
  <2>1. CASE \A k \in t + 1 .. Len(tokens) : tokens[k] = AnyToken
    BY <1>1, <1>4, <2>1, YesIsRight DEF Finish, Answered
  <2>2. CASE \E k \in t + 1 .. Len(tokens) : tokens[k] # AnyToken
    BY <1>1, <1>4, <2>2, NoIsRight DEF Finish, Answered
  <2>. QED  BY <2>1, <2>2
<1>. QED  BY <1>2, <1>3, <1>4
         DEF Next, TakeStar, TakeLiteral, Backtrack, vars

LEMMA InitGlob == Init => GlobInv
<1>. SUFFICES ASSUME Init PROVE GlobInv
  OBVIOUS
<1>1. TypeOK
  BY GlobAssumption DEF Init, TypeOK, NoStar
<1>2. Splits([k \in 0 .. 0 |-> 0], 0, 0)
  <2>. DEFINE cut == [k \in 0 .. 0 |-> 0]
  <2>1. cut \in [0 .. 0 -> 0 .. Len(input)]
    BY <1>1, Bounds
  <2>. QED  BY <2>1 DEF Splits
<1>3. Reached
  BY <1>2 DEF Init, Reached
<1>4. \A cut \in Cuts : cut[0] = 0
  BY DEF Cuts, IsCut
<1>. QED  BY <1>1, <1>3, <1>4
         DEF Init, GlobInv, OnlyLiterals, Complete, NotBehind, Answered

LEMMA NextGlob == GlobInv /\ [Next]_vars => GlobInv'
BY TypeNext, ReachedNext, OnlyLiteralsNext, CompleteNext, AnsweredNext DEF GlobInv

\* Every state of a call is well typed: the loop never reads past either end
\* (Pattern::matches).
THEOREM GlobTypeCorrect == Spec => []TypeOK
<1>1. GlobInv => TypeOK
  BY DEF GlobInv
<1>. QED  BY <1>1, InitGlob, NextGlob, PTL DEF Spec

\* For every pattern and input, matches answers yes exactly when the input can be
\* split between the tokens: going back to the last star only is enough
\* (Pattern::matches).
THEOREM OneStarIsEnough == Spec => []AnswerIsMeaning
<1>1. GlobInv => AnswerIsMeaning
  BY DEF GlobInv, TypeOK, Answered, AnswerIsMeaning
<1>. QED  BY <1>1, InitGlob, NextGlob, PTL DEF Spec

\* For every pattern and input, a call advances at every turn: the end of the last
\* star, then the token, never both fall back (Pattern::matches).
THEOREM AlwaysAdvances == Spec => Advances
<1>. DEFINE Step == \/ answer' # "pending"
                    \/ matched' > matched
                    \/ matched' = matched /\ t' > t
<1>1. GlobInv /\ [Next]_vars => [Step]_vars
  <2>. SUFFICES ASSUME TypeOK, Next PROVE Step
    BY DEF GlobInv
  <2>. USE Bounds DEF NoStar
  <2>1. CASE TakeStar
    BY <2>1 DEF TakeStar, TypeOK
  <2>2. CASE TakeLiteral
    BY <2>2 DEF TakeLiteral
  <2>3. CASE Backtrack
    BY <2>3 DEF Backtrack
  <2>4. CASE GiveUp \/ Finish
    BY <2>4 DEF GiveUp, Finish
  <2>. QED  BY <2>1, <2>2, <2>3, <2>4 DEF Next
<1>. QED  BY <1>1, InitGlob, NextGlob, PTL DEF Spec, Advances

----------------------------------------------------------------------------
(* From the text of a pattern to its tokens.                               *)

LEMMA ScanDef ==
  ASSUME NEW text \in Seq(Char)
  PROVE  /\ Scan(text) \in [0 .. Len(text) -> Seq(Token)]
         /\ Scan(text)[0] = << >>
         /\ \A k \in 1 .. Len(text) :
              Scan(text)[k] =
                IF \/ Escapes(text, k)
                   \/ /\ IsStar(text, k) /\ Scan(text)[k - 1] # << >>
                      /\ Last(Scan(text)[k - 1]) = AnyToken
                THEN Scan(text)[k - 1]
                ELSE Append(Scan(text)[k - 1], IF IsStar(text, k) THEN AnyToken ELSE text[k])
<1>. DEFINE Grow(k, ts) ==
              IF \/ Escapes(text, k)
                 \/ IsStar(text, k) /\ ts # << >> /\ Last(ts) = AnyToken
              THEN ts
              ELSE Append(ts, IF IsStar(text, k) THEN AnyToken ELSE text[k])
            step == [k \in 1 .. Len(text) |-> [ts \in Seq(Token) |-> Grow(k, ts)]]
<1>1. ASSUME NEW k \in 1 .. Len(text), NEW ts \in Seq(Token) PROVE Grow(k, ts) \in Seq(Token)
  <2>1. text[k] \in Token /\ AnyToken \in Token
    BY DEF Token
  <2>. QED  BY <2>1
<1>. HIDE DEF Grow
<1>2. step \in [1 .. Len(text) -> [Seq(Token) -> Seq(Token)]]
  BY <1>1
<1>3. \A k \in 1 .. Len(text), ts \in Seq(Token) : step[k][ts] = Grow(k, ts)
  OBVIOUS
<1>. HIDE DEF step
<1>4. PICK f \in [0 .. Len(text) -> Seq(Token)] :
        f[0] = << >> /\ \A k \in 1 .. Len(text) : f[k] = step[k][f[k - 1]]
  <2>1. << >> \in Seq(Token) /\ Len(text) \in Nat
    OBVIOUS
  <2>2. \E f : Iterates(f, Len(text), Seq(Token), << >>, step)
    BY <1>2, <2>1, Iteration
  <2>. QED  BY <2>2 DEF Iterates
<1>5. \A k \in 1 .. Len(text) : f[k] = Grow(k, f[k - 1])
  <2>1. \A k \in 1 .. Len(text) : f[k - 1] \in Seq(Token)
    OBVIOUS
  <2>. QED  BY <1>3, <1>4, <2>1
<1>6. f = [k \in 0 .. Len(text) |-> IF k = 0 THEN << >> ELSE Grow(k, f[k - 1])]
  BY <1>4, <1>5
<1>7. Scan(text) = [k \in 0 .. Len(text) |-> IF k = 0 THEN << >> ELSE Grow(k, Scan(text)[k - 1])]
  BY <1>6, Zenon DEF Scan, Grow
<1>8. \A k \in 1 .. Len(text) : Scan(text)[k] = Grow(k, Scan(text)[k - 1])
  BY <1>7
<1>9. Scan(text)[0] = << >>
  BY <1>7
<1>10. \A k \in 0 .. Len(text) : Scan(text)[k] \in Seq(Token)
  <2>. DEFINE g == Scan(text)
  <2>1. ASSUME NEW n \in 0 .. Len(text) - 1, g[n] \in Seq(Token) PROVE g[n + 1] \in Seq(Token)
    <3>1. n + 1 \in 1 .. Len(text) /\ (n + 1) - 1 = n
      OBVIOUS
    <3>2. g[n + 1] = Grow(n + 1, g[n])
      BY <1>8, <3>1
    <3>. QED  BY <1>1, <2>1, <3>1, <3>2
  <2>2. g[0] \in Seq(Token) /\ Len(text) \in Nat
    BY <1>9
  <2>. HIDE DEF g
  <2>3. \A k \in 0 .. Len(text) : g[k] \in Seq(Token)
    BY <2>1, <2>2, IterationType
  <2>. QED  BY <2>3 DEF g
<1>11. Scan(text) \in [0 .. Len(text) -> Seq(Token)]
  BY <1>7, <1>10
<1>. QED  BY <1>8, <1>9, <1>11 DEF Grow

\* A cut of n steps over the positions up to last; R[k][l] is where step k may
\* get to from l.
Steps(cut, n, last, R) ==
  /\ cut \in [0 .. n -> 0 .. last]
  /\ cut[0] = 0
  /\ \A k \in 1 .. n : cut[k] \in R[k][cut[k - 1]]

Ends(n, last, R) == {m \in 0 .. last : \E cut : Steps(cut, n, last, R) /\ cut[n] = m}

LEMMA EndsAtFirst ==
  ASSUME NEW last \in Nat, NEW R
  PROVE  Ends(0, last, R) = {0}
<1>1. Steps([k \in 0 .. 0 |-> 0], 0, last, R)
  BY DEF Steps
<1>2. 0 \in Ends(0, last, R)
  BY <1>1 DEF Ends
<1>3. \A m \in Ends(0, last, R) : m = 0
  BY DEF Ends, Steps
<1>. QED  BY <1>2, <1>3

LEMMA EndsNext ==
  ASSUME NEW n \in Nat, NEW last \in Nat, NEW R
  PROVE  Ends(n + 1, last, R) =
           {m \in 0 .. last : \E l \in Ends(n, last, R) : m \in R[n + 1][l]}
<1>1. ASSUME NEW m \in 0 .. last, NEW l \in Ends(n, last, R), m \in R[n + 1][l]
      PROVE  m \in Ends(n + 1, last, R)
  <2>1. PICK cut : Steps(cut, n, last, R) /\ cut[n] = l
    BY DEF Ends
  <2>. DEFINE more == [k \in 0 .. n + 1 |-> IF k = n + 1 THEN m ELSE cut[k]]
  <2>2. \A k \in 0 .. n : cut[k] \in 0 .. last /\ more[k] = cut[k]
    BY <2>1 DEF Steps
  <2>3. more \in [0 .. n + 1 -> 0 .. last] /\ more[0] = 0 /\ more[n + 1] = m
    BY <2>1, <2>2 DEF Steps
  <2>4. ASSUME NEW k \in 1 .. n + 1 PROVE more[k] \in R[k][more[k - 1]]
    <3>1. k - 1 \in 0 .. n /\ more[k - 1] = cut[k - 1]
      BY <2>2
    <3>2. CASE k = n + 1
      BY <1>1, <2>1, <2>3, <3>1, <3>2
    <3>3. CASE k # n + 1
      BY <2>1, <2>2, <3>1, <3>3 DEF Steps
    <3>. QED  BY <3>2, <3>3
  <2>. HIDE DEF more
  <2>5. Steps(more, n + 1, last, R)
    BY <2>3, <2>4 DEF Steps
  <2>. QED  BY <2>3, <2>5 DEF Ends
<1>2. ASSUME NEW m \in Ends(n + 1, last, R)
      PROVE  \E l \in Ends(n, last, R) : m \in R[n + 1][l]
  <2>1. PICK more : Steps(more, n + 1, last, R) /\ more[n + 1] = m
    BY DEF Ends
  <2>. DEFINE cut == [k \in 0 .. n |-> more[k]]
  <2>2. \A k \in 0 .. n : cut[k] = more[k] /\ cut[k] \in 0 .. last
    BY <2>1 DEF Steps
  <2>3. cut \in [0 .. n -> 0 .. last] /\ cut[0] = 0
    BY <2>1, <2>2 DEF Steps
  <2>4. ASSUME NEW k \in 1 .. n PROVE cut[k] \in R[k][cut[k - 1]]
    <3>1. k \in 0 .. n /\ k - 1 \in 0 .. n /\ k \in 1 .. n + 1
      OBVIOUS
    <3>2. cut[k] = more[k] /\ cut[k - 1] = more[k - 1]
      BY <2>2, <3>1
    <3>3. more[k] \in R[k][more[k - 1]]
      BY <2>1, <3>1 DEF Steps
    <3>. QED  BY <3>2, <3>3
  <2>. HIDE DEF cut
  <2>5. Steps(cut, n, last, R)
    BY <2>3, <2>4 DEF Steps
  <2>6. cut[n] \in Ends(n, last, R)
    BY <2>2, <2>5 DEF Ends
  <2>7. m \in R[n + 1][cut[n]]
    <3>1. n + 1 \in 1 .. n + 1 /\ (n + 1) - 1 = n
      OBVIOUS
    <3>2. more[n + 1] \in R[n + 1][more[n]]
      BY <2>1, <3>1 DEF Steps
    <3>. QED  BY <2>1, <2>2, <3>2
  <2>. QED  BY <2>6, <2>7
<1>3. Ends(n + 1, last, R) \subseteq 0 .. last
  BY DEF Ends
<1>. QED  BY <1>1, <1>2, <1>3

LEMMA EndsAlike ==
  ASSUME NEW n \in Nat, NEW last \in Nat, NEW R, NEW Q, \A k \in 1 .. n : R[k] = Q[k]
  PROVE  Ends(n, last, R) = Ends(n, last, Q)
<1>1. \A cut : Steps(cut, n, last, R) <=> Steps(cut, n, last, Q)
  BY DEF Steps
<1>. QED  BY <1>1 DEF Ends

\* What a token takes of a text, from l on.
Taken(a, of, l) ==
  {m \in 0 .. Len(of) : IF a = AnyToken THEN l <= m ELSE m = l + 1 /\ of[m] = a}

TokenTakes(ts, of) == [k \in 1 .. Len(ts) |-> [l \in 0 .. Len(of) |-> Taken(ts[k], of, l)]]

TextTakes(text, of) ==
  [k \in 1 .. Len(text) |->
     [l \in 0 .. Len(of) |->
        {m \in 0 .. Len(of) : IF Escapes(text, k) THEN m = l
                              ELSE IF IsStar(text, k) THEN l <= m
                              ELSE m = l + 1 /\ of[m] = text[k]}]]

TokensEnd(ts, of) == Ends(Len(ts), Len(of), TokenTakes(ts, of))

LEMMA AppendedEnds ==
  ASSUME NEW ts \in Seq(Token), NEW a \in Token, NEW of \in Seq(Char)
  PROVE  TokensEnd(Append(ts, a), of) =
           {m \in 0 .. Len(of) : \E l \in TokensEnd(ts, of) : m \in Taken(a, of, l)}
<1>. DEFINE n == Len(ts)
            more == Append(ts, a)
            R == TokenTakes(more, of)
<1>1. n \in Nat /\ Len(of) \in Nat /\ Len(more) = n + 1
  OBVIOUS
<1>2. more[n + 1] = a /\ \A k \in 1 .. n : more[k] = ts[k]
  OBVIOUS
<1>3. \A l \in 0 .. Len(of) : R[n + 1][l] = Taken(a, of, l)
  <2>1. n + 1 \in 1 .. Len(more)
    BY <1>1
  <2>. QED  BY <1>2, <2>1 DEF TokenTakes
<1>4. \A k \in 1 .. n : R[k] = TokenTakes(ts, of)[k]
  <2>1. SUFFICES ASSUME NEW k \in 1 .. n PROVE R[k] = TokenTakes(ts, of)[k]
    OBVIOUS
  <2>2. k \in 1 .. Len(more) /\ k \in 1 .. Len(ts)
    BY <1>1
  <2>. QED  BY <1>2, <2>2 DEF TokenTakes
<1>. HIDE DEF n, more, R
<1>5. Ends(n, Len(of), R) = Ends(n, Len(of), TokenTakes(ts, of))
  BY <1>1, <1>4, EndsAlike
<1>6. Ends(n + 1, Len(of), R) =
        {m \in 0 .. Len(of) : \E l \in Ends(n, Len(of), R) : m \in R[n + 1][l]}
  BY <1>1, EndsNext
<1>7. Ends(n, Len(of), R) \subseteq 0 .. Len(of)
  BY DEF Ends
<1>. QED  BY <1>1, <1>3, <1>5, <1>6, <1>7 DEF n, more, R, TokensEnd

\* Where a last star may stop, it may stop later.
LEMMA StarEndsLater ==
  ASSUME NEW ts \in Seq(Token), NEW of \in Seq(Char), ts # << >>, Last(ts) = AnyToken,
         NEW l \in TokensEnd(ts, of), NEW m \in 0 .. Len(of), l <= m
  PROVE  m \in TokensEnd(ts, of)
<1>. DEFINE n == Len(ts) - 1
            R == TokenTakes(ts, of)
<1>1. n \in Nat /\ Len(of) \in Nat /\ Len(ts) = n + 1 /\ n + 1 \in 1 .. Len(ts)
  OBVIOUS
<1>2. ts[n + 1] = AnyToken
  BY <1>1 DEF Last
<1>3. \A j \in 0 .. Len(of) : R[n + 1][j] = Taken(AnyToken, of, j)
  BY <1>1, <1>2 DEF TokenTakes
<1>. HIDE DEF n, R
<1>4. TokensEnd(ts, of) = {e \in 0 .. Len(of) : \E j \in Ends(n, Len(of), R) : e \in R[n + 1][j]}
  BY <1>1, EndsNext DEF TokensEnd, R
<1>5. PICK j \in Ends(n, Len(of), R) : l \in R[n + 1][j]
  BY <1>4
<1>6. j \in 0 .. Len(of)
  BY DEF Ends
<1>7. j <= l /\ l \in 0 .. Len(of)
  BY <1>3, <1>5, <1>6 DEF Taken
<1>8. m \in R[n + 1][j]
  BY <1>3, <1>6, <1>7 DEF Taken
<1>. QED  BY <1>4, <1>8

\* The tokens of the first k characters can stop where these can.
LEMMA ScanKeepsEnds ==
  ASSUME NEW text \in Seq(Char), NEW of \in Seq(Char)
  PROVE  \A k \in 0 .. Len(text) :
           TokensEnd(Scan(text)[k], of) = Ends(k, Len(of), TextTakes(text, of))
<1>. DEFINE ts == Scan(text)
            R == TextTakes(text, of)
            Same == {k \in 0 .. Len(text) : TokensEnd(ts[k], of) = Ends(k, Len(of), R)}
<1>1. Len(text) \in Nat /\ Len(of) \in Nat /\ Len(<< >>) = 0
  OBVIOUS
<1>2. \A k \in 0 .. Len(text) : ts[k] \in Seq(Token)
  BY ScanDef
<1>3. 0 \in Same
  <2>1. ts[0] = << >>
    BY ScanDef
  <2>2. TokensEnd(<< >>, of) = {0}
    BY <1>1, EndsAtFirst DEF TokensEnd
  <2>3. Ends(0, Len(of), R) = {0}
    BY <1>1, EndsAtFirst
  <2>4. 0 \in 0 .. Len(text)
    BY <1>1
  <2>. HIDE DEF ts, R
  <2>. QED  BY <2>1, <2>2, <2>3, <2>4
<1>4. ASSUME NEW n \in 0 .. Len(text) - 1, n \in Same PROVE n + 1 \in Same
  <2>. DEFINE k == n + 1
              before == TokensEnd(ts[n], of)
  <2>1. k \in 1 .. Len(text) /\ k - 1 = n /\ n \in 0 .. Len(text) /\ k \in 0 .. Len(text) /\ n \in Nat
    OBVIOUS
  <2>2. Ends(k, Len(of), R) = {m \in 0 .. Len(of) : \E l \in before : m \in R[k][l]}
    <3>1. before = Ends(n, Len(of), R)
      BY <1>4
    <3>. HIDE DEF R, ts, before
    <3>2. Ends(n + 1, Len(of), R) = {m \in 0 .. Len(of) : \E l \in Ends(n, Len(of), R) : m \in R[n + 1][l]}
      <4>1. n \in Nat /\ Len(of) \in Nat
        BY <1>1, <2>1
      <4>. QED  BY <4>1, EndsNext
    <3>. QED  BY <3>1, <3>2
  <2>3. before \subseteq 0 .. Len(of)
    BY DEF TokensEnd, Ends
  <2>4. ts[k] = IF \/ Escapes(text, k)
                   \/ IsStar(text, k) /\ ts[n] # << >> /\ Last(ts[n]) = AnyToken
                THEN ts[n]
                ELSE Append(ts[n], IF IsStar(text, k) THEN AnyToken ELSE text[k])
    BY <2>1, ScanDef
  <2>5. \A l \in 0 .. Len(of) :
          R[k][l] = {m \in 0 .. Len(of) : IF Escapes(text, k) THEN m = l
                                         ELSE IF IsStar(text, k) THEN l <= m
                                         ELSE m = l + 1 /\ of[m] = text[k]}
    BY <2>1 DEF TextTakes
  <2>6. ts[n] \in Seq(Token) /\ text[k] \in Char
    BY <1>2, <2>1
  <2>. HIDE DEF ts, R, before, k
  <2>7. CASE Escapes(text, k)
    <3>1. \A l \in before : R[k][l] = {l}
      BY <2>3, <2>5, <2>7
    <3>2. Ends(k, Len(of), R) = before
      <4>1. \A m \in 0 .. Len(of) : (\E l \in before : m \in R[k][l]) <=> m \in before
        BY <3>1
      <4>. QED  BY <2>2, <2>3, <4>1
    <3>. QED  BY <2>1, <2>4, <2>7, <3>2 DEF before, k
  <2>8. CASE ~Escapes(text, k) /\ IsStar(text, k)
    <3>1. Ends(k, Len(of), R) = {m \in 0 .. Len(of) : \E l \in before : l <= m}
      BY <2>2, <2>3, <2>5, <2>8
    <3>2. CASE ts[n] # << >> /\ Last(ts[n]) = AnyToken
      <4>1. \A l \in before, m \in 0 .. Len(of) : l <= m => m \in before
        BY <2>6, <3>2, StarEndsLater DEF before
      <4>2. \A m \in before : m <= m
        BY <2>3
      <4>3. Ends(k, Len(of), R) = before
        BY <2>3, <3>1, <4>1, <4>2
      <4>. QED  BY <2>1, <2>4, <2>8, <3>2, <4>3 DEF before, k
    <3>3. CASE ~(ts[n] # << >> /\ Last(ts[n]) = AnyToken)
      <4>1. ts[k] = Append(ts[n], AnyToken)
        BY <2>4, <2>8, <3>3
      <4>2. TokensEnd(ts[k], of) = {m \in 0 .. Len(of) : \E l \in before : m \in Taken(AnyToken, of, l)}
        BY <2>6, <4>1, AppendedEnds DEF before, Token
      <4>3. TokensEnd(ts[k], of) = Ends(k, Len(of), R)
        BY <3>1, <4>2 DEF Taken
      <4>. QED  BY <2>1, <4>3 DEF k
    <3>. QED  BY <3>2, <3>3
  <2>9. CASE ~Escapes(text, k) /\ ~IsStar(text, k)
    <3>1. ts[k] = Append(ts[n], text[k])
      BY <2>4, <2>9
    <3>2. text[k] \in Token /\ text[k] # AnyToken
      BY <2>6, GlobAssumption DEF Token
    <3>3. TokensEnd(ts[k], of) = {m \in 0 .. Len(of) : \E l \in before : m \in Taken(text[k], of, l)}
      BY <2>6, <3>1, <3>2, AppendedEnds DEF before
    <3>4. \A l \in before : R[k][l] = Taken(text[k], of, l)
      BY <2>3, <2>5, <2>9, <3>2 DEF Taken
    <3>5. TokensEnd(ts[k], of) = Ends(k, Len(of), R)
      BY <2>2, <3>3, <3>4
    <3>. QED  BY <2>1, <3>5 DEF k
  <2>. QED  BY <2>7, <2>8, <2>9
<1>. HIDE DEF Same
<1>5. 0 .. Len(text) \subseteq Same
  BY <1>1, <1>3, <1>4, InductionUpTo
<1>. QED  BY <1>5 DEF Same

LEMMA TextFitsItsEnds ==
  ASSUME NEW text \in Seq(Char), NEW of \in Seq(Char)
  PROVE  TextFits(text, of) <=> Len(of) \in Ends(Len(text), Len(of), TextTakes(text, of))
<1>. DEFINE R == TextTakes(text, of)
<1>1. Len(text) \in Nat /\ Len(of) \in Nat
  OBVIOUS
<1>2. ASSUME NEW cut \in [0 .. Len(text) -> 0 .. Len(of)], NEW k \in 1 .. Len(text)
      PROVE  cut[k] \in R[k][cut[k - 1]] <=>
               IF Escapes(text, k) THEN cut[k] = cut[k - 1]
               ELSE IF IsStar(text, k) THEN cut[k - 1] <= cut[k]
               ELSE cut[k] = cut[k - 1] + 1 /\ of[cut[k]] = text[k]
  <2>1. k \in 0 .. Len(text) /\ k - 1 \in 0 .. Len(text)
    OBVIOUS
  <2>2. cut[k] \in 0 .. Len(of) /\ cut[k - 1] \in 0 .. Len(of)
    BY <2>1
  <2>. QED  BY <2>2 DEF TextTakes
<1>. HIDE DEF R
<1>3. TextFits(text, of) <=>
        \E cut : Steps(cut, Len(text), Len(of), R) /\ cut[Len(text)] = Len(of)
  BY <1>2 DEF TextFits, Steps
<1>. QED  BY <1>1, <1>3 DEF Ends, R

LEMMA FitsItsEnds ==
  ASSUME NEW ts \in Seq(Token), NEW of \in Seq(Char)
  PROVE  Fits(ts, of) <=> Len(of) \in TokensEnd(ts, of)
<1>. DEFINE R == TokenTakes(ts, of)
            n == Len(ts)
<1>1. n \in Nat /\ Len(of) \in Nat
  OBVIOUS
<1>2. ASSUME NEW cut \in [0 .. n -> 0 .. Len(of)], NEW k \in 1 .. n
      PROVE  cut[k] \in R[k][cut[k - 1]] <=>
               IF ts[k] = AnyToken THEN cut[k - 1] <= cut[k]
               ELSE cut[k] = cut[k - 1] + 1 /\ of[cut[k]] = ts[k]
  <2>1. k \in 0 .. n /\ k - 1 \in 0 .. n
    OBVIOUS
  <2>2. cut[k] \in 0 .. Len(of) /\ cut[k - 1] \in 0 .. Len(of)
    BY <2>1
  <2>. QED  BY <2>2 DEF TokenTakes, Taken
<1>. HIDE DEF R, n
<1>3. ASSUME NEW cut \in [0 .. n -> 0 .. Len(of)],
             \A k \in 1 .. n : cut[k - 1] <= cut[k],
             NEW j \in 0 .. n
      PROVE  \A k \in 0 .. n : j <= k => cut[j] <= cut[k]
  <2>. DEFINE S == {k \in 0 .. n : j <= k => cut[j] <= cut[k]}
  <2>1. 0 \in S
    BY <1>1
  <2>2. ASSUME NEW k \in 0 .. n - 1, k \in S PROVE k + 1 \in S
    <3>1. k + 1 \in 1 .. n /\ (k + 1) - 1 = k /\ k \in 0 .. n /\ k + 1 \in 0 .. n
      BY <1>1
    <3>2. cut[k] <= cut[k + 1]
      BY <1>3, <3>1
    <3>3. cut[j] \in 0 .. Len(of) /\ cut[k] \in 0 .. Len(of) /\ cut[k + 1] \in 0 .. Len(of)
      BY <3>1
    <3>. QED  BY <1>1, <2>2, <3>1, <3>2, <3>3
  <2>. HIDE DEF S
  <2>3. 0 .. n \subseteq S
    BY <1>1, <2>1, <2>2, InductionUpTo
  <2>. QED  BY <2>3 DEF S
<1>4. ASSUME NEW cut \in [0 .. n -> 0 .. Len(of)]
      PROVE  IsCut(cut, ts, of) <=> Steps(cut, n, Len(of), R) /\ cut[n] = Len(of)
  <2>1. ASSUME IsCut(cut, ts, of) PROVE Steps(cut, n, Len(of), R) /\ cut[n] = Len(of)
    <3>1. ASSUME NEW k \in 1 .. n PROVE cut[k] \in R[k][cut[k - 1]]
      <4>1. k - 1 \in 0 .. n /\ k \in 0 .. n /\ k - 1 <= k
        BY <1>1
      <4>2. cut[k - 1] <= cut[k]
        BY <2>1, <4>1 DEF IsCut, n
      <4>. QED  BY <1>2, <2>1, <4>2 DEF IsCut, n
    <3>. QED  BY <2>1, <3>1 DEF IsCut, Steps, n
  <2>2. ASSUME Steps(cut, n, Len(of), R), cut[n] = Len(of) PROVE IsCut(cut, ts, of)
    <3>1. ASSUME NEW k \in 1 .. n
          PROVE  /\ cut[k - 1] <= cut[k]
                 /\ ts[k] # AnyToken => cut[k] = cut[k - 1] + 1 /\ of[cut[k]] = ts[k]
      <4>1. k - 1 \in 0 .. n /\ k \in 0 .. n
        BY <1>1
      <4>2. cut[k] \in 0 .. Len(of) /\ cut[k - 1] \in 0 .. Len(of)
        BY <4>1
      <4>3. cut[k] \in R[k][cut[k - 1]]
        BY <2>2 DEF Steps
      <4>4. CASE ts[k] = AnyToken
        BY <1>2, <4>3, <4>4
      <4>5. CASE ts[k] # AnyToken
        <5>1. cut[k] = cut[k - 1] + 1 /\ of[cut[k]] = ts[k]
          BY <1>2, <4>3, <4>5
        <5>. QED  BY <4>2, <4>5, <5>1
      <4>. QED  BY <4>4, <4>5
    <3>2. \A j, k \in 0 .. n : j <= k => cut[j] <= cut[k]
      BY <1>3, <3>1
    <3>. QED  BY <2>2, <3>1, <3>2 DEF IsCut, Steps, n
  <2>. QED  BY <2>1, <2>2
<1>5. Fits(ts, of) <=> \E cut : Steps(cut, n, Len(of), R) /\ cut[n] = Len(of)
  BY <1>4 DEF Fits, Steps, n
<1>. QED  BY <1>1, <1>5 DEF Ends, TokensEnd, R, n

\* A pattern compiled means what it meant as written.
LEMMA CompileKeepsMeaning ==
  ASSUME NEW text \in Seq(Char), NEW of \in Seq(Char)
  PROVE  /\ Compile(text) \in Seq(Token)
         /\ Fits(Compile(text), of) <=> TextFits(text, of)
<1>1. Len(text) \in 0 .. Len(text)
  OBVIOUS
<1>2. Compile(text) \in Seq(Token)
  BY <1>1, ScanDef DEF Compile
<1>3. TokensEnd(Compile(text), of) = Ends(Len(text), Len(of), TextTakes(text, of))
  BY <1>1, ScanKeepsEnds DEF Compile
<1>. QED  BY <1>2, <1>3, FitsItsEnds, TextFitsItsEnds

\* For every pattern as written and every input, what matches answers on the
\* compiled pattern is what the text means: neither the escapes nor the merging
\* of stars changes it (Pattern::parse, Pattern::matches).
THEOREM TextIsKept == Spec => []TextKeepsItsMeaning
<1>1. GlobInv => TextKeepsItsMeaning
  <2>. SUFFICES ASSUME GlobInv, answer # "pending", NEW text \in Texts, Compiled[text] = tokens
                PROVE  answer = "yes" <=> TextFits(text, input)
    BY DEF TextKeepsItsMeaning
  <2>1. text \in Seq(Char) /\ input \in Seq(Char)
    BY GlobTextAssumption DEF GlobInv, TypeOK
  <2>2. tokens = Compile(text)
    BY DEF Compiled
  <2>3. answer = "yes" <=> Fits(tokens, input)
    BY DEF GlobInv, TypeOK, Answered
  <2>. QED  BY <2>1, <2>2, <2>3, CompileKeepsMeaning
<1>. QED  BY <1>1, InitGlob, NextGlob, PTL DEF Spec
=============================================================================
