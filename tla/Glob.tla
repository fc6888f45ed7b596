-------------------------------- MODULE Glob --------------------------------
(***************************************************************************)
(* Pattern::matches (src/policy/glob.rs): whether the whole of an input    *)
(* matches a compiled pattern.  One behaviour is one call; a step is one   *)
(* turn of its loop, and the last one the answer.                          *)
(*                                                                         *)
(* The code remembers one star only, the last it met, and on a mismatch    *)
(* lets that star take one character more.  That this is enough is the     *)
(* property to check.                                                      *)
(***************************************************************************)
EXTENDS Integers, Sequences

CONSTANTS
  Char,      \* characters
  AnyToken,       \* Token::Any; a literal token is its character
  Patterns,  \* compiled patterns
  Inputs     \* bound: texts to match

Token == Char \cup {AnyToken}

ASSUME GlobAssumption ==
  /\ AnyToken \notin Char
  /\ Patterns \subseteq Seq(Token)
  /\ Inputs \subseteq Seq(Char)

VARIABLES
  tokens, input,  \* of the call
  s, t,           \* how much of the input and of the tokens is used up
  star, matched,  \* backtrack: tokens before the last star, input it begins with
  answer          \* "pending" until matches returns

vars == <<tokens, input, s, t, star, matched, answer>>

NoStar == -1

TypeOK ==
  /\ tokens \in Seq(Token)
  /\ input \in Seq(Char)
  /\ s \in 0 .. Len(input)
  /\ t \in 0 .. Len(tokens)
  /\ star \in {NoStar} \cup 0 .. t - 1
  /\ matched \in {NoStar} \cup 0 .. s
  /\ star = NoStar <=> matched = NoStar
  /\ answer \in {"pending", "yes", "no"}

Init ==
  /\ tokens \in Patterns
  /\ input \in Inputs
  /\ s = 0 /\ t = 0
  /\ star = NoStar /\ matched = NoStar
  /\ answer = "pending"

----------------------------------------------------------------------------
InLoop == answer = "pending" /\ s < Len(input)

\* The next token cannot take the next character.
Mismatch == t < Len(tokens) => tokens[t + 1] \notin {AnyToken, input[s + 1]}

\* Mutant: a star takes at least one character.
TakeStarHungry ==
  /\ InLoop
  /\ t < Len(tokens) /\ tokens[t + 1] = AnyToken
  /\ star' = t /\ matched' = s + 1
  /\ t' = t + 1
  /\ UNCHANGED <<tokens, input, s, answer>>

TakeStar ==
  /\ InLoop
  /\ t < Len(tokens) /\ tokens[t + 1] = AnyToken
  /\ star' = t /\ matched' = s
  /\ t' = t + 1
  /\ UNCHANGED <<tokens, input, s, answer>>

TakeLiteral ==
  /\ InLoop
  /\ t < Len(tokens) /\ tokens[t + 1] = input[s + 1]
  /\ s' = s + 1 /\ t' = t + 1
  /\ UNCHANGED <<tokens, input, star, matched, answer>>

\* Mutant: matching resumes where it failed, not behind the star's new end.
BacktrackInPlace ==
  /\ InLoop /\ Mismatch /\ star # NoStar
  /\ t' = star + 1 /\ s' = s + 1
  /\ matched' = matched + 1
  /\ UNCHANGED <<tokens, input, star, answer>>

\* Mutant: the star is not given the character it took.
BacktrackForgetting ==
  /\ InLoop /\ Mismatch /\ star # NoStar
  /\ t' = star + 1 /\ s' = matched + 1
  /\ UNCHANGED <<tokens, input, star, matched, answer>>

Backtrack ==
  /\ InLoop /\ Mismatch /\ star # NoStar
  /\ t' = star + 1 /\ s' = matched + 1
  /\ matched' = matched + 1
  /\ UNCHANGED <<tokens, input, star, answer>>

GiveUp ==
  /\ InLoop /\ Mismatch /\ star = NoStar
  /\ answer' = "no"
  /\ UNCHANGED <<tokens, input, s, t, star, matched>>

\* The input is used up: what is left of the tokens must be stars.
Finish ==
  /\ answer = "pending" /\ s = Len(input)
  /\ answer' = IF \A k \in t + 1 .. Len(tokens) : tokens[k] = AnyToken THEN "yes" ELSE "no"
  /\ UNCHANGED <<tokens, input, s, t, star, matched>>

Next == TakeStar \/ TakeLiteral \/ Backtrack \/ GiveUp \/ Finish

Spec == Init /\ [][Next]_vars /\ WF_vars(Next)

----------------------------------------------------------------------------
\* cut[k] is where the k-th token stops: the tokens split the input between
\* them, in order, a star any number of characters and a literal its own.
IsCut(cut, ts, text) ==
  /\ cut[0] = 0
  /\ cut[Len(ts)] = Len(text)
  /\ \A j, k \in 0 .. Len(ts) : j <= k => cut[j] <= cut[k]
  /\ \A k \in 1 .. Len(ts) :
       ts[k] # AnyToken => cut[k] = cut[k - 1] + 1 /\ text[cut[k]] = ts[k]

Fits(ts, text) ==
  \E cut \in [0 .. Len(ts) -> 0 .. Len(text)] : IsCut(cut, ts, text)

\* matches answers yes exactly when some way of splitting the input between the
\* tokens exists: no earlier star ever has to be tried again.
AnswerIsMeaning ==
  answer # "pending" => (answer = "yes" <=> Fits(tokens, input))

\* Each turn decides, or lets the last star begin further on, or goes on to a
\* later token: a call takes at most (|input| + 2) * (|tokens| + 1) turns, never
\* exponentially many.
Advances ==
  [][\/ answer' # "pending"
     \/ matched' > matched
     \/ matched' = matched /\ t' > t]_vars

\* matches returns.
Answers == <>(answer # "pending")
=============================================================================
