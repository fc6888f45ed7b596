------------------------------ MODULE UcanTime ------------------------------
(***************************************************************************)
(* Timestamps, expiries and validity windows (src/time.rs).                *)
(*                                                                         *)
(* A timestamp is a whole number of seconds in -MaxTime .. MaxTime; in the *)
(* code MaxTime is 2^53 - 1.  A skew is a u32, always non-negative, and    *)
(* moving a timestamp by a skew saturates at the two ends.                 *)
(***************************************************************************)
EXTENDS Integers

CONSTANTS
  MaxTime,   \* Timestamp::MAX; Timestamp::MIN is its negation
  None,      \* an Option that is absent
  Never      \* Expiry::Never

ASSUME TimeAssumption ==
  /\ MaxTime \in Nat
  /\ None \notin Int
  /\ Never \notin Int

Timestamp == -MaxTime .. MaxTime
Expiry == Timestamp \cup {Never}

PlusSeconds(t, s) == IF t + s > MaxTime THEN MaxTime ELSE t + s
MinusSeconds(t, s) == IF t - s < -MaxTime THEN -MaxTime ELSE t - s

\* Expiry::is_past: the expiry itself is inclusive, and skew extends it.
IsPast(exp, now, skew) == exp # Never /\ now > PlusSeconds(exp, skew)

NotYetValid(nbf, now, skew) == nbf # None /\ now < MinusSeconds(nbf, skew)

\* check_window: a token too early is reported as such even if it is also past.
WindowError(nbf, exp, now, skew) ==
  IF NotYetValid(nbf, now, skew) THEN "NotYetValid"
  ELSE IF IsPast(exp, now, skew) THEN "Expired"
  ELSE "Ok"
=============================================================================
