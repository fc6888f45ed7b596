------------------------------- MODULE Reading -------------------------------
(***************************************************************************)
(* What a reader returns: an error, or what it read and the position after *)
(* it.  Positions count what was read.                                     *)
(***************************************************************************)

CONSTANT None  \* Rust's None

Fail(error) == [error |-> error, value |-> [kind |-> "nothing"], pos |-> 0]
Read(value, pos) == [error |-> "Ok", value |-> value, pos |-> pos]
IsOk(r) == r.error = "Ok"

\* The code's `?`: go on with what was read, or return the error.
Then(r, Next(_, _)) == IF IsOk(r) THEN Next(r.value, r.pos) ELSE r

\* map_err: what was read, or another error.
OrElse(r, error) == IF IsOk(r) THEN r ELSE Fail(error)

\* What was read, unless a check of it failed.
Checked(error, r) == IF error = "Ok" THEN r ELSE Fail(error)
=============================================================================
