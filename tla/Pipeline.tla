------------------------------ MODULE Pipeline ------------------------------
(***************************************************************************)
(* Validator::validate as the function of its inputs that a call made over *)
(* stores nobody else writes computes (src/validate.rs).  A validator is a *)
(* record of what it was given:                                            *)
(*                                                                         *)
(*   [now, skew, max, held, revoked]                                       *)
(*                                                                         *)
(* An error is a string, "Ok" for none, and a position goes unreported.    *)
(* The executor and the replay guard are not attached: this is the         *)
(* pipeline as check_revocation puts a grant through it.                   *)
(***************************************************************************)
EXTENDS Chain

\* Rust's `?`: the second check is made only when the first passes.
a ?? b == IF a = "Ok" THEN b ELSE a

\* A loop over positions that returns on its first failure.
FirstOf(errors) ==
  LET failed == {k \in DOMAIN errors : errors[k] # "Ok"}
  IN  IF failed = {} THEN "Ok"
      ELSE errors[CHOOSE k \in failed : \A j \in failed : k <= j]

\* self.max_proofs against a chain of n delegations.
ProofLimitError(v, n) ==
  IF v.max # None /\ n > v.max THEN "TooManyProofs" ELSE "Ok"

HeldError(v, prf) ==
  FirstOf([k \in DOMAIN prf |-> IF prf[k] \in v.held THEN "Ok" ELSE "MissingProof"])

\* check_structure.  `last` holds the token the last hop was given for, if any.
StructureError(chain, subject, last) ==
  LET tokens == chain \o last
  IN  RootError(chain, subject)
      ?? FirstOf([k \in DOMAIN chain |-> SubjectError(chain[k], subject)])
      ?? FirstOf([k \in 1 .. Len(tokens) - 1 |-> LinkageError(chain[k], tokens[k + 1])])

\* verify_chain.
SignaturesError(chain) ==
  FirstOf([k \in DOMAIN chain |-> SignatureError(chain[k])])

\* check_time along the first n delegations.
WindowsError(v, chain, n) ==
  FirstOf([k \in 1 .. n |-> WindowError(chain[k].nbf, chain[k].exp, v.now, v.skew)])

\* check_revocations over the first n delegations, whose own CIDs are `cids`.
RevocationsError(v, cids, chain, n) ==
  FirstOf([k \in 1 .. n |->
             IF IsRevoked(v.revoked, cids[k], Issuers(chain)) THEN "Revoked" ELSE "Ok"])

\* Invocation::check_time and Invocation::verify.
InvocationWindowError(v, i) == WindowError(None, Invocations[i].exp, v.now, v.skew)

PipelineError(v, i) ==
  LET inv == Invocations[i]
      chain == ChainOf(i)
      n == Len(inv.prf)
  IN  ProofLimitError(v, n)
      ?? HeldError(v, inv.prf)
      ?? StructureError(chain, inv.sub, <<inv>>)
      ?? WindowsError(v, chain, n) ?? InvocationWindowError(v, i)
      ?? SignaturesError(chain) ?? SignatureError(inv)
      ?? RevocationsError(v, [k \in Hops(i) |-> CidAt(i, k)], chain, n)
      ?? FirstOf([k \in Hops(i) |-> PolicyError(chain[k], inv.args)])
=============================================================================
