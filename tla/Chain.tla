------------------------------- MODULE Chain -------------------------------
(***************************************************************************)
(* The checks the validator makes on the delegations of a chain, one       *)
(* operator per check and per hop (src/validate.rs).  Each names the error *)
(* it would report, or "Ok".  Positions count from 1, root first; the      *)
(* code's Hop::Proof(n) is position n + 1, and the invocation itself is    *)
(* the position after the last delegation.                                 *)
(***************************************************************************)
EXTENDS Ucan

Everywhere == "everywhere"    \* Recorded::everywhere

\* The delegations an invocation names, once every one has been found.
ChainOf(i) ==
  [k \in DOMAIN Invocations[i].prf |-> Delegations[Resolves[Invocations[i].prf[k]]]]

\* Mutant: the link in `prf` instead of the delegation's own CID.
CidAtLink(i, k) == Invocations[i].prf[k]

\* The own CID of the delegation at position k, whatever link named it.
CidAt(i, k) == Resolves[Invocations[i].prf[k]]

Hops(i) == 1 .. Len(Invocations[i].prf)

\* The token that follows the delegation at position k.
TokenAt(i, k) ==
  IF k \in Hops(i) THEN ChainOf(i)[k] ELSE Invocations[i]

\* Mutant: a root may be a powerline.
RootErrorOpenPowerline(chain, subject) ==
  IF chain = << >> THEN "EmptyChain"
  ELSE IF ~SamePrincipal(chain[1].iss, subject) THEN "RootNotSubject"
  ELSE "Ok"

\* Mutant: check 4 made before check 3.
RootErrorPowerlineFirst(chain, subject) ==
  IF chain = << >> THEN "EmptyChain"
  ELSE IF chain[1].sub = Powerline THEN "PowerlineAtRoot"
  ELSE IF ~SamePrincipal(chain[1].iss, subject) THEN "RootNotSubject"
  ELSE "Ok"

\* check_structure, 2 to 4: what is required of the root.
RootError(chain, subject) ==
  IF chain = << >> THEN "EmptyChain"
  ELSE IF ~SamePrincipal(chain[1].iss, subject) THEN "RootNotSubject"
  ELSE IF chain[1].sub = Powerline THEN "PowerlineAtRoot"
  ELSE "Ok"

\* check_structure, 5: a powerline inherits, anything else must be the subject.
SubjectError(d, subject) ==
  IF d.sub # Powerline /\ ~SamePrincipal(d.sub, subject)
  THEN "SubjectMismatch" ELSE "Ok"

\* check_structure, 6 and 7: one hop's audience, then the same hop's command.
LinkageError(d, next) ==
  IF ~SamePrincipal(d.aud, next.iss) THEN "PrincipalMismatch"
  ELSE IF ~Covers(d.cmd, next.cmd) THEN "CommandNotCovered"
  ELSE "Ok"

\* check_time: an invocation has no lower bound.
TimeError(i, k, now, skew) ==
  LET nbf == IF k \in Hops(i) THEN TokenAt(i, k).nbf ELSE None
  IN  WindowError(nbf, TokenAt(i, k).exp, now, skew)

\* The principals that issued in a chain, which is what is_revoked is told.
Issuers(chain) == {chain[j].iss.base : j \in DOMAIN chain}

\* is_revoked: revoked everywhere, or by a principal among `issuers`.  It
\* compares by principal, so what a store holds are bases of DIDs.
IsRevoked(revoked, cid, issuers) ==
  \E by \in issuers \cup {Everywhere} : <<cid, by>> \in revoked
=============================================================================
