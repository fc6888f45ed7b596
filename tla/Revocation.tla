----------------------------- MODULE Revocation -----------------------------
(***************************************************************************)
(* Whether a revocation should be recorded: Revocation::read and           *)
(* Validator::check_revocation (src/validate/revocation.rs).               *)
(*                                                                         *)
(* A revocation is an invocation of /ucan/revoke, so it is one of          *)
(* Invocations; what its argument map holds is what ArgumentsOf says, in   *)
(* the order of the names.  The chain presented with it is a sequence of   *)
(* the delegations' own CIDs.                                              *)
(***************************************************************************)
EXTENDS Pipeline

CONSTANTS
  RevokeCommand,  \* REVOKE_COMMAND
  ArgumentsOf     \* the arguments of an argument map, in order of their names

\* An argument is a list or not, and holds links; None stands for an element
\* that is not a link, and a single value that is not a link holds nothing.
Argument ==
  [name : {"path", "revoke", "other"}, list : BOOLEAN,
   links : Seq(Link \cup Cid \cup {None})]

ASSUME RevocationAssumption ==
  /\ RevokeCommand \in Command
  /\ None \notin Link \cup Cid
  /\ ArgumentsOf \in [Args -> Seq(Argument)]

----------------------------------------------------------------------------
(* Revocation::read.                                                       *)

ArgumentError(arg) ==
  IF arg.name = "other" THEN "UnknownArgument"
  ELSE IF arg.name = "revoke" /\ (arg.list \/ Len(arg.links) # 1) THEN "MalformedArgument"
  ELSE IF arg.name = "path" /\ (~arg.list \/ None \in {arg.links[k] : k \in DOMAIN arg.links})
  THEN "MalformedArgument"
  ELSE "Ok"

\* The links that the arguments of i give under `name`.
Named(i, name) ==
  LET args == ArgumentsOf[Invocations[i].args]
  IN  {args[k].links : k \in {m \in DOMAIN args : args[m].name = name}}

ReadError(i) ==
  LET args == ArgumentsOf[Invocations[i].args]
  IN  (IF Invocations[i].cmd # RevokeCommand THEN "NotARevocation" ELSE "Ok")
      ?? FirstOf([k \in DOMAIN args |-> ArgumentError(args[k])])
      ?? (IF Named(i, "revoke") = {} THEN "MissingTarget" ELSE "Ok")

----------------------------------------------------------------------------
(* check_revocation.                                                       *)

Presented(cids) == [k \in DOMAIN cids |-> Delegations[cids[k]]]

\* check_names_chain.
NamesError(i, cids) ==
  IF << Last(cids) >> \notin Named(i, "revoke") THEN "WrongTarget"
  ELSE IF \E path \in Named(i, "path") : path # cids THEN "PathMismatch"
  ELSE "Ok"

\* check_no_issuer_repeats.
LoopError(chain) ==
  IF \E j, k \in DOMAIN chain : j < k /\ SamePrincipal(chain[j].iss, chain[k].iss)
  THEN "RepeatedIssuer" ELSE "Ok"

\* The first position at which a principal issues, 0 when nowhere.
IssuedAt(chain, did) ==
  LET places == {k \in DOMAIN chain : SamePrincipal(chain[k].iss, did)}
  IN  IF places = {} THEN 0 ELSE CHOOSE k \in places : \A j \in places : k <= j

\* The revoker's own right is used before any that was delegated to them.
IsDelegated(i, cids) == IssuedAt(Presented(cids), Invocations[i].iss) = 0

\* Mutant: the authority is always who the revocation names as its subject.
AuthorityOfSubject(i, cids) == Invocations[i].sub

\* AcceptedRevocation::authority: whose right is used.
AuthorityOf(i, cids) ==
  IF IsDelegated(i, cids) THEN Invocations[i].sub ELSE Invocations[i].iss

\* The position whose issuer that is.
RightAt(i, cids) == IssuedAt(Presented(cids), AuthorityOf(i, cids))

\* Steps 10 and 11: there is a right to use, and the revoker has it.
RightError(v, i, cids) ==
  IF IssuedAt(Presented(cids), Invocations[i].sub) = 0 THEN "SubjectNotInChain"
  ELSE IF ~IsDelegated(i, cids) THEN "Ok"
  ELSE IF Invocations[i].prf = << >> THEN "NotAuthorized"
  ELSE PipelineError(v, i)

\* Mutant: no look at the time bounds of the hops above.
StandingErrorTimeless(v, i, cids) ==
  RevocationsError(v, cids, Presented(cids), RightAt(i, cids) - 1)

\* Mutant: the delegation to revoke must itself still stand.
StandingErrorAll(v, i, cids) ==
  WindowsError(v, Presented(cids), Len(cids))
  ?? RevocationsError(v, cids, Presented(cids), Len(cids))

\* check_standing: the hops above the one whose right is used.
StandingError(v, i, cids) ==
  LET above == RightAt(i, cids) - 1
  IN  WindowsError(v, Presented(cids), above)
      ?? RevocationsError(v, cids, Presented(cids), above)

CheckRevocationError(v, subject, i, cids) ==
  LET chain == Presented(cids)
  IN  ReadError(i)
      ?? ProofLimitError(v, Len(cids))
      ?? StructureError(chain, subject, << >>)
      ?? NamesError(i, cids)
      ?? LoopError(chain)
      ?? SignatureError(Invocations[i]) ?? InvocationWindowError(v, i)
      ?? SignaturesError(chain)
      ?? RightError(v, i, cids)
      ?? StandingError(v, i, cids)
=============================================================================
