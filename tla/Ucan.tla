-------------------------------- MODULE Ucan --------------------------------
(***************************************************************************)
(* The vocabulary of the validator: DIDs, commands, policies, and the two  *)
(* token types as the validator reads them.                                *)
(*                                                                         *)
(* A DID keeps only what same_principal and a resolver tell apart: its     *)
(* base and whatever path, query or fragment follows it.  A command is its *)
(* sequence of segments.  A policy statement is the set of argument maps   *)
(* that satisfy it.  A signature is the key that made it.  A token is      *)
(* addressed by the CID of its bytes, so the constant functions            *)
(* Delegations and Invocations never change; Resolves says which bytes a   *)
(* link in `prf` hashes, because a store may know a delegation under       *)
(* another CID of the same bytes.                                          *)
(***************************************************************************)
EXTENDS UcanTime, SequencesExt

CONSTANTS
  Principal,    \* bases of DIDs, `did:method:id`
  DidPart,      \* what may follow the base
  Segment,      \* segments of a command
  Args,         \* argument maps
  Key,          \* public keys
  Powerline,    \* Subject::Powerline
  Cid,          \* CIDs of delegations, computed from their bytes
  Link,         \* links a `prf` may hold
  InvCid,       \* CIDs of invocations
  Delegations,  \* what each CID addresses
  Invocations,
  Resolves,     \* the bytes a link names
  KeyOf         \* what the Resolver answers for a DID, None when it fails

Did == [base : Principal, part : DidPart]
Command == Seq(Segment)
Policy == Seq(SUBSET Args)

Delegation ==
  [iss : Did, aud : Did, sub : Did \cup {Powerline}, cmd : Command,
   pol : Policy, nbf : Timestamp \cup {None}, exp : Expiry, signer : Key]

Invocation ==
  [iss : Did, sub : Did, aud : Did \cup {None}, cmd : Command, args : Args,
   prf : Seq(Link), exp : Expiry, signer : Key]

ASSUME TokensAssumption ==
  /\ Powerline \notin Did
  /\ None \notin Did
  /\ None \notin Key
  /\ Delegations \in [Cid -> Delegation]
  /\ Invocations \in [InvCid -> Invocation]
  /\ Resolves \in [Link -> Cid]
  /\ KeyOf \in [Did -> Key \cup {None}]

SamePrincipal(d, e) == d.base = e.base

\* Command::covers, on segment boundaries; the root command has no segments.
Covers(c, d) == IsPrefix(c, d)

\* Invocation::executor: `aud` when present, else `sub`.
ExecutorOf(i) == IF i.aud = None THEN i.sub ELSE i.aud

\* verify: resolve the issuer, then check the signature under that key.  A key
\* of another algorithm is one more key the signature was not made with.
SignatureError(token) ==
  IF KeyOf[token.iss] = None THEN "Unresolvable"
  ELSE IF KeyOf[token.iss] # token.signer THEN "BadSignature"
  ELSE "Ok"

\* Policy::check: a policy is the conjunction of its statements.
PolicyError(d, args) ==
  IF \A k \in DOMAIN d.pol : args \in d.pol[k] THEN "Ok" ELSE "PolicyRejected"
=============================================================================
