------------------------------- MODULE Tokens -------------------------------
(***************************************************************************)
(* Delegations and invocations as they are built, signed, carried and read *)
(* (src/delegation.rs, src/invocation.rs, the fields of src/envelope.rs).  *)
(*                                                                         *)
(* A payload is a record of its fields; None is a field left out, an       *)
(* expiry that never comes, and the subject of a powerline.                *)
(***************************************************************************)
EXTENDS Envelope

CONSTANTS
  Policies,  \* values that are read as a policy
  TimeMax    \* the latest Timestamp

FieldNames ==
  {"iss", "aud", "sub", "cmd", "pol", "nonce", "exp", "nbf", "meta", "args", "prf", "iat", "cause"}
Field == [name \in FieldNames |-> Codes(name)]

ASSUME TokensAssumption ==
  /\ TimeMax \in Nat /\ TimeMax <= MaxArg
  /\ \A a, b \in FieldNames : Field[a] = Field[b] => a = b
  /\ \A policy \in Policies : policy.kind = "list"

\* The fields of a payload, in the order they are read.
DelegationFields == << "iss", "aud", "sub", "cmd", "pol", "nonce", "exp", "nbf", "meta" >>
InvocationFields ==
  << "iss", "sub", "aud", "cmd", "args", "prf", "meta", "nonce", "exp", "iat", "cause" >>
ReadOrder(kind) == IF kind = "Delegation" THEN DelegationFields ELSE InvocationFields
FieldsOf(kind) == ToSet(ReadOrder(kind))
OptionalIn(kind) ==
  IF kind = "Delegation" THEN {"nbf", "meta"} ELSE {"aud", "meta", "iat", "cause"}

NullValue == Simple("null")
NoFacts == << >>  \* an empty map

----------------------------------------------------------------------------
(* Reading: what is wrong with a field, then what it holds.                *)

Has(of, name) == Field[name] \in DOMAIN of

KindError(value, kind) == IF value.kind = kind THEN "Ok" ELSE "Type"
DidValueError(value) ==
  IF value.kind # "text" THEN "Type" ELSE IF DidError(value.bytes) # "Ok" THEN "Did" ELSE "Ok"
CommandValueError(value) ==
  IF value.kind # "text" THEN "Type" ELSE IF CommandError(value.bytes) # "Ok" THEN "Command" ELSE "Ok"
TimeError(value) ==
  IF value.kind # "integer" THEN "Type"
  ELSE IF value.num \notin -TimeMax .. TimeMax THEN "Range" ELSE "Ok"
LinksError(value) ==
  IF value.kind # "list" \/ \E k \in DOMAIN value.items : value.items[k].kind # "link"
  THEN "Type" ELSE "Ok"

\* null is a subject, or an expiry, that is not named.
NullableIn(kind) == IF kind = "Delegation" THEN {"sub", "exp"} ELSE {"exp"}

ValueError(kind, name, value) ==
  IF value = NullValue /\ name \in NullableIn(kind) THEN "Ok"
  ELSE CASE name \in {"iss", "aud", "sub"} -> DidValueError(value)
         [] name = "cmd" -> CommandValueError(value)
         [] name = "pol" -> IF value \in Policies THEN "Ok" ELSE "Policy"
         [] name = "nonce" -> KindError(value, "bytes")
         [] name \in {"exp", "nbf", "iat"} -> TimeError(value)
         [] name \in {"args", "meta"} -> KindError(value, "map")
         [] name = "prf" -> LinksError(value)
         [] name = "cause" -> KindError(value, "link")

\* An invocation names its executor only when that is not its subject, and
\* has no facts rather than none of them.
IsForbidden(kind, of, name) ==
  /\ kind = "Invocation"
  /\ \/ /\ name = "aud"
        /\ Has(of, "sub") /\ DidValueError(of[Field["sub"]]) = "Ok"
        /\ SameBase(of[Field["aud"]].bytes, of[Field["sub"]].bytes)
     \/ name = "meta" /\ of[Field["meta"]].of = NoFacts

FieldError(kind, of, name) ==
  IF ~Has(of, name) THEN IF name \in OptionalIn(kind) THEN "Ok" ELSE "Missing"
  ELSE LET error == ValueError(kind, name, of[Field[name]])
       IN  IF error # "Ok" THEN error
           ELSE IF IsForbidden(kind, of, name) THEN "Forbidden" ELSE "Ok"

\* Mutant of UnknownError: what is left over is let pass.
UnknownErrorLax(kind, of) == "Ok"
\* Fields::finish.
UnknownError(kind, of) ==
  IF DOMAIN of \subseteq {Field[name] : name \in FieldsOf(kind)} THEN "Ok" ELSE "Unknown"

FirstError(errors) ==
  IF ToSet(errors) = {"Ok"} THEN "Ok"
  ELSE errors[Min({k \in DOMAIN errors : errors[k] # "Ok"})]

\* DelegationPayload::from_ipld and InvocationPayload::from_ipld: field by
\* field, then what is left over.
TypedError(kind, of) ==
  FirstError([k \in DOMAIN ReadOrder(kind) |-> FieldError(kind, of, ReadOrder(kind)[k])]
               \o << UnknownError(kind, of) >>)

Held(name, value) ==
  IF value = NullValue THEN None
  ELSE CASE name \in {"exp", "nbf", "iat"} -> value.num
         [] name \in {"args", "meta"} -> value.of
         [] name = "prf" -> [k \in DOMAIN value.items |-> value.items[k].bytes]
         [] name = "pol" -> value
         [] name \in {"iss", "aud", "sub", "cmd", "nonce", "cause"} -> value.bytes
FromIpld(kind, of) ==
  Checked(TypedError(kind, of),
    Read([name \in FieldsOf(kind) |->
            IF Has(of, name) THEN Held(name, of[Field[name]])
            ELSE IF name = "meta" THEN NoFacts ELSE None], 0))

----------------------------------------------------------------------------
(* Writing.                                                                *)

ValueOfField(name, held) ==
  IF held = None THEN NullValue
  ELSE CASE name \in {"iss", "aud", "sub", "cmd"} -> Text(held)
         [] name = "pol" -> held
         [] name = "nonce" -> Bytes(held)
         [] name \in {"exp", "nbf", "iat"} -> Integer(held)
         [] name \in {"args", "meta"} -> Map(held)
         [] name = "prf" -> List([k \in DOMAIN held |-> Link(held[k])])
         [] name = "cause" -> Link(held)

\* Fields that are not written: facts when there are none, and what is unset.
IsOmitted(kind, name, held) ==
  \/ name = "meta" /\ held = NoFacts
  \/ held = None /\ (name \in {"nbf", "iat", "cause"} \/ (kind = "Invocation" /\ name = "aud"))

MapOfFields(names, payload) ==
  LET NameOf(field) == CHOOSE name \in names : Field[name] = field
  IN  Map([field \in {Field[name] : name \in names} |->
             ValueOfField(NameOf(field), payload[NameOf(field)])])

\* DelegationPayload::to_ipld and InvocationPayload::to_ipld.
ToIpld(kind, payload) ==
  MapOfFields({name \in FieldsOf(kind) : ~IsOmitted(kind, name, payload[name])}, payload)

----------------------------------------------------------------------------
(* Building.                                                               *)

\* Delegation::builder and Invocation::builder: what is there before it is set.
DelegationDefaults == [pol |-> List(<< >>), meta |-> NoFacts, nbf |-> None]
InvocationDefaults ==
  [aud |-> None, args |-> NoFacts, prf |-> << >>, meta |-> NoFacts, iat |-> None, cause |-> None]

\* The builders' setters: what was set takes the place of what was there.
Chosen(kind, set) ==
  set @@ IF kind = "Delegation" THEN DelegationDefaults ELSE InvocationDefaults

\* DelegationBuilder::payload.
DelegationPayload(fields, issuer) == ("iss" :> issuer) @@ fields

\* Mutant: the audience stays, whoever it is.
InvocationPayloadAddressed(fields, issuer) == ("iss" :> issuer) @@ fields
\* InvocationBuilder::payload: an audience that is the subject is dropped.
InvocationPayload(fields, issuer) ==
  IF fields.aud = None THEN ("iss" :> issuer) @@ fields
  ELSE IF SameBase(fields.aud, fields.sub) THEN ("iss" :> issuer) @@ [fields EXCEPT !.aud = None]
  ELSE ("iss" :> issuer) @@ fields

Build(kind, set, issuer) ==
  IF kind = "Delegation" THEN DelegationPayload(Chosen(kind, set), issuer)
  ELSE InvocationPayload(Chosen(kind, set), issuer)

\* prepare_with, and sign under the header a signer's algorithm has.
PrepareToken(header, kind, payload) == Prepare(header, kind, ToIpld(kind, payload))

----------------------------------------------------------------------------
\* from_parts: a token of the kind that was asked for.
TokenOf(kind, opened) ==
  IF opened.kind # kind THEN Fail("WrongKind")
  ELSE Then(FromIpld(kind, opened.payload.of), LAMBDA payload, p :
         Read([envelope |-> opened, payload |-> payload], 0))

\* Delegation::decode_with and Invocation::decode_with.
DecodeToken(kind, s, lenient) ==
  Then(Open(s, lenient), LAMBDA opened, at : TokenOf(kind, opened))

\* Delegation::assemble and Invocation::assemble.
AssembleToken(kind, signed, signature) ==
  Then(Assemble(signed, signature), LAMBDA assembled, p :
    Then(TokenOf(kind, assembled.envelope), LAMBDA token, q :
      Read([token |-> token, bytes |-> assembled.bytes], 0)))

\* Delegation::verify and Invocation::verify, with a KeyResolver.
VerifyToken(token, made) ==
  Then(Resolve(token.payload.iss), LAMBDA key, p :
    Fail(EnvelopeError(token.envelope, key, made))).error

\* Invocation::task_id, the bytes its CID is made of.
TaskOf(payload) == Encode(MapOfFields({"sub", "cmd", "args", "nonce"}, payload))
=============================================================================
