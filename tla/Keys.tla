-------------------------------- MODULE Keys --------------------------------
(***************************************************************************)
(* Signature algorithms, keys, signatures, and the did:key that names a    *)
(* key (src/crypto/mod.rs, src/did.rs).  The backends are external.  What  *)
(* was made is a set of records of a key, a message and the bytes, and it  *)
(* is assumed of the algorithms that nothing else verifies over a message, *)
(* but for the twins of what was made: bytes that differ and that verify   *)
(* wherever it does.                                                       *)
(***************************************************************************)
EXTENDS Names, Varint, Reading

CONSTANTS
  KeyLen, SignatureLen,  \* lengths of an algorithm's keys and signatures
  Available,             \* the algorithms a build has a backend for
  NotKeys,               \* external: bytes that no backend takes for a key
  Twins                  \* external: an algorithm's pairs of a signature and a twin of it

All == << "Ed25519", "P256", "Secp256k1", "MlDsa44", "MlDsa65", "MlDsa87" >>
Algorithms == ToSet(All)

ASSUME KeysAssumption ==
  /\ KeyLen \in [Algorithms -> Nat \ {0}] /\ SignatureLen \in [Algorithms -> Nat \ {0}]
  /\ Available \subseteq Algorithms

\* Algorithm::multicodec.
Multicodec(algorithm) ==
  CASE algorithm = "Ed25519" -> 237    \* 0xed
    [] algorithm = "P256" -> 4608      \* 0x1200
    [] algorithm = "Secp256k1" -> 231  \* 0xe7
    [] algorithm = "MlDsa44" -> 4624   \* 0x1210 ..
    [] algorithm = "MlDsa65" -> 4625
    [] algorithm = "MlDsa87" -> 4626

\* Algorithm::from_multicodec.
IsMulticodec(code) == \E a \in Algorithms : Multicodec(a) = code
FromMulticodec(code) == CHOOSE a \in Algorithms : Multicodec(a) = code

\* PublicKey::new: what no backend reads is a key as long as there is none.
PublicKey(algorithm, bytes) ==
  IF \/ Len(bytes) # KeyLen[algorithm]
     \/ algorithm \in Available /\ bytes \in NotKeys
  THEN Fail("InvalidKey")
  ELSE Read([algorithm |-> algorithm, bytes |-> bytes], 0)

\* Signature::new.
Signature(algorithm, bytes) ==
  IF Len(bytes) # SignatureLen[algorithm] THEN Fail("InvalidSignature")
  ELSE Read([algorithm |-> algorithm, bytes |-> bytes], 0)

\* What verifies in place of a signature: itself, and under ECDSA the one of the
\* opposite s too, which the verify of crypto/p256.rs does not refuse.
WithTwins(algorithm, signature) ==
  {signature} \cup {pair[2] : pair \in {p \in Twins[algorithm] : p[1] = signature}}

\* PublicKey::verify and the dispatch to a backend.
VerifyError(key, message, signature, made) ==
  IF signature.algorithm # key.algorithm THEN "AlgorithmMismatch"
  ELSE IF key.algorithm \notin Available THEN "Unsupported"
  ELSE IF \E m \in made : /\ m.key = key /\ m.message = message
                          /\ signature.bytes \in WithTwins(key.algorithm, m.signature)
  THEN "Ok"
  ELSE "VerificationFailed"

----------------------------------------------------------------------------
(* external: base58btc, a number written in 58 digits, and a `1` for each  *)
(* leading zero.                                                           *)

Base58Alphabet == Codes("123456789ABCDEFGHJKLMNPQRSTUVWXYZabcdefghijkmnopqrstuvwxyz")
DigitOf(c) == (CHOOSE k \in 1 .. 58 : Base58Alphabet[k] = c) - 1
ByteSize == 2 * Group

\* The digits in base of a number times by and plus n, from the last one on.
Scaled(digits, base, by, n) ==
  LET upTo[k \in 0 .. Len(digits)] ==
        [carry \in Nat |->
           IF k = 0 THEN DigitsIn(base, carry)
           ELSE Append(upTo[k - 1][(digits[k] * by + carry) \div base], (digits[k] * by + carry) % base)]
  IN  upTo[Len(digits)][n]

LeadingZeros(digits) == SubSeq(digits, 1, PastAll(digits, 0, {0}))
Rebased(digits, from, to) ==
  LET upTo[k \in 0 .. Len(digits)] ==
        IF k = 0 THEN << >> ELSE Scaled(upTo[k - 1], to, from, digits[k])
  IN  LeadingZeros(digits) \o upTo[Len(digits)]

Base58(bytes) == [k \in DOMAIN Rebased(bytes, ByteSize, 58) |->
                    Base58Alphabet[Rebased(bytes, ByteSize, 58)[k] + 1]]
IsBase58(text) == ToSet(text) \subseteq ToSet(Base58Alphabet)
FromBase58(text) == Rebased([k \in DOMAIN text |-> DigitOf(text[k])], 58, ByteSize)

----------------------------------------------------------------------------
KeyPrefix == Codes("did:key:")
KeyMethod == Codes("key")
Base58Btc == Code["z"]

\* What the texts above are: digits that differ, and a prefix that is a scheme
\* and a method, in which nothing ends a DID.
ASSUME KeyTextAssumption ==
  /\ Base58Alphabet \in Seq(Nat) /\ Len(Base58Alphabet) = 58
  /\ \A j, k \in 1 .. 58 : Base58Alphabet[j] = Base58Alphabet[k] => j = k
  /\ KeyPrefix \in Seq(Nat) /\ Len(KeyPrefix) = 8 /\ ToSet(KeyPrefix) \cap UrlParts = {}
  /\ DidScheme = SubSeq(KeyPrefix, 1, 4) /\ KeyMethod = SubSeq(KeyPrefix, 5, 7)
  /\ Colon \notin ToSet(KeyMethod) /\ KeyPrefix[8] = Colon /\ Base58Btc \in Nat
  /\ UrlParts \subseteq Nat

\* Did::from_key.
DidOfKey(key) ==
  KeyPrefix \o << Base58Btc >> \o Base58(PutUvarint(Multicodec(key.algorithm)) \o key.bytes)

\* Mutant: what follows a key as long as its algorithm has them is let pass.
KeyInOpen(raw) ==
  LET code == ReadUvarint(raw)
      rest == SubSeq(raw, code.length + 1, Len(raw))
  IN  IF code.error # "Ok" THEN Fail("Multibase")
      ELSE IF ~IsMulticodec(code.value) THEN Fail("UnknownKeyType")
      ELSE OrElse(PublicKey(FromMulticodec(code.value),
                            SubSeq(rest, 1, Min({Len(rest), KeyLen[FromMulticodec(code.value)]}))), "Key")

\* The key in raw bytes: its multicodec, and what follows.
KeyIn(raw) ==
  LET code == ReadUvarint(raw)
  IN  IF code.error # "Ok" THEN Fail("Multibase")
      ELSE IF ~IsMulticodec(code.value) THEN Fail("UnknownKeyType")
      ELSE OrElse(PublicKey(FromMulticodec(code.value), SubSeq(raw, code.length + 1, Len(raw))), "Key")

\* Did::key.
KeyOfDid(did) ==
  LET id == MethodIdOf(did)
  IN  IF MethodOf(did) # KeyMethod THEN Fail("NotKey")
      ELSE IF id[1] # Base58Btc THEN Fail("Multibase")
      ELSE IF ~IsBase58(Tail(id)) THEN Fail("Base58")
      ELSE KeyIn(FromBase58(Tail(id)))

\* KeyResolver::resolve.
Resolve(did) == IF MethodOf(did) # KeyMethod THEN Fail("UnsupportedMethod") ELSE KeyOfDid(did)
=============================================================================
