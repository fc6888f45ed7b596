------------------------------- MODULE Varsig -------------------------------
(***************************************************************************)
(* Varsig headers (src/varsig.rs): the algorithm of a signature and the    *)
(* form of the payload it covers.                                          *)
(***************************************************************************)
EXTENDS Keys

VarsigPrefix == 52    \* PREFIX, 0x34
VarsigVersion == 1
DagCborCode == 113    \* 0x71
DagJsonCode == 297    \* 0x0129
Eddsa == 237          \* 0xed
Ecdsa == 236          \* 0xec
Sha256 == 18
Sha512 == 19

Encodings == {"DagCbor", "DagJson"}
EncodingCode(encoding) == IF encoding = "DagCbor" THEN DagCborCode ELSE DagJsonCode

Headers == [algorithm : Algorithms, encoding : Encodings]

\* segments: the algorithm's, after the version.
SegmentsFor(algorithm) ==
  CASE algorithm = "Ed25519" -> << Eddsa, 237, Sha512 >>
    [] algorithm = "P256" -> << Ecdsa, 4608, Sha256 >>
    [] algorithm = "Secp256k1" -> << Ecdsa, 231, Sha256 >>
    [] OTHER -> << Multicodec(algorithm) >>

\* Header::encode.
EncodeHeader(header) ==
  << VarsigPrefix, VarsigVersion >>
    \o FlattenSeq([k \in DOMAIN SegmentsFor(header.algorithm) |->
                     PutUvarint(SegmentsFor(header.algorithm)[k])])
    \o PutUvarint(EncodingCode(header.encoding))

\* All of bytes as varints.
Varints(bytes) ==
  LET from[pos \in 0 .. Len(bytes)] ==
        LET first == ReadUvarint(SubSeq(bytes, pos + 1, Len(bytes)))
        IN  IF pos = Len(bytes) THEN Read(<< >>, pos)
            ELSE IF first.error # "Ok" THEN Fail("Varint")
            ELSE Then(from[pos + first.length], LAMBDA rest, past :
                   Read(<< first.value >> \o rest, past))
  IN  from[0]

\* Why segments name no algorithm.
SegmentsError(segments) ==
  IF segments = << >> THEN "Truncated"
  ELSE IF segments[1] \in {Eddsa, Ecdsa} \/ IsMulticodec(segments[1]) THEN "UnsupportedParameters"
  ELSE "UnknownAlgorithm"

HeaderOf(segments, code) ==
  IF \A a \in Algorithms : SegmentsFor(a) # segments THEN Fail(SegmentsError(segments))
  ELSE IF \A e \in Encodings : EncodingCode(e) # code THEN Fail("UnsupportedEncoding")
  ELSE Read([algorithm |-> CHOOSE a \in Algorithms : SegmentsFor(a) = segments,
             encoding |-> CHOOSE e \in Encodings : EncodingCode(e) = code], 0)

\* Header::decode.
DecodeHeader(bytes) ==
  IF ~Begins(bytes, 0, << VarsigPrefix >>) THEN Fail("Prefix")
  ELSE IF ~Begins(bytes, 1, << VarsigVersion >>) THEN Fail("Version")
  ELSE Then(Varints(SubSeq(bytes, 3, Len(bytes))), LAMBDA read, p :
         IF read = << >> THEN Fail("Truncated") ELSE HeaderOf(Front(read), Last(read)))
=============================================================================
