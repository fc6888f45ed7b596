------------------------------ MODULE MCCodec ------------------------------
(***************************************************************************)
(* A byte has 128 values: eight major types of 16 low values, of which 0-3 *)
(* hold an argument, 4-6 announce one of 1-3 bytes and 15 an indefinite    *)
(* length.  Characters are seven bits as well.  A key has one byte, or two *)
(* of secp256k1, and there is no backend for ML-DSA-44.                    *)
(***************************************************************************)
EXTENDS Codec

MCByte(major, info) == major * 16 + info
MCCids == {<<1>>, <<2, 3>>}
MCCidTexts == (<<1>> :> <<Codes("b1"), Codes("B1")>>) @@ (<<2, 3>> :> <<Codes("z23")>>)
MCZero == <<0>>
MCNegativeZero == <<64>>
MCNotFinite == {<<127>>}

Leaves ==
  {Simple(name) : name \in {"false", "true", "null"}}
    \cup {Integer(n) : n \in {-MaxArg - 2, -MaxArg - 1, -129, -128, -5, -4, -1, 0, 3, 4, 127, 128,
                              16383, 16384, MaxArg, MaxArg + 1}}
    \cup {Float(b) : b \in {<<0>>, <<1>>, <<64>>, <<127>>}}
    \cup {Bytes(b) : b \in {<< >>, <<127>>, <<0, 1, 2, 3, 4>>}}
    \cup {Text(t) : t \in {<< >>, <<1>>, <<1, 2>>}}
    \cup {Link(cid) : cid \in MCCids}
Few == {Integer(4), Float(<<64>>), Text(<<1>>), Link(<<1>>)}

Containers(items) ==
  {List(<< >>), Map(<< >>)}
    \cup {List(<<a>>) : a \in items} \cup {List(<<a, Simple("null")>>) : a \in items}
    \cup {Map(keys) : keys \in UNION {[ks -> items] :
            ks \in {{<<1>>}, {<<2>>, <<1, 1>>}, {<< >>, <<1>>}, {<<1>>, <<2>>}}}}

\* Three levels around a value.
Deep(v) == List(<<Map([key \in {<<1>>} |-> List(<<v>>)])>>)
Around(v) == {v, List(<<v>>), Deep(v), List(<<Deep(v)>>), List(<<List(<<Deep(v)>>)>>)}

CborValues ==
  Leaves \cup Containers(Few) \cup Containers({List(<< >>), List(<<Integer(4)>>)})
    \cup Around(Integer(1)) \cup Around(List(<< >>))

TextKeys == {{Codes("a")}, {Codes("b"), Codes("aa")}, {Codes("/")}, {Codes("/"), Codes("a")}}
JsonValues ==
  Leaves \cup UNION {Around(v) : v \in {Integer(1), Map(<< >>), Bytes(<<1, 2>>), Link(<<1>>)}}
    \cup {Bytes(b) : b \in {<<255>>, <<62, 63>>, <<251, 255, 191>>, <<1, 2, 3, 4>>}}
    \cup {Text(t) : t \in {<<0>>, <<8>>, <<9, 10>>, <<12, 13>>, <<31>>, <<32>>, Codes("\"\\/"),
                           Codes("a") \o <<233>>}}
    \cup {Map(of) : of \in UNION {[ks -> {Integer(1), Link(<<2, 3>>)}] : ks \in TextKeys}}

----------------------------------------------------------------------------
MCKeyLen == [a \in Algorithms |-> IF a = "Secp256k1" THEN 2 ELSE 1]
MCSignatureOf ==
  [a \in Algorithms |-> CASE a = "MlDsa44" -> <<7, 7, 7>> [] a = "MlDsa65" -> <<7, 7, 7, 7>>
                          [] a = "MlDsa87" -> <<7, 7, 7, 7, 7>> [] OTHER -> <<7, 7>>]
MCSignatureLen == [a \in Algorithms |-> Len(MCSignatureOf[a])]
MCAvailable == Algorithms \ {"MlDsa44"}
MCNotKeys == {<<9>>}
\* A signature under P-256 has one twin.
MCTwins == [a \in Algorithms |-> IF a = "P256" THEN {<< <<7, 7>>, <<7, 2>> >>} ELSE {}]

KeyOf(algorithm, bs) == [algorithm |-> algorithm, bytes |-> bs]
Alice == KeyOf("Ed25519", <<1>>)
MCKeys == {Alice, KeyOf("Secp256k1", <<0, 3>>), KeyOf("P256", <<6>>), KeyOf("MlDsa44", <<4>>),
           KeyOf("MlDsa87", <<5>>)}

Bob == Codes("did:web:b")
BobsFirst == Codes("did:web:b#1")
Carol == Codes("did:web:c")

Statement == List(<<Text(Codes("==")), Text(Codes(".a")), Integer(1)>>)
MCPolicies == {List(<< >>), List(<<Statement>>)}
MCTimeMax == 20

MapOf(value) == [key \in {Codes("a")} |-> value]

Grant == [aud |-> Bob, sub |-> Carol, cmd |-> Codes("/a"), nonce |-> <<1>>, exp |-> 9]
Request == [sub |-> Bob, cmd |-> Codes("/a/b"), nonce |-> << >>, exp |-> None]

Order(kind, set) == [kind |-> kind, set |-> set, fragment |-> << >>]
MCOrders ==
  {Order("Delegation", set) : set \in
      {[pol |-> List(<<Statement>>)] @@ Grant,
       [Grant EXCEPT !.sub = None, !.exp = None, !.cmd = Root],
       [nbf |-> -20, meta |-> MapOf(Float(<<64>>))] @@ [Grant EXCEPT !.exp = 20],
       [meta |-> MapOf(Bytes(<<1>>))] @@ Grant}}
  \cup {Order("Invocation", set) : set \in
      {[args |-> MapOf(Float(<<64>>)), prf |-> <<<<1>>>>] @@ Request,
       [aud |-> BobsFirst] @@ [Request EXCEPT !.exp = 0],
       [aud |-> Carol, prf |-> <<<<2, 3>>, <<1>>>>, meta |-> MapOf(Simple("null"))] @@ Request,
       [args |-> MapOf(Bytes(<<5>>)), iat |-> 3, cause |-> <<1>>] @@ Request,
       [args |-> MapOf(Float(<<127>>))] @@ Request}}
  \cup {[Order("Delegation", Grant) EXCEPT !.fragment = Codes("#k")]}

MCRewordings ==
  {Simple("null"), Integer(-21), Text(Bob), Text(Codes("/a/")), Map(NoFacts), Map(MapOf(Integer(1))),
   List(<<Link(<<1>>)>>), Link(<<1>>)}

----------------------------------------------------------------------------
MCCommands == {Root, Codes("/a"), Codes("/a/b"), Codes("/ab"), Codes("/b")}
CommandSeeds == {Codes("/ab/a"), Codes("/a/ab/b")}

DidSeeds ==
  {DidOfKey(key) : key \in MCKeys} \cup {DidOfKey(Alice) \o Codes("#k"), Codes("did:web:%41")}
    \* A multicodec that is not minimal, an unknown one, a byte too many, none, and no key.
    \cup {KeyPrefix \o <<Base58Btc>> \o Base58(raw) :
            raw \in {<<109, 67, 0, 1>>, <<112, 3, 1>>, <<109, 3, 1, 1>>, <<109, 3>>, <<109, 3, 9>>,
                     <<0, 109, 3, 1>>}}

SelectorSeeds ==
  {Codes(text) : text \in {".[\"\\u0041\"]", ".[\"\\u+041\"]", ".[\"\\ud800\"]",
                           ".[\"\\ud83d\\ude00\"]", ".[\"\\n\\\"\"].a", ".a[\"\"]?.b",
                           ".[-16:15][]", ".[-16]??", "."}}
    \cup {Codes(".[\"") \o <<10>> \o Codes("\"]")}

MCValues ==
  [f \in Forms |-> CASE f = "cbor" -> CborValues [] f = "json" -> JsonValues [] f = "token" -> {}
                     [] f = "command" -> CommandSeeds [] f = "did" -> DidSeeds
                     [] f = "selector" -> SelectorSeeds]

CborAlphabet ==
  {MCByte(0, info) : info \in {0, 1, 2, 4, 5, 7, 15}}
    \cup {MCByte(major, info) : major \in 1 .. 2, info \in {1, 4, 6}}
    \cup {MCByte(3, info) : info \in {0, 1, 2}}
    \cup {MCByte(4, info) : info \in {1, 2}} \cup {MCByte(5, info) : info \in {1, 2}}
    \cup {MCByte(6, info) : info \in {1, 2}}
    \cup {MCByte(7, info) : info \in {0, 2, 3, 4, 5, 6, 15}} \cup {64}
\* Lengths, the heads of an array, a map and a string, and letters of names.
TokenAlphabet == {2, 109}

MCAlphabet ==
  [f \in Forms |-> CASE f = "cbor" -> CborAlphabet
                     [] f = "json" -> ToSet(Codes("{}[]\":,/\\-01aun.")) \cup {10}
                     [] f = "token" -> TokenAlphabet
                     [] f = "command" -> ToSet(Codes("/abA"))
                     [] f = "did" -> ToSet(Codes("1z#:%K"))
                     [] f = "selector" -> ToSet(Codes(".[]\"\\?a1-:"))]
MCMaxLen ==
  [f \in Forms |-> CASE f = "cbor" -> 4 [] f = "json" -> 5 [] f = "token" -> 0 [] f = "command" -> 6
                     [] f = "did" -> 0 [] f = "selector" -> 7]

MCNumbers == {0, 1, 63, 64, 127, 128, 4095, 4096, 8191}
=============================================================================
