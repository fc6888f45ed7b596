----------------------------- MODULE MCDecision -----------------------------
(***************************************************************************)
(* One Validator over many chains: every way the checks of a chain come    *)
(* out, against what acceptance is meant to say.                           *)
(*                                                                         *)
(* CIDs are numbers: those of delegations index Proofs, those of           *)
(* invocations Calls.                                                      *)
(***************************************************************************)
EXTENDS Atomic

MCPrincipal == {"alice", "bob", "carol"}
MCDidPart == {"", "#key-2"}
MCSegment == {"x", "y"}
MCArgs == {"small", "large"}
MCKey == MCPrincipal \cup {"other"}

D(p) == [base |-> p, part |-> ""]
DFragment(p) == [base |-> p, part |-> "#key-2"]

\* alice's second key is one the resolver does not know.
MCKeyOf == [d \in [base : MCPrincipal, part : MCDidPart] |->
              IF d = DFragment("alice") THEN None ELSE d.base]

Delegate(iss, aud, sub, cmd) ==
  [iss |-> iss, aud |-> aud, sub |-> sub, cmd |-> cmd, pol |-> << >>,
   nbf |-> None, exp |-> Never, signer |-> iss.base]

At(s, n) == s[(n % Len(s)) + 1]

\* 1 .. 36: every mix of issuer, audience, subject and command.
Structural ==
  [n \in 1 .. 36 |->
     Delegate(At(<<D("alice"), D("bob")>>, n), At(<<D("bob"), D("carol")>>, n \div 2),
              At(<<D("alice"), D("bob"), Powerline>>, n \div 4),
              At(<< << >>, <<"x">>, <<"x", "y">> >>, n \div 12))]

\* 37 .. 45: from bob to himself, for the middle of three.
Middle ==
  [n \in 1 .. 9 |->
     Delegate(D("bob"), D("bob"), At(<<D("alice"), D("bob"), Powerline>>, n),
              At(<< << >>, <<"x">>, <<"x", "y">> >>, n \div 3))]

\* Sixteen ways to spoil or to bound a good delegation.
Variants(d) ==
  [n \in 1 .. 5 |-> [d EXCEPT !.exp = n - 3]]
    \o [n \in 1 .. 5 |-> [d EXCEPT !.nbf = n - 3]]
    \o << [d EXCEPT !.nbf = 2, !.exp = -2], [d EXCEPT !.signer = "other"],
          [d EXCEPT !.iss = DFragment(d.iss.base)],
          [d EXCEPT !.aud = DFragment(d.aud.base)],
          [d EXCEPT !.pol = <<MCArgs, {"small"}>>],
          [d EXCEPT !.pol = <<{"large"}, MCArgs>>] >>

Root == Delegate(D("alice"), D("bob"), D("alice"), <<"x">>)
Leaf == Delegate(D("bob"), D("carol"), Powerline, <<"x">>)
Deep == Delegate(D("bob"), D("carol"), Powerline, <<"x", "y">>)

\* 46 .. 61 and 62 .. 77 vary the root and the leaf, 78 to 80 are as they come.
Proofs ==
  Structural \o Middle \o Variants(Root) \o Variants(Leaf) \o <<Root, Leaf, Deep>>
R == 78
L == 79

Chains ==
  [n \in 1 .. 1296 |-> <<1 + (n % 36), 1 + ((n \div 36) % 36)>>]
    \o [n \in 1 .. 9 |-> <<R, 36 + n, L>>]
    \o [n \in 1 .. 9 |-> <<R, 36 + n, 80>>]
    \o [n \in 1 .. 16 |-> <<45 + n, L>>]
    \o [n \in 1 .. 16 |-> <<R, 61 + n>>]
    \o << << >>, <<R, L, L, L>>, <<46, 73>>, <<R>> >>

Invoke(prf, cmd) ==
  [iss |-> D("carol"), sub |-> D("alice"), aud |-> None, cmd |-> cmd,
   args |-> "large", prf |-> prf, exp |-> Never, signer |-> "carol"]
Good == Invoke(<<R, L>>, <<"x", "y">>)

Calls ==
  [n \in DOMAIN Chains |-> Invoke(Chains[n], <<"x">>)]
    \o [n \in 1 .. 54 |-> Invoke(Chains[1296 + n], <<"x", "y">>)]
    \o [n \in 1 .. 5 |-> [Good EXCEPT !.exp = n - 3]]
    \o << [Good EXCEPT !.aud = D("bob")], [Good EXCEPT !.aud = DFragment("alice")],
          [Good EXCEPT !.signer = "other"], [Good EXCEPT !.args = "small"],
          [Good EXCEPT !.sub = D("carol")], [Good EXCEPT !.iss = DFragment("carol")] >>

\* The values of the constants, by names of their own, so that TLC computes the
\* long ones once.
Addresses == [c \in DOMAIN Proofs |-> c]
MCDelegations == Proofs
MCInvocations == Calls
MCCid == DOMAIN Proofs
MCInvCid == DOMAIN Calls
MCResolves == Addresses
MCMe == DFragment("alice")
MCArrivals == {<<L, "alice">>, <<L, "carol">>}

\* One call: whatever was recorded first, one Validator and one invocation.
OneCall ==
  \/ Idle /\ revoked = {} /\ \E r \in Arrivals : Revoke(r)
  \/ \E w \in Worker, t \in Timestamp : New(w, t)
  \/ \E w \in Worker, i \in InvCid : Validate(w, i)
  \/ \E w \in Worker : Step(w)

OneCallInit == Init /\ clock \in {-1, 1}
OneCallSpec == OneCallInit /\ [][OneCall]_vars
=============================================================================
