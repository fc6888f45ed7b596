------------------------------ MODULE MCShared ------------------------------
(***************************************************************************)
(* Validators over stores that change around them: one short invocation    *)
(* presented again and again, by one worker over in-memory stores or by    *)
(* two over shared ones, while the clock moves and the stores are pruned.  *)
(***************************************************************************)
EXTENDS Atomic

D(p) == [base |-> p, part |-> ""]

MCPrincipal == {"alice", "bob"}
MCDidPart == {""}
MCKeyOf == [d \in [base : MCPrincipal, part : MCDidPart] |-> d.base]

MCDelegations ==
  << [iss |-> D("alice"), aud |-> D("bob"), sub |-> D("alice"), cmd |-> <<"x">>,
      pol |-> << >>, nbf |-> None, exp |-> 0, signer |-> "alice"] >>

\* 2 names the bytes of 1 under another CID.
MCResolves == <<1, 1>>

MCInvocations ==
  << [iss |-> D("bob"), sub |-> D("alice"), aud |-> None, cmd |-> <<"x">>,
      args |-> "a", prf |-> <<2>>, exp |-> 0, signer |-> "bob"] >>

MCArrivals == {<<1, "alice">>, <<1, Everywhere>>, <<1, "bob">>}

----------------------------------------------------------------------------
(* Two chains that share their last delegation, for one Validator at a     *)
(* time: alice, bob, carol, and alice, mallory, bob, carol.                *)

MCPrincipals4 == {"alice", "bob", "carol", "mallory"}
MCKeyOf4 == [d \in [base : MCPrincipals4, part : MCDidPart] |-> d.base]

Delegate(iss, aud, sub, exp) ==
  [iss |-> D(iss), aud |-> D(aud), sub |-> sub, cmd |-> <<"x">>, pol |-> << >>,
   nbf |-> None, exp |-> exp, signer |-> iss]

MCTwoDelegations ==
  << Delegate("alice", "bob", D("alice"), 1), Delegate("bob", "carol", Powerline, 0),
     Delegate("alice", "mallory", D("alice"), Never),
     Delegate("mallory", "bob", Powerline, Never) >>

Invoke(prf, exp) ==
  [iss |-> D("carol"), sub |-> D("alice"), aud |-> None, cmd |-> <<"x">>,
   args |-> "a", prf |-> prf, exp |-> exp, signer |-> "carol"]

MCTwoInvocations == << Invoke(<<1, 2>>, 0), Invoke(<<3, 4, 2>>, 1) >>
MCTwoResolves == <<1, 2, 3, 4>>
MCTwoArrivals == {<<2, "mallory">>, <<2, "bob">>, <<1, Everywhere>>}
=============================================================================
