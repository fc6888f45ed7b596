------------------------------ MODULE MCIntake ------------------------------
(***************************************************************************)
(* One executor and revocations that get in each other's way: by the root, *)
(* by an issuer below it, by one who put themselves above a delegation, by *)
(* the holder of a grant, and of that grant.                               *)
(***************************************************************************)
EXTENDS Intake

D(p) == [base |-> p, part |-> ""]

MCPrincipal == {"alice", "bob", "carol", "mallory", "zelda"}
MCDidPart == {""}
MCSegment == {"ucan", "revoke"}
MCRevokeCommand == <<"ucan", "revoke">>
MCKeyOf == [d \in [base : MCPrincipal, part : MCDidPart] |-> d.base]

Delegate(iss, aud, sub, exp) ==
  [iss |-> D(iss), aud |-> D(aud), sub |-> sub, cmd |-> << >>, pol |-> << >>,
   nbf |-> None, exp |-> exp, signer |-> iss]

\* 5 is zelda's grant.
MCDelegations ==
  << Delegate("alice", "bob", D("alice"), Never),
     Delegate("bob", "carol", Powerline, Never),
     Delegate("alice", "mallory", D("alice"), -1),
     Delegate("mallory", "bob", Powerline, Never),
     [Delegate("alice", "zelda", D("alice"), 0) EXCEPT !.cmd = MCRevokeCommand] >>

\* Argument map n names delegation n.
MCArgumentsOf ==
  [n \in 1 .. 5 |-> << [name |-> "revoke", list |-> FALSE, links |-> <<n>>] >>]

RevocationOf(c, iss, prf) ==
  [iss |-> D(iss), sub |-> D("alice"), aud |-> None, cmd |-> MCRevokeCommand,
   args |-> c, prf |-> prf, exp |-> Never, signer |-> iss]

MCInvocations ==
  << RevocationOf(2, "bob", << >>), RevocationOf(2, "mallory", << >>),
     RevocationOf(3, "alice", << >>), RevocationOf(1, "zelda", <<5>>),
     RevocationOf(5, "alice", << >>), RevocationOf(4, "mallory", << >>) >>

MCMessages ==
  { [inv |-> 1, chain |-> <<1, 2>>], [inv |-> 2, chain |-> <<3, 4, 2>>],
    [inv |-> 3, chain |-> <<3>>], [inv |-> 4, chain |-> <<1>>],
    [inv |-> 5, chain |-> <<5>>], [inv |-> 1, chain |-> <<3, 4, 2>>] }

MCSubject == D("alice")
MCResolves == <<1, 2, 3, 4, 5>>
=============================================================================
