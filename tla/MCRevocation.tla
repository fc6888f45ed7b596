---------------------------- MODULE MCRevocation ----------------------------
(***************************************************************************)
(* One check of a revocation: every chain of up to three of a set of       *)
(* delegations under several revocations, and good ones spoilt in one way  *)
(* each, over a store that may hold a record already.                      *)
(***************************************************************************)
EXTENDS Intake

D(p) == [base |-> p, part |-> ""]
DFragment(p) == [base |-> p, part |-> "#key-2"]

MCPrincipal == {"alice", "bob", "carol", "zelda"}
MCDidPart == {"", "#key-2"}
MCSegment == {"ucan", "revoke", "x"}
MCRevokeCommand == <<"ucan", "revoke">>
MCKey == MCPrincipal \cup {"other"}

\* alice's second key is one the resolver does not know.
MCKeyOf == [d \in [base : MCPrincipal, part : MCDidPart] |->
              IF d = DFragment("alice") THEN None ELSE d.base]

Delegate(iss, aud, sub, cmd) ==
  [iss |-> D(iss), aud |-> D(aud), sub |-> sub, cmd |-> cmd, pol |-> << >>,
   nbf |-> None, exp |-> Never, signer |-> iss]
Root == Delegate("alice", "bob", D("alice"), <<"x">>)
Leaf == Delegate("bob", "carol", Powerline, <<"x">>)
Grant == Delegate("alice", "zelda", D("alice"), MCRevokeCommand)

\* 1 to 14 make chains, 15 to 19 are grants.
MCDelegations ==
  << Root, Leaf, [Root EXCEPT !.exp = 0], [Leaf EXCEPT !.exp = 0],
     [Root EXCEPT !.nbf = 1], [Root EXCEPT !.cmd = << >>], [Leaf EXCEPT !.cmd = << >>],
     [Root EXCEPT !.sub = Powerline], [Leaf EXCEPT !.sub = D("bob")],
     [Leaf EXCEPT !.aud = D("alice"), !.sub = D("alice")],
     Delegate("carol", "zelda", D("alice"), <<"x">>),
     Delegate("carol", "bob", Powerline, <<"x">>),
     [Leaf EXCEPT !.signer = "other"], [Root EXCEPT !.iss = DFragment("alice")],
     Grant, [Grant EXCEPT !.exp = 0], [Grant EXCEPT !.pol = << {"one"} >>],
     Delegate("bob", "zelda", D("bob"), <<"ucan">>), [Grant EXCEPT !.cmd = <<"x">>] >>

\* An argument map is the delegation it names, or a bad one.
MCArgs == {"r1", "r2", "r4", "r11", "path", "badpath", "none", "wrong", "other", "list", "one"}
Link1(n) == [name |-> "revoke", list |-> FALSE, links |-> <<n>>]
Path(links) == [name |-> "path", list |-> TRUE, links |-> links]
MCArgumentsOf ==
  [r1 |-> <<Link1(1)>>, r2 |-> <<Link1(2)>>, r4 |-> <<Link1(4)>>, r11 |-> <<Link1(11)>>,
   path |-> <<Path(<<1, 2>>), Link1(2)>>, badpath |-> <<Path(<<2, None>>), Link1(2)>>,
   none |-> << >>, wrong |-> <<[Link1(2) EXCEPT !.links = << >>]>>,
   other |-> <<[Link1(2) EXCEPT !.name = "other"], Link1(2)>>,
   list |-> <<[Link1(2) EXCEPT !.list = TRUE]>>, one |-> <<Link1(2)>>]

Revoke(args, iss, sub, prf) ==
  [iss |-> D(iss), sub |-> D(sub), aud |-> None, cmd |-> MCRevokeCommand,
   args |-> args, prf |-> prf, exp |-> Never, signer |-> iss]
Good == Revoke("r2", "bob", "alice", << >>)

\* 1 to 9 come with every chain, the others with the good ones.
MCInvocations ==
  << Revoke("r1", "alice", "alice", << >>), Good, Revoke("r4", "bob", "bob", << >>),
     Revoke("r11", "bob", "alice", << >>), Revoke("r11", "zelda", "alice", <<15>>),
     Revoke("r2", "zelda", "bob", <<18>>), Revoke("r2", "zelda", "carol", <<15>>),
     Revoke("r2", "zelda", "alice", << >>), Revoke("path", "alice", "alice", << >>),
     [Good EXCEPT !.args = "badpath"], [Good EXCEPT !.args = "none"],
     [Good EXCEPT !.args = "wrong"], [Good EXCEPT !.args = "other"],
     [Good EXCEPT !.args = "list"], [Good EXCEPT !.cmd = <<"ucan">>],
     [Good EXCEPT !.signer = "other"], [Good EXCEPT !.iss = DFragment("bob")],
     [Good EXCEPT !.exp = 0], [Good EXCEPT !.sub = D("zelda")],
     Revoke("r2", "zelda", "alice", <<16>>), Revoke("r2", "zelda", "alice", <<17>>),
     Revoke("one", "zelda", "alice", <<17>>), Revoke("r2", "zelda", "alice", <<19>>),
     Revoke("r2", "carol", "alice", <<15>>), Revoke("r2", "zelda", "alice", <<15, 15, 15, 15>>),
     Revoke("r2", "zelda", "alice", <<14>>), [Good EXCEPT !.iss = DFragment("alice")] >>

MCCid == DOMAIN MCDelegations
MCResolves == [c \in MCCid |-> c]
Parts == 1 .. 14
Chains ==
  {<< >>} \cup {<<a>> : a \in Parts} \cup {<<a, b>> : a, b \in Parts}
    \cup {<<a, b, c>> : a \in {1, 3, 5, 6}, b, c \in {2, 4, 7, 10, 11, 12, 1}}
    \cup {<<1, 2, 11, 12>>}
MCMessages ==
  {[inv |-> i, chain |-> c] : i \in 1 .. 9, c \in Chains}
    \cup {[inv |-> i, chain |-> c] : i \in DOMAIN MCInvocations, c \in {<<1, 2>>, <<3, 2>>}}
MCInvCid == DOMAIN MCInvocations
MCSubject == D("alice")

\* At most one record, and then one check.
OneCheck ==
  \/ revoked = {} /\ checked = {} /\ \E c \in Operator : RevokeEverywhere(c)
  \/ checked = {} /\ \E m \in Messages, t \in Timestamp : Accept(m, t) \/ Refuse(m, t)

OneCheckSpec == Init /\ [][OneCheck]_vars
=============================================================================
