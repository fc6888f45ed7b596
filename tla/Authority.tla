----------------------------- MODULE Authority -----------------------------
(***************************************************************************)
(* What an accepted invocation means, stated over the whole chain at once  *)
(* and without the order or the hop-by-hop form of the validator's checks. *)
(***************************************************************************)
EXTENDS Chain

\* The hops at or above k that name a subject: the nearest of them decides
\* what a powerline at k is about.
NamedAbove(i, k) == {j \in 1 .. k : ChainOf(i)[j].sub # Powerline}

\* The subject hop k is about.  A powerline takes that of the nearest hop above
\* it that names one.
IsAbout(i, k, subject) ==
  \E j \in NamedAbove(i, k) :
    /\ \A m \in NamedAbove(i, k) : m <= j
    /\ SamePrincipal(ChainOf(i)[j].sub, subject)

\* An unbroken line of principals from the subject to whoever signed i.
Connected(i) ==
  /\ Hops(i) # {}
  /\ SamePrincipal(ChainOf(i)[1].iss, Invocations[i].sub)
  /\ \A k \in Hops(i) : SamePrincipal(ChainOf(i)[k].aud, TokenAt(i, k + 1).iss)

\* Every hop grants the command that is actually invoked, not only the command
\* of the hop below it.
Attenuated(i) ==
  \A k \in Hops(i) : Covers(ChainOf(i)[k].cmd, Invocations[i].cmd)

\* No hop widens what an earlier hop granted.
NeverWidened(i) ==
  \A k, m \in Hops(i) : k < m => Covers(ChainOf(i)[k].cmd, ChainOf(i)[m].cmd)

InWindow(token, nbf, t, skew) ==
  /\ nbf # None => MinusSeconds(nbf, skew) <= t
  /\ token.exp # Never => t <= PlusSeconds(token.exp, skew)

Timely(i, t, skew) ==
  /\ \A k \in Hops(i) : InWindow(ChainOf(i)[k], ChainOf(i)[k].nbf, t, skew)
  /\ InWindow(Invocations[i], None, t, skew)

Signed(token) == KeyOf[token.iss] = token.signer

\* The arguments satisfy every statement of every hop.
Permitted(i) ==
  \A k \in Hops(i) : \A s \in DOMAIN ChainOf(i)[k].pol :
    Invocations[i].args \in ChainOf(i)[k].pol[s]

\* The hops that `records` of revocations reach: their delegation was revoked
\* for everyone, or by a principal who issued in this chain.
ReachedHops(records, i) ==
  LET issuers == {ChainOf(i)[j].iss.base : j \in Hops(i)}
  IN  {k \in Hops(i) : \E r \in records :
         r[1] = Resolves[Invocations[i].prf[k]] /\ r[2] \in issuers \cup {Everywhere}}

\* Invocation i carries its subject's authority at time t.
Authorized(i, t, skew) ==
  /\ Connected(i)
  /\ \A k \in Hops(i) : IsAbout(i, k, Invocations[i].sub)
  /\ Attenuated(i)
  /\ NeverWidened(i)
  /\ Timely(i, t, skew)
  /\ \A k \in Hops(i) : Signed(ChainOf(i)[k])
  /\ Signed(Invocations[i])
  /\ Permitted(i)

----------------------------------------------------------------------------
(***************************************************************************)
(* Which failures a chain has, check by check, as docs/validation.md lists *)
(* them, and the row of its table each belongs to (9a, 10, 11 and 12 are   *)
(* rows 10 to 13 here).  Only what depends on the tokens, the time and the *)
(* options is decided here: what the stores answer may change.             *)
(***************************************************************************)
TableRow ==
  [TooManyProofs |-> 0, MissingProof |-> 1, EmptyChain |-> 2, RootNotSubject |-> 3,
   PowerlineAtRoot |-> 4, SubjectMismatch |-> 5, PrincipalMismatch |-> 6,
   CommandNotCovered |-> 7, NotYetValid |-> 8, Expired |-> 8, Unresolvable |-> 9,
   BadSignature |-> 9, Revoked |-> 10, PolicyRejected |-> 11, WrongExecutor |-> 12,
   Replay |-> 13]

Fails(i, t, skew, me, error, k) ==
  LET token == TokenAt(i, k)
      next == TokenAt(i, k + 1)
      root == ChainOf(i)[1]
      about == Invocations[i].sub
      nbf == IF k \in Hops(i) THEN token.nbf ELSE None
  IN
  \/ /\ k = 0
     /\ \/ error = "EmptyChain" /\ Hops(i) = {}
        \/ Hops(i) # {} /\ error = "RootNotSubject" /\ root.iss.base # about.base
        \/ Hops(i) # {} /\ error = "PowerlineAtRoot" /\ root.sub = Powerline
        \/ /\ error = "WrongExecutor"
           /\ me # None
           /\ ExecutorOf(Invocations[i]).base # me.base
  \/ /\ k \in Hops(i)
     /\ \/ /\ error = "SubjectMismatch"
           /\ token.sub # Powerline
           /\ token.sub.base # about.base
        \/ error = "PrincipalMismatch" /\ token.aud.base # next.iss.base
        \/ error = "CommandNotCovered" /\ ~IsPrefix(token.cmd, next.cmd)
        \/ error = "PolicyRejected" /\ \E s \in DOMAIN token.pol :
                                          Invocations[i].args \notin token.pol[s]
  \/ /\ k \in 1 .. Len(Invocations[i].prf) + 1
     /\ \/ error = "NotYetValid" /\ nbf # None /\ t < MinusSeconds(nbf, skew)
        \/ error = "Expired" /\ token.exp # Never /\ PlusSeconds(token.exp, skew) < t
        \/ error = "Unresolvable" /\ KeyOf[token.iss] = None
        \/ error = "BadSignature" /\ KeyOf[token.iss] \notin {None, token.signer}

\* `error` at position k is what a validator reports that makes its checks in
\* the order of `row`, each along the whole chain, and stops at the first.
IsEarliest(i, t, skew, me, error, k, row) ==
  \A other \in DOMAIN row : \A j \in 0 .. Len(Invocations[i].prf) + 1 :
    Fails(i, t, skew, me, other, j) =>
      \/ row[error] < row[other]
      \/ row[error] = row[other] /\ k <= j
=============================================================================
