---------------------------- MODULE IntakeProofs ----------------------------
(***************************************************************************)
(* What an executor that takes in revocations may rely on, for every set   *)
(* of messages, tokens and clocks: the records it makes are earned, the    *)
(* verdicts are exactly the entitlement to revoke, and the order in which  *)
(* revocations arrive does not save the chain that a lasting one came      *)
(* with.                                                                   *)
(*                                                                         *)
(* First, what the checks of a validator, made hop by hop, add up to along *)
(* a whole chain; then the pipeline as a function: what it means that no   *)
(* check reported anything, and that nothing else is turned down.          *)
(***************************************************************************)
EXTENDS Intake, WellFoundedInduction, TLAPS

----------------------------------------------------------------------------
(* Numbers.                                                                *)

LEMMA Least ==
  ASSUME NEW T, T \subseteq Nat, T # {}
  PROVE  \E x \in T : \A y \in T : x <= y
<1>. DEFINE R == OpToRel(<, Nat)
<1>1. IsWellFoundedOn(R, Nat)
  BY NatLessThanWellFounded
<1>2. \A x, y \in Nat : <<y, x>> \in R <=> y < x
  BY DEF OpToRel
<1>. HIDE DEF R
<1>3. PICK x \in T : \A y \in T : <<y, x>> \notin R
  BY <1>1, WFMin
<1>4. ASSUME NEW y \in T PROVE x <= y
  <2>1. x \in Nat /\ y \in Nat
    OBVIOUS
  <2>2. <<y, x>> \notin R
    BY <1>3
  <2>3. ~(y < x)
    BY <1>2, <2>1, <2>2
  <2>. QED  BY <2>1, <2>3
<1>. QED  BY <1>4

LEMMA Greatest ==
  ASSUME NEW n \in Nat, NEW T, T \subseteq 1 .. n, T # {}
  PROVE  \E x \in T : \A y \in T : y <= x
<1>. DEFINE Below == {n - t : t \in T}
<1>1. Below \subseteq Nat /\ Below # {}
  <2>1. \A t \in T : n - t \in Nat
    OBVIOUS
  <2>. QED  BY <2>1
<1>2. PICK b \in Below : \A c \in Below : b <= c
  <2>. HIDE DEF Below
  <2>. QED  BY <1>1, Least
<1>3. PICK x \in T : b = n - x
  OBVIOUS
<1>4. ASSUME NEW y \in T PROVE y <= x
  <2>1. b <= n - y
    BY <1>2
  <2>2. x \in 1 .. n /\ y \in 1 .. n
    BY <1>4
  <2>. QED  BY <1>3, <2>1, <2>2
<1>. QED  BY <1>4

----------------------------------------------------------------------------
(* Chains and their commands.                                              *)

LEMMA ChainType ==
  ASSUME NEW i \in InvCid
  PROVE  /\ Invocations[i] \in Invocation
         /\ Len(Invocations[i].prf) \in Nat
         /\ Hops(i) = DOMAIN Invocations[i].prf
         /\ \A k \in Hops(i) : CidAt(i, k) \in Cid /\ ChainOf(i)[k] = Delegations[CidAt(i, k)]
         /\ \A k \in Hops(i) : ChainOf(i)[k] \in Delegation
<1>1. Invocations[i] \in Invocation
  BY TokensAssumption
<1>2. Invocations[i].prf \in Seq(Link)
  BY <1>1 DEF Invocation
<1>3. /\ Len(Invocations[i].prf) \in Nat
      /\ Hops(i) = DOMAIN Invocations[i].prf
  BY <1>2 DEF Hops
<1>4. ASSUME NEW k \in Hops(i)
      PROVE  /\ CidAt(i, k) \in Cid
             /\ ChainOf(i)[k] = Delegations[CidAt(i, k)]
  BY <1>2, <1>3, <1>4, TokensAssumption DEF CidAt, ChainOf
<1>. QED  BY <1>1, <1>3, <1>4, TokensAssumption

LEMMA CommandsOf ==
  ASSUME NEW i \in InvCid, NEW k \in 1 .. Len(Invocations[i].prf) + 1
  PROVE  TokenAt(i, k).cmd \in Command
<1>1. CASE k \in Hops(i)
  BY <1>1, ChainType DEF TokenAt, Delegation
<1>2. CASE k \notin Hops(i)
  BY <1>2, ChainType DEF TokenAt, Invocation
<1>. QED  BY <1>1, <1>2

LEMMA CoversPointwise ==
  ASSUME NEW c \in Command, NEW d \in Command
  PROVE  Covers(c, d) <=> Len(c) <= Len(d) /\ \A n \in 1 .. Len(c) : c[n] = d[n]
<1>1. /\ Len(c) \in Nat /\ Len(d) \in Nat
      /\ \A n \in 1 .. Len(c) : c[n] \in Segment
      /\ \A n \in 1 .. Len(d) : d[n] \in Segment
  BY DEF Command
<1>2. ASSUME Len(c) <= Len(d)
      PROVE  SubSeq(c, 1, Len(c)) = SubSeq(d, 1, Len(c)) <=>
               \A n \in 1 .. Len(c) : c[n] = d[n]
  BY <1>1, <1>2 DEF Command
<1>. QED  BY <1>1, <1>2 DEF Covers, IsPrefix

LEMMA CoversTransitive ==
  ASSUME NEW c \in Command, NEW d \in Command, NEW e \in Command,
         Covers(c, d), Covers(d, e)
  PROVE  Covers(c, e)
<1>1. /\ Len(c) \in Nat /\ Len(d) \in Nat /\ Len(e) \in Nat
      /\ Len(c) <= Len(d) /\ Len(d) <= Len(e)
      /\ \A n \in 1 .. Len(c) : c[n] = d[n]
      /\ \A n \in 1 .. Len(d) : d[n] = e[n]
  BY CoversPointwise DEF Command
<1>2. Len(c) <= Len(e) /\ \A n \in 1 .. Len(c) : c[n] = e[n]
  BY <1>1
<1>. QED  BY <1>2, CoversPointwise

----------------------------------------------------------------------------
(* From checks to authority.                                               *)

\* The checks of the root and the subjects settle whom every hop is about.
LEMMA SubjectsInherited ==
  ASSUME NEW i \in InvCid, NEW k \in Hops(i),
         RootError(ChainOf(i), Invocations[i].sub) = "Ok",
         \A j \in Hops(i) : SubjectError(ChainOf(i)[j], Invocations[i].sub) = "Ok"
  PROVE  IsAbout(i, k, Invocations[i].sub)
<1>1. /\ Hops(i) = 1 .. Len(Invocations[i].prf)
      /\ Len(Invocations[i].prf) \in Nat
  BY ChainType DEF Hops
<1>2. ChainOf(i)[1].sub # Powerline
  BY DEF RootError
<1>3. 1 \in NamedAbove(i, k) /\ NamedAbove(i, k) \subseteq 1 .. k /\ k \in Nat
  BY <1>1, <1>2 DEF NamedAbove
<1>4. PICK j \in NamedAbove(i, k) : \A m \in NamedAbove(i, k) : m <= j
  BY <1>3, Greatest
<1>5. j \in Hops(i) /\ ChainOf(i)[j].sub # Powerline
  BY <1>1, <1>4 DEF NamedAbove
<1>6. SamePrincipal(ChainOf(i)[j].sub, Invocations[i].sub)
  BY <1>5 DEF SubjectError
<1>. QED  BY <1>4, <1>6 DEF IsAbout

LEMMA ChecksConnect ==
  ASSUME NEW i \in InvCid,
         RootError(ChainOf(i), Invocations[i].sub) = "Ok",
         \A k \in Hops(i) : LinkageError(ChainOf(i)[k], TokenAt(i, k + 1)) = "Ok"
  PROVE  Connected(i)
<1>1. /\ ChainOf(i) # << >>
      /\ SamePrincipal(ChainOf(i)[1].iss, Invocations[i].sub)
  BY DEF RootError
<1>2. Hops(i) # {}
  <2>1. Len(Invocations[i].prf) \in Nat /\ Hops(i) = 1 .. Len(Invocations[i].prf)
        /\ Hops(i) = DOMAIN Invocations[i].prf
    BY ChainType DEF Hops
  <2>2. ASSUME Len(Invocations[i].prf) = 0 PROVE FALSE
    <3>1. ChainOf(i) \in Seq(Delegation) /\ Len(ChainOf(i)) = 0
      <4>1. DOMAIN ChainOf(i) = 1 .. 0
        BY <2>1, <2>2 DEF ChainOf
      <4>2. ChainOf(i) = [k \in 1 .. 0 |-> ChainOf(i)[k]]
        BY <2>1, <2>2 DEF ChainOf
      <4>. QED  BY <4>1, <4>2
    <3>. QED  BY <1>1, <3>1
  <2>3. 1 \in Hops(i)
    BY <2>1, <2>2
  <2>. QED  BY <2>3
<1>3. \A k \in Hops(i) : SamePrincipal(ChainOf(i)[k].aud, TokenAt(i, k + 1).iss)
  BY DEF LinkageError
<1>. QED  BY <1>1, <1>2, <1>3 DEF Connected

\* A window check that passes is a time within the window, skew included.
LEMMA WindowsHold ==
  ASSUME NEW i \in InvCid, NEW t \in Timestamp, NEW skew \in Nat,
         \A k \in 1 .. Len(Invocations[i].prf) + 1 : TimeError(i, k, t, skew) = "Ok"
  PROVE  Timely(i, t, skew)
<1>1. /\ Hops(i) = 1 .. Len(Invocations[i].prf)
      /\ Len(Invocations[i].prf) \in Nat
  BY ChainType DEF Hops
<1>2. ASSUME NEW nbf \in Timestamp \cup {None}, NEW exp \in Expiry,
             WindowError(nbf, exp, t, skew) = "Ok"
      PROVE  /\ nbf # None => MinusSeconds(nbf, skew) <= t
             /\ exp # Never => t <= PlusSeconds(exp, skew)
  <2>1. t \in Int /\ (nbf # None => nbf \in Int) /\ (exp # Never => exp \in Int)
        /\ MaxTime \in Int
    BY TimeAssumption DEF Timestamp, Expiry
  <2>2. ~NotYetValid(nbf, t, skew) /\ ~IsPast(exp, t, skew)
    BY <1>2 DEF WindowError
  <2>. QED  BY <2>1, <2>2 DEF NotYetValid, IsPast, MinusSeconds, PlusSeconds
<1>3. ASSUME NEW k \in Hops(i)
      PROVE  InWindow(ChainOf(i)[k], ChainOf(i)[k].nbf, t, skew)
  <2>1. TokenAt(i, k) = ChainOf(i)[k] /\ ChainOf(i)[k] \in Delegation
    BY ChainType DEF TokenAt
  <2>2. WindowError(ChainOf(i)[k].nbf, ChainOf(i)[k].exp, t, skew) = "Ok"
    BY <1>1, <2>1 DEF TimeError
  <2>3. ChainOf(i)[k].nbf \in Timestamp \cup {None} /\ ChainOf(i)[k].exp \in Expiry
    BY <2>1 DEF Delegation
  <2>. QED  BY <1>2, <2>2, <2>3 DEF InWindow
<1>4. InWindow(Invocations[i], None, t, skew)
  <2>. DEFINE k == Len(Invocations[i].prf) + 1
  <2>1. k \notin Hops(i) /\ k \in 1 .. Len(Invocations[i].prf) + 1
    BY <1>1
  <2>2. WindowError(None, Invocations[i].exp, t, skew) = "Ok"
    BY <2>1 DEF TimeError, TokenAt
  <2>3. Invocations[i].exp \in Expiry
    BY ChainType DEF Invocation
  <2>. QED  BY <1>2, <2>2, <2>3 DEF InWindow
<1>. QED  BY <1>3, <1>4 DEF Timely

\* The checks of validate, all passed, add up to authority.  Coverage is taken
\* as the linkage walk carries it (see Carried in ValidateProofs).
LEMMA ChecksMeanAuthority ==
  ASSUME NEW i \in InvCid, NEW t \in Timestamp, NEW skew \in Nat,
         RootError(ChainOf(i), Invocations[i].sub) = "Ok",
         \A k \in Hops(i) :
           /\ SubjectError(ChainOf(i)[k], Invocations[i].sub) = "Ok"
           /\ LinkageError(ChainOf(i)[k], TokenAt(i, k + 1)) = "Ok"
           /\ PolicyError(ChainOf(i)[k], Invocations[i].args) = "Ok",
         \A k, m \in Hops(i) : k <= m => Covers(ChainOf(i)[k].cmd, TokenAt(i, m + 1).cmd),
         \A k \in 1 .. Len(Invocations[i].prf) + 1 :
           /\ TimeError(i, k, t, skew) = "Ok"
           /\ SignatureError(TokenAt(i, k)) = "Ok"
  PROVE  Authorized(i, t, skew)
<1>. DEFINE last == Len(Invocations[i].prf)
<1>1. Hops(i) = 1 .. last /\ last \in Nat
  BY ChainType DEF Hops
<1>2. TokenAt(i, last + 1) = Invocations[i] /\ \A k \in Hops(i) : TokenAt(i, k) = ChainOf(i)[k]
  BY <1>1 DEF TokenAt
<1>3. Attenuated(i)
  <2>. SUFFICES ASSUME NEW k \in Hops(i)
                PROVE  Covers(ChainOf(i)[k].cmd, Invocations[i].cmd)
    BY DEF Attenuated
  <2>1. last \in Hops(i) /\ k <= last
    BY <1>1
  <2>. QED  BY <1>2, <2>1
<1>4. NeverWidened(i)
  <2>. SUFFICES ASSUME NEW k \in Hops(i), NEW m \in Hops(i), k < m
                PROVE  Covers(ChainOf(i)[k].cmd, ChainOf(i)[m].cmd)
    BY DEF NeverWidened
  <2>1. m - 1 \in Hops(i) /\ k <= m - 1 /\ (m - 1) + 1 = m
    BY <1>1
  <2>. QED  BY <1>2, <2>1
<1>5. Signed(Invocations[i]) /\ \A k \in Hops(i) : Signed(ChainOf(i)[k])
  <2>1. \A k \in 1 .. last + 1 : Signed(TokenAt(i, k))
    BY DEF SignatureError, Signed
  <2>2. last + 1 \in 1 .. last + 1 /\ Hops(i) \subseteq 1 .. last + 1
    BY <1>1
  <2>. QED  BY <1>2, <2>1, <2>2
<1>6. Permitted(i)
  BY DEF Permitted, PolicyError
<1>7. Connected(i)
  BY ChecksConnect
<1>8. \A k \in Hops(i) : IsAbout(i, k, Invocations[i].sub)
  BY SubjectsInherited
<1>9. Timely(i, t, skew)
  BY WindowsHold
<1>. QED  BY <1>3, <1>4, <1>5, <1>6, <1>7, <1>8, <1>9 DEF Authorized

----------------------------------------------------------------------------
(* Checks in sequence.                                                     *)

\* Nothing is reported by two checks in a row only if neither reports anything.
LEMMA BothPass ==
  ASSUME NEW a, NEW b, (a ?? b) = "Ok"
  PROVE  a = "Ok" /\ b = "Ok"
BY DEF ??

\* A loop reports nothing only if no iteration does.
LEMMA AllPass ==
  ASSUME NEW n \in Nat, NEW errors, DOMAIN errors = 1 .. n, FirstOf(errors) = "Ok"
  PROVE  \A k \in 1 .. n : errors[k] = "Ok"
<1>. DEFINE failed == {k \in DOMAIN errors : errors[k] # "Ok"}
<1>1. CASE failed = {}
  BY <1>1
<1>2. CASE failed # {}
  <2>1. failed \subseteq Nat
    OBVIOUS
  <2>2. \E k \in failed : \A j \in failed : k <= j
    BY <1>2, <2>1, Least
  <2>3. (CHOOSE k \in failed : \A j \in failed : k <= j) \in failed
    BY <2>2
  <2>4. errors[CHOOSE k \in failed : \A j \in failed : k <= j] = "Ok"
    BY <1>2 DEF FirstOf
  <2>. QED  BY <2>3, <2>4
<1>. QED  BY <1>1, <1>2

\* If each command of a line covers the next, each covers all that follow.
LEMMA CoversAlong ==
  ASSUME NEW n \in Nat, NEW c, \A k \in 1 .. n : c[k] \in Command,
         \A k \in 1 .. n - 1 : Covers(c[k], c[k + 1]),
         NEW j \in 1 .. n, NEW m \in 1 .. n, j < m
  PROVE  Covers(c[j], c[m])
<1>. DEFINE bad == {k \in 1 .. n : j < k /\ ~Covers(c[j], c[k])}
<1>. SUFFICES ASSUME bad # {} PROVE FALSE
  OBVIOUS
<1>1. PICK k \in bad : \A i \in bad : k <= i
  <2>1. bad \subseteq Nat
    OBVIOUS
  <2>. QED  BY <2>1, Least
<1>2. CASE k = j + 1
  BY <1>1, <1>2
<1>3. CASE k # j + 1
  <2>1. k - 1 \in 1 .. n /\ j < k - 1 /\ k - 1 \notin bad /\ (k - 1) + 1 = k /\ k - 1 \in 1 .. n - 1
    BY <1>1, <1>3
  <2>2. Covers(c[j], c[k - 1]) /\ Covers(c[k - 1], c[k])
    BY <2>1
  <2>3. c[j] \in Command /\ c[k - 1] \in Command /\ c[k] \in Command
    BY <1>1, <2>1
  <2>4. Covers(c[j], c[k])
    BY <2>2, <2>3, CoversTransitive
  <2>. QED  BY <1>1, <2>4
<1>. QED  BY <1>2, <1>3

LEMMA NothingFailed ==
  ASSUME NEW errors, \A k \in DOMAIN errors : errors[k] = "Ok"
  PROVE  FirstOf(errors) = "Ok"
BY DEF FirstOf

LEMMA Together ==
  ASSUME NEW a, NEW b
  PROVE  (a ?? b) = "Ok" <=> a = "Ok" /\ b = "Ok"
BY DEF ??

LEMMA EachPasses ==
  ASSUME NEW n \in Nat, NEW errors, DOMAIN errors = 1 .. n
  PROVE  FirstOf(errors) = "Ok" <=> \A k \in 1 .. n : errors[k] = "Ok"
BY AllPass, NothingFailed

----------------------------------------------------------------------------
(* The parts of the pipeline.                                              *)

LEMMA StructureHolds ==
  ASSUME NEW chain \in Seq(Delegation), NEW subject,
         NEW last \in Seq(Delegation \cup Invocation),
         StructureError(chain, subject, last) = "Ok"
  PROVE  /\ RootError(chain, subject) = "Ok"
         /\ \A k \in 1 .. Len(chain) : SubjectError(chain[k], subject) = "Ok"
         /\ \A k \in 1 .. Len(chain \o last) - 1 :
              LinkageError(chain[k], (chain \o last)[k + 1]) = "Ok"
<1>. DEFINE subjects == [k \in DOMAIN chain |-> SubjectError(chain[k], subject)]
            tokens == chain \o last
            links == [k \in 1 .. Len(tokens) - 1 |-> LinkageError(chain[k], tokens[k + 1])]
<1>1. (RootError(chain, subject) ?? FirstOf(subjects)) ?? FirstOf(links) = "Ok"
  BY DEF StructureError
<1>. HIDE DEF subjects, links
<1>2. /\ RootError(chain, subject) = "Ok" /\ FirstOf(subjects) = "Ok"
      /\ FirstOf(links) = "Ok"
  BY <1>1, BothPass
<1>3. \A k \in 1 .. Len(chain) : subjects[k] = "Ok"
  <2>1. DOMAIN subjects = 1 .. Len(chain) /\ Len(chain) \in Nat
    BY DEF subjects
  <2>. QED  BY <1>2, <2>1, AllPass
<1>4. Len(chain) \in Nat /\ Len(tokens) = Len(chain) + Len(last) /\ Len(last) \in Nat
  OBVIOUS
<1>5. \A k \in 1 .. Len(tokens) - 1 : links[k] = "Ok"
  <2>1. CASE Len(tokens) = 0
    BY <2>1
  <2>2. CASE Len(tokens) # 0
    <3>1. Len(tokens) - 1 \in Nat
      BY <1>4, <2>2
    <3>2. DOMAIN links = 1 .. Len(tokens) - 1
      BY DEF links
    <3>. HIDE DEF tokens
    <3>. QED  BY <1>2, <3>1, <3>2, AllPass
  <2>. QED  BY <2>1, <2>2
<1>6. DOMAIN chain = 1 .. Len(chain)
  OBVIOUS
<1>7. \A k \in 1 .. Len(chain) : SubjectError(chain[k], subject) = "Ok"
  BY <1>3, <1>6 DEF subjects
<1>8. \A k \in 1 .. Len(tokens) - 1 : LinkageError(chain[k], tokens[k + 1]) = "Ok"
  BY <1>5 DEF links
<1>. QED  BY <1>2, <1>7, <1>8

LEMMA SignaturesHold ==
  ASSUME NEW chain \in Seq(Delegation), SignaturesError(chain) = "Ok"
  PROVE  \A k \in 1 .. Len(chain) : SignatureError(chain[k]) = "Ok"
<1>0. DOMAIN chain = 1 .. Len(chain)
  OBVIOUS
<1>. DEFINE errors == [k \in DOMAIN chain |-> SignatureError(chain[k])]
<1>1. DOMAIN errors = 1 .. Len(chain) /\ Len(chain) \in Nat
  OBVIOUS
<1>2. FirstOf(errors) = "Ok"
  BY DEF SignaturesError
<1>. HIDE DEF errors
<1>3. \A k \in 1 .. Len(chain) : errors[k] = "Ok"
  BY <1>1, <1>2, AllPass
<1>. QED  BY <1>0, <1>3 DEF errors

LEMMA WindowsPass ==
  ASSUME NEW v, NEW chain, NEW n \in Nat, WindowsError(v, chain, n) = "Ok"
  PROVE  \A k \in 1 .. n : WindowError(chain[k].nbf, chain[k].exp, v.now, v.skew) = "Ok"
<1>. DEFINE errors == [k \in 1 .. n |-> WindowError(chain[k].nbf, chain[k].exp, v.now, v.skew)]
<1>1. DOMAIN errors = 1 .. n /\ FirstOf(errors) = "Ok"
  BY DEF WindowsError
<1>. HIDE DEF errors
<1>2. \A k \in 1 .. n : errors[k] = "Ok"
  BY <1>1, AllPass
<1>. QED  BY <1>2 DEF errors

LEMMA RevocationsPass ==
  ASSUME NEW v, NEW cids, NEW chain, NEW n \in Nat,
         RevocationsError(v, cids, chain, n) = "Ok"
  PROVE  \A k \in 1 .. n : ~IsRevoked(v.revoked, cids[k], Issuers(chain))
<1>. DEFINE errors == [k \in 1 .. n |-> IF IsRevoked(v.revoked, cids[k], Issuers(chain))
                                       THEN "Revoked" ELSE "Ok"]
<1>1. DOMAIN errors = 1 .. n /\ FirstOf(errors) = "Ok"
  BY DEF RevocationsError
<1>. HIDE DEF errors
<1>2. \A k \in 1 .. n : errors[k] = "Ok"
  BY <1>1, AllPass
<1>. QED  BY <1>2 DEF errors

\* What the pipeline passes carries its subject's authority at the time and skew
\* it is judged with, and no record in the store reaches its chain.
THEOREM PipelineIsSound ==
  ASSUME NEW v, v.now \in Timestamp, v.skew \in Nat,
         v.revoked \subseteq Cid \X (Principal \cup {Everywhere}),
         NEW i \in InvCid, PipelineError(v, i) = "Ok"
  PROVE  Authorized(i, v.now, v.skew) /\ ReachedHops(v.revoked, i) = {}
<1>. DEFINE inv == Invocations[i]
            chain == ChainOf(i)
            n == Len(Invocations[i].prf)
            cids == [k \in Hops(i) |-> CidAt(i, k)]
            policies == [k \in Hops(i) |-> PolicyError(chain[k], inv.args)]
            p2 == ProofLimitError(v, n) ?? HeldError(v, inv.prf)
            p3 == p2 ?? StructureError(chain, inv.sub, <<inv>>)
            p4 == p3 ?? WindowsError(v, chain, n)
            p5 == p4 ?? InvocationWindowError(v, i)
            p6 == p5 ?? SignaturesError(chain)
            p7 == p6 ?? SignatureError(inv)
            p8 == p7 ?? RevocationsError(v, cids, chain, n)
<1>1. p8 ?? FirstOf(policies) = "Ok"
  BY DEF PipelineError
<1>2. /\ StructureError(chain, inv.sub, <<inv>>) = "Ok"
      /\ WindowsError(v, chain, n) = "Ok" /\ InvocationWindowError(v, i) = "Ok"
      /\ SignaturesError(chain) = "Ok" /\ SignatureError(inv) = "Ok"
      /\ RevocationsError(v, cids, chain, n) = "Ok"
      /\ FirstOf(policies) = "Ok"
  <2>. HIDE DEF policies, cids, p2, p3, p4, p5, p6, p7, p8
  <2>1. p8 = "Ok" /\ FirstOf(policies) = "Ok"
    BY <1>1, BothPass
  <2>2. p7 = "Ok" /\ RevocationsError(v, cids, chain, n) = "Ok"
    BY <2>1, BothPass DEF p8
  <2>3. p6 = "Ok" /\ SignatureError(inv) = "Ok"
    BY <2>2, BothPass DEF p7
  <2>4. p5 = "Ok" /\ SignaturesError(chain) = "Ok"
    BY <2>3, BothPass DEF p6
  <2>5. p4 = "Ok" /\ InvocationWindowError(v, i) = "Ok"
    BY <2>4, BothPass DEF p5
  <2>6. p3 = "Ok" /\ WindowsError(v, chain, n) = "Ok"
    BY <2>5, BothPass DEF p4
  <2>7. StructureError(chain, inv.sub, <<inv>>) = "Ok"
    BY <2>6, BothPass DEF p3
  <2>. QED  BY <2>1, <2>2, <2>3, <2>4, <2>5, <2>6, <2>7
<1>3. /\ inv \in Invocation /\ n \in Nat /\ Hops(i) = 1 .. n /\ DOMAIN chain = 1 .. n
      /\ \A k \in 1 .. n : chain[k] \in Delegation
  BY ChainType DEF Hops, ChainOf
<1>4. chain \in Seq(Delegation) /\ Len(chain) = n
  <2>1. chain = [k \in 1 .. n |-> chain[k]]
    BY <1>3 DEF ChainOf
  <2>. HIDE DEF chain
  <2>. QED  BY <1>3, <2>1
<1>. HIDE DEF chain, cids, policies
<1>5. /\ Len(chain \o <<inv>>) = n + 1
      /\ \A k \in 1 .. n : (chain \o <<inv>>)[k + 1] = TokenAt(i, k + 1)
  <2>1. Len(chain \o <<inv>>) = n + 1
    BY <1>3, <1>4
  <2>2. ASSUME NEW k \in 1 .. n PROVE (chain \o <<inv>>)[k + 1] = TokenAt(i, k + 1)
    <3>1. CASE k = n
      <4>1. n + 1 \notin Hops(i)
        BY <1>3
      <4>2. (chain \o <<inv>>)[n + 1] = inv
        BY <1>3, <1>4
      <4>. QED  BY <3>1, <4>1, <4>2 DEF TokenAt
    <3>2. CASE k # n
      <4>1. k + 1 \in Hops(i) /\ k + 1 \in 1 .. n
        BY <1>3, <3>2
      <4>2. (chain \o <<inv>>)[k + 1] = chain[k + 1]
        BY <1>3, <1>4, <4>1
      <4>. QED  BY <4>1, <4>2 DEF TokenAt, chain
    <3>. QED  BY <3>1, <3>2
  <2>. QED  BY <2>1, <2>2
<1>6. /\ RootError(chain, inv.sub) = "Ok"
      /\ \A k \in 1 .. n : SubjectError(chain[k], inv.sub) = "Ok"
      /\ \A k \in 1 .. n : LinkageError(chain[k], TokenAt(i, k + 1)) = "Ok"
  <2>1. <<inv>> \in Seq(Delegation \cup Invocation)
    BY <1>3
  <2>2. /\ RootError(chain, inv.sub) = "Ok"
        /\ \A k \in 1 .. Len(chain) : SubjectError(chain[k], inv.sub) = "Ok"
        /\ \A k \in 1 .. Len(chain \o <<inv>>) - 1 :
             LinkageError(chain[k], (chain \o <<inv>>)[k + 1]) = "Ok"
    BY <1>2, <1>4, <2>1, StructureHolds
  <2>. QED  BY <1>3, <1>4, <1>5, <2>2
<1>7. \A k \in Hops(i) : PolicyError(chain[k], inv.args) = "Ok"
  <2>1. DOMAIN policies = 1 .. n
    BY <1>3 DEF policies
  <2>2. \A k \in 1 .. n : policies[k] = "Ok"
    BY <1>2, <1>3, <2>1, AllPass
  <2>. QED  BY <1>3, <2>2 DEF policies
<1>8. \A k, m \in Hops(i) : k <= m => Covers(chain[k].cmd, TokenAt(i, m + 1).cmd)
  <2>. DEFINE c == [k \in 1 .. n + 1 |-> TokenAt(i, k).cmd]
  <2>1. \A k \in 1 .. n + 1 : c[k] \in Command
    BY CommandsOf
  <2>2. \A k \in 1 .. (n + 1) - 1 : Covers(c[k], c[k + 1])
    <3>0. (n + 1) - 1 = n
      BY <1>3
    <3>. SUFFICES ASSUME NEW k \in 1 .. n PROVE Covers(c[k], c[k + 1])
      <4>. HIDE DEF c
      <4>. QED  BY <3>0
    <3>1. k \in 1 .. n + 1 /\ k + 1 \in 1 .. n + 1
      BY <1>3
    <3>2. c[k] = chain[k].cmd /\ c[k + 1] = TokenAt(i, k + 1).cmd
      BY <1>3, <3>1 DEF TokenAt, chain
    <3>. QED  BY <1>6, <3>2 DEF LinkageError
  <2>. HIDE DEF c
  <2>3. ASSUME NEW k \in Hops(i), NEW m \in Hops(i), k <= m
        PROVE  Covers(chain[k].cmd, TokenAt(i, m + 1).cmd)
    <3>1. k \in 1 .. n + 1 /\ m + 1 \in 1 .. n + 1 /\ k < m + 1 /\ n + 1 \in Nat
      BY <1>3, <2>3
    <3>2. Covers(c[k], c[m + 1])
      BY <2>1, <2>2, <3>1, CoversAlong
    <3>3. c[k] = chain[k].cmd /\ c[m + 1] = TokenAt(i, m + 1).cmd
      BY <3>1 DEF c, TokenAt, chain
    <3>. QED  BY <3>2, <3>3
  <2>. QED  BY <2>3
<1>9. \A k \in 1 .. n + 1 : /\ TimeError(i, k, v.now, v.skew) = "Ok"
                            /\ SignatureError(TokenAt(i, k)) = "Ok"
  <2>1. \A k \in 1 .. n : WindowError(chain[k].nbf, chain[k].exp, v.now, v.skew) = "Ok"
    BY <1>2, <1>3, WindowsPass
  <2>2. \A k \in 1 .. n : SignatureError(chain[k]) = "Ok"
    BY <1>2, <1>4, SignaturesHold
  <2>3. ASSUME NEW k \in 1 .. n
        PROVE  TimeError(i, k, v.now, v.skew) = "Ok" /\ SignatureError(TokenAt(i, k)) = "Ok"
    <3>1. k \in Hops(i) /\ TokenAt(i, k) = chain[k]
      BY <1>3 DEF TokenAt, chain
    <3>. QED  BY <2>1, <2>2, <3>1 DEF TimeError
  <2>4. TimeError(i, n + 1, v.now, v.skew) = "Ok" /\ SignatureError(TokenAt(i, n + 1)) = "Ok"
    <3>1. n + 1 \notin Hops(i)
      BY <1>3
    <3>2. TokenAt(i, n + 1) = inv
      BY <3>1 DEF TokenAt
    <3>. QED  BY <1>2, <3>1, <3>2 DEF TimeError, InvocationWindowError
  <2>5. \A k \in 1 .. n + 1 : k \in 1 .. n \/ k = n + 1
    BY <1>3
  <2>. QED  BY <2>3, <2>4, <2>5
<1>10. Authorized(i, v.now, v.skew)
  BY <1>3, <1>6, <1>7, <1>8, <1>9, ChecksMeanAuthority DEF chain
<1>11. ReachedHops(v.revoked, i) = {}
  <2>. SUFFICES ASSUME NEW k \in Hops(i), NEW r \in v.revoked,
                       r[1] = CidAt(i, k), r[2] \in Issuers(chain) \cup {Everywhere}
                PROVE  FALSE
    BY <1>3 DEF ReachedHops, CidAt, Issuers, chain
  <2>1. ~IsRevoked(v.revoked, cids[k], Issuers(chain))
    BY <1>2, <1>3, RevocationsPass
  <2>2. cids[k] = CidAt(i, k)
    BY DEF cids
  <2>3. r = <<r[1], r[2]>>
    OBVIOUS
  <2>. QED  BY <2>1, <2>2, <2>3 DEF IsRevoked
<1>. QED  BY <1>10, <1>11

----------------------------------------------------------------------------
(* The checks turn down nothing that their meaning over the whole chain    *)
(* allows.                                                                 *)

LEMMA Unreached ==
  ASSUME NEW v, NEW cids, NEW chain, NEW n,
         \A k \in 1 .. n : ~IsRevoked(v.revoked, cids[k], Issuers(chain))
  PROVE  RevocationsError(v, cids, chain, n) = "Ok"
<1>. DEFINE errors == [k \in 1 .. n |-> IF IsRevoked(v.revoked, cids[k], Issuers(chain))
                                       THEN "Revoked" ELSE "Ok"]
<1>1. \A k \in DOMAIN errors : errors[k] = "Ok"
  OBVIOUS
<1>. HIDE DEF errors
<1>2. FirstOf(errors) = "Ok"
  BY <1>1, NothingFailed
<1>. QED  BY <1>2 DEF errors, RevocationsError

LEMMA WindowIsExact ==
  ASSUME NEW token, NEW nbf \in Timestamp \cup {None}, token.exp \in Expiry,
         NEW t \in Timestamp, NEW skew \in Nat
  PROVE  WindowError(nbf, token.exp, t, skew) = "Ok" <=> InWindow(token, nbf, t, skew)
<1>1. /\ t \in Int /\ skew \in Int /\ MaxTime \in Int
      /\ nbf # None => nbf \in Int
      /\ token.exp # Never => token.exp \in Int
  BY TimeAssumption DEF Timestamp, Expiry
<1>2. NotYetValid(nbf, t, skew) <=> ~(nbf # None => MinusSeconds(nbf, skew) <= t)
  BY <1>1 DEF NotYetValid, MinusSeconds
<1>3. IsPast(token.exp, t, skew) <=> ~(token.exp # Never => t <= PlusSeconds(token.exp, skew))
  BY <1>1 DEF IsPast, PlusSeconds
<1>. QED  BY <1>2, <1>3 DEF WindowError, InWindow

LEMMA SignatureIsExact ==
  ASSUME NEW token, token.signer \in Key
  PROVE  SignatureError(token) = "Ok" <=> Signed(token)
BY TokensAssumption DEF SignatureError, Signed

LEMMA WindowsAreExact ==
  ASSUME NEW v, v.now \in Timestamp, v.skew \in Nat,
         NEW n \in Nat, NEW chain, \A k \in 1 .. n : chain[k] \in Delegation
  PROVE  WindowsError(v, chain, n) = "Ok" <=>
           \A k \in 1 .. n : InWindow(chain[k], chain[k].nbf, v.now, v.skew)
<1>1. \A k \in 1 .. n : chain[k].nbf \in Timestamp \cup {None} /\ chain[k].exp \in Expiry
  BY DEF Delegation
<1>. DEFINE errors == [k \in 1 .. n |-> WindowError(chain[k].nbf, chain[k].exp, v.now, v.skew)]
<1>2. DOMAIN errors = 1 .. n /\ WindowsError(v, chain, n) = FirstOf(errors)
  BY DEF WindowsError
<1>. HIDE DEF errors
<1>3. FirstOf(errors) = "Ok" <=> \A k \in 1 .. n : errors[k] = "Ok"
  BY <1>2, EachPasses
<1>4. \A k \in 1 .. n : errors[k] = WindowError(chain[k].nbf, chain[k].exp, v.now, v.skew)
  BY DEF errors
<1>. QED  BY <1>1, <1>2, <1>3, <1>4, WindowIsExact

LEMMA SignaturesAreExact ==
  ASSUME NEW n \in Nat, NEW chain, DOMAIN chain = 1 .. n,
         \A k \in 1 .. n : chain[k] \in Delegation
  PROVE  SignaturesError(chain) = "Ok" <=> \A k \in 1 .. n : Signed(chain[k])
<1>1. \A k \in 1 .. n : chain[k].signer \in Key
  BY DEF Delegation
<1>. DEFINE errors == [k \in DOMAIN chain |-> SignatureError(chain[k])]
<1>2. DOMAIN errors = 1 .. n /\ SignaturesError(chain) = FirstOf(errors)
  BY DEF SignaturesError
<1>. HIDE DEF errors
<1>3. FirstOf(errors) = "Ok" <=> \A k \in 1 .. n : errors[k] = "Ok"
  BY <1>2, EachPasses
<1>4. \A k \in 1 .. n : errors[k] = SignatureError(chain[k])
  BY DEF errors
<1>. QED  BY <1>1, <1>2, <1>3, <1>4, SignatureIsExact

LEMMA StructureIsExact ==
  ASSUME NEW chain \in Seq(Delegation), NEW subject,
         NEW last \in Seq(Delegation \cup Invocation),
         RootError(chain, subject) = "Ok",
         \A k \in 1 .. Len(chain) : SubjectError(chain[k], subject) = "Ok",
         \A k \in 1 .. Len(chain \o last) - 1 :
           LinkageError(chain[k], (chain \o last)[k + 1]) = "Ok"
  PROVE  StructureError(chain, subject, last) = "Ok"
<1>. DEFINE subjects == [k \in DOMAIN chain |-> SubjectError(chain[k], subject)]
            tokens == chain \o last
            links == [k \in 1 .. Len(tokens) - 1 |-> LinkageError(chain[k], tokens[k + 1])]
<1>1. FirstOf(subjects) = "Ok"
  <2>1. \A k \in DOMAIN subjects : subjects[k] = "Ok"
    OBVIOUS
  <2>. HIDE DEF subjects
  <2>. QED  BY <2>1, NothingFailed
<1>2. FirstOf(links) = "Ok"
  <2>1. \A k \in DOMAIN links : links[k] = "Ok"
    OBVIOUS
  <2>. HIDE DEF links
  <2>. QED  BY <2>1, NothingFailed
<1>3. StructureError(chain, subject, last) =
        (RootError(chain, subject) ?? FirstOf(subjects)) ?? FirstOf(links)
  BY DEF StructureError
<1>. HIDE DEF subjects, links
<1>. QED  BY <1>1, <1>2, <1>3, Together

\* Nothing that carries its subject's authority fails a check of a hop.
LEMMA AuthorityPassesChecks ==
  ASSUME NEW i \in InvCid, NEW t \in Timestamp, NEW skew \in Nat, Authorized(i, t, skew)
  PROVE  /\ RootError(ChainOf(i), Invocations[i].sub) = "Ok"
         /\ \A k \in Hops(i) :
              /\ SubjectError(ChainOf(i)[k], Invocations[i].sub) = "Ok"
              /\ LinkageError(ChainOf(i)[k], TokenAt(i, k + 1)) = "Ok"
              /\ PolicyError(ChainOf(i)[k], Invocations[i].args) = "Ok"
<1>. DEFINE chain == ChainOf(i)
            n == Len(Invocations[i].prf)
<1>1. Hops(i) = 1 .. n /\ n \in Nat /\ DOMAIN chain = 1 .. n
  BY ChainType DEF Hops, ChainOf
<1>2. /\ Connected(i) /\ Attenuated(i) /\ NeverWidened(i) /\ Permitted(i)
      /\ \A k \in Hops(i) : IsAbout(i, k, Invocations[i].sub)
  BY DEF Authorized
<1>3. 1 \in Hops(i)
  BY <1>1, <1>2 DEF Connected
<1>4. chain[1].sub # Powerline
  <2>1. PICK j \in 1 .. 1 : chain[j].sub # Powerline
    BY <1>2, <1>3 DEF IsAbout, NamedAbove
  <2>2. j = 1
    OBVIOUS
  <2>. QED  BY <2>1, <2>2
<1>5. RootError(chain, Invocations[i].sub) = "Ok"
  <2>1. chain # << >>
    BY <1>1, <1>3
  <2>2. SamePrincipal(chain[1].iss, Invocations[i].sub)
    BY <1>2 DEF Connected
  <2>. HIDE DEF chain
  <2>. QED  BY <1>4, <2>1, <2>2 DEF RootError
<1>6. ASSUME NEW k \in Hops(i) PROVE SubjectError(chain[k], Invocations[i].sub) = "Ok"
  <2>1. PICK j \in NamedAbove(i, k) : /\ \A m \in NamedAbove(i, k) : m <= j
                                      /\ SamePrincipal(chain[j].sub, Invocations[i].sub)
    BY <1>2 DEF IsAbout
  <2>2. CASE chain[k].sub = Powerline
    BY <2>2 DEF SubjectError
  <2>3. CASE chain[k].sub # Powerline
    <3>1. k \in NamedAbove(i, k) /\ j \in 1 .. k
      BY <1>1, <2>3 DEF NamedAbove
    <3>2. j = k
      <4>1. k <= j
        BY <2>1, <3>1
      <4>. QED  BY <1>1, <3>1, <4>1
    <3>. QED  BY <2>1, <3>2 DEF SubjectError
  <2>. QED  BY <2>2, <2>3
<1>7. ASSUME NEW k \in Hops(i) PROVE LinkageError(chain[k], TokenAt(i, k + 1)) = "Ok"
  <2>1. SamePrincipal(chain[k].aud, TokenAt(i, k + 1).iss)
    BY <1>2 DEF Connected
  <2>2. Covers(chain[k].cmd, TokenAt(i, k + 1).cmd)
    <3>1. CASE k + 1 \in Hops(i)
      <4>1. k < k + 1
        BY <1>1
      <4>. QED  BY <1>2, <3>1, <4>1 DEF NeverWidened, TokenAt
    <3>2. CASE k + 1 \notin Hops(i)
      BY <1>2, <3>2 DEF Attenuated, TokenAt
    <3>. QED  BY <3>1, <3>2
  <2>. QED  BY <2>1, <2>2 DEF LinkageError
<1>8. ASSUME NEW k \in Hops(i) PROVE PolicyError(chain[k], Invocations[i].args) = "Ok"
  BY <1>2 DEF Permitted, PolicyError
<1>. QED  BY <1>5, <1>6, <1>7, <1>8

\* The token after the delegation at position k, in the sequence that the walk
\* of check_structure goes along.
LEMMA WalkedTokens ==
  ASSUME NEW i \in InvCid
  PROVE  /\ ChainOf(i) \in Seq(Delegation) /\ Len(ChainOf(i)) = Len(Invocations[i].prf)
         /\ <<Invocations[i]>> \in Seq(Delegation \cup Invocation)
         /\ Len(ChainOf(i) \o <<Invocations[i]>>) - 1 = Len(Invocations[i].prf)
         /\ \A k \in Hops(i) : (ChainOf(i) \o <<Invocations[i]>>)[k + 1] = TokenAt(i, k + 1)
<1>. DEFINE inv == Invocations[i]
            chain == ChainOf(i)
            n == Len(Invocations[i].prf)
<1>1. /\ inv \in Invocation /\ n \in Nat /\ Hops(i) = 1 .. n /\ DOMAIN chain = 1 .. n
      /\ \A k \in 1 .. n : chain[k] \in Delegation
  BY ChainType DEF Hops, ChainOf
<1>2. chain \in Seq(Delegation) /\ Len(chain) = n
  <2>1. chain = [k \in 1 .. n |-> chain[k]]
    BY <1>1 DEF ChainOf
  <2>. HIDE DEF chain
  <2>. QED  BY <1>1, <2>1
<1>3. <<inv>> \in Seq(Delegation \cup Invocation)
  BY <1>1
<1>. HIDE DEF chain
<1>4. Len(chain \o <<inv>>) - 1 = n
  BY <1>1, <1>2
<1>5. ASSUME NEW k \in Hops(i) PROVE (chain \o <<inv>>)[k + 1] = TokenAt(i, k + 1)
  <2>1. CASE k = n
    <3>1. k + 1 \notin Hops(i)
      BY <1>1, <2>1
    <3>2. (chain \o <<inv>>)[k + 1] = inv
      BY <1>1, <1>2, <2>1
    <3>. QED  BY <3>1, <3>2 DEF TokenAt
  <2>2. CASE k # n
    <3>1. k + 1 \in Hops(i) /\ k + 1 \in 1 .. n
      BY <1>1, <2>2
    <3>2. (chain \o <<inv>>)[k + 1] = chain[k + 1]
      BY <1>1, <1>2, <3>1
    <3>. QED  BY <3>1, <3>2 DEF TokenAt, chain
  <2>. QED  BY <2>1, <2>2
<1>. QED  BY <1>2, <1>3, <1>4, <1>5 DEF chain

\* The pipeline refuses for a reason: an invocation with its proofs at hand, no
\* more of them than allowed, the authority of its subject and no revocation
\* that reaches it is never turned down (Validator::validate).
THEOREM PipelineIsExact ==
  ASSUME NEW v, v.now \in Timestamp, v.skew \in Nat,
         v.revoked \subseteq Cid \X (Principal \cup {Everywhere}),
         NEW i \in InvCid
  PROVE  PipelineError(v, i) = "Ok" <=>
           /\ ProofLimitError(v, Len(Invocations[i].prf)) = "Ok"
           /\ \A k \in DOMAIN Invocations[i].prf : Invocations[i].prf[k] \in v.held
           /\ Authorized(i, v.now, v.skew)
           /\ ReachedHops(v.revoked, i) = {}
<1>. DEFINE inv == Invocations[i]
            chain == ChainOf(i)
            n == Len(Invocations[i].prf)
            cids == [k \in Hops(i) |-> CidAt(i, k)]
            held == [k \in DOMAIN inv.prf |-> IF inv.prf[k] \in v.held THEN "Ok" ELSE "MissingProof"]
            policies == [k \in Hops(i) |-> PolicyError(chain[k], inv.args)]
            structure == StructureError(chain, inv.sub, <<inv>>)
            revocations == RevocationsError(v, cids, chain, n)
<1>1. /\ inv \in Invocation /\ n \in Nat /\ Hops(i) = 1 .. n /\ DOMAIN inv.prf = 1 .. n
      /\ DOMAIN chain = 1 .. n /\ \A k \in 1 .. n : chain[k] \in Delegation
  BY ChainType DEF Hops, ChainOf
<1>2. HeldError(v, inv.prf) = "Ok" <=> \A k \in DOMAIN inv.prf : inv.prf[k] \in v.held
  <2>1. DOMAIN held = 1 .. n /\ HeldError(v, inv.prf) = FirstOf(held)
    BY <1>1 DEF HeldError
  <2>. HIDE DEF held
  <2>2. FirstOf(held) = "Ok" <=> \A k \in 1 .. n : held[k] = "Ok"
    BY <1>1, <2>1, EachPasses
  <2>. QED  BY <1>1, <2>1, <2>2 DEF held
<1>3. PipelineError(v, i) = "Ok" <=>
        /\ ProofLimitError(v, n) = "Ok" /\ HeldError(v, inv.prf) = "Ok"
        /\ structure = "Ok"
        /\ WindowsError(v, chain, n) = "Ok" /\ InvocationWindowError(v, i) = "Ok"
        /\ SignaturesError(chain) = "Ok" /\ SignatureError(inv) = "Ok"
        /\ revocations = "Ok" /\ FirstOf(policies) = "Ok"
  <2>1. PipelineError(v, i) =
          (((((((ProofLimitError(v, n) ?? HeldError(v, inv.prf)) ?? structure)
            ?? WindowsError(v, chain, n)) ?? InvocationWindowError(v, i))
            ?? SignaturesError(chain)) ?? SignatureError(inv)) ?? revocations)
            ?? FirstOf(policies)
    BY DEF PipelineError
  <2>. HIDE DEF structure, revocations, policies, chain, inv, n
  <2>. QED  BY <2>1, Together
<1>4. ASSUME HeldError(v, inv.prf) = "Ok", ProofLimitError(v, n) = "Ok",
             Authorized(i, v.now, v.skew), ReachedHops(v.revoked, i) = {}
      PROVE  PipelineError(v, i) = "Ok"
  <2>1. /\ RootError(chain, inv.sub) = "Ok"
        /\ \A k \in Hops(i) :
             /\ SubjectError(chain[k], inv.sub) = "Ok"
             /\ LinkageError(chain[k], TokenAt(i, k + 1)) = "Ok"
             /\ PolicyError(chain[k], inv.args) = "Ok"
    BY <1>4, AuthorityPassesChecks
  <2>2. structure = "Ok"
    <3>1. /\ chain \in Seq(Delegation) /\ Len(chain) = n
          /\ <<inv>> \in Seq(Delegation \cup Invocation)
          /\ Len(chain \o <<inv>>) - 1 = n
          /\ \A k \in Hops(i) : (chain \o <<inv>>)[k + 1] = TokenAt(i, k + 1)
      BY WalkedTokens
    <3>. HIDE DEF chain, inv, n
    <3>. QED  BY <1>1, <2>1, <3>1, StructureIsExact
  <2>3. WindowsError(v, chain, n) = "Ok" /\ InvocationWindowError(v, i) = "Ok"
    <3>1. /\ \A k \in 1 .. n : InWindow(chain[k], chain[k].nbf, v.now, v.skew)
          /\ InWindow(inv, None, v.now, v.skew)
      BY <1>1, <1>4 DEF Authorized, Timely
    <3>2. inv.exp \in Expiry
      BY <1>1 DEF Invocation
    <3>. HIDE DEF chain, inv, n
    <3>3. WindowsError(v, chain, n) = "Ok"
      BY <1>1, <3>1, WindowsAreExact
    <3>4. WindowError(None, inv.exp, v.now, v.skew) = "Ok"
      BY <3>1, <3>2, WindowIsExact
    <3>. QED  BY <3>3, <3>4 DEF InvocationWindowError, inv
  <2>4. SignaturesError(chain) = "Ok" /\ SignatureError(inv) = "Ok"
    <3>1. (\A k \in 1 .. n : Signed(chain[k])) /\ Signed(inv)
      BY <1>1, <1>4 DEF Authorized
    <3>2. inv.signer \in Key
      BY <1>1 DEF Invocation
    <3>. HIDE DEF chain, inv, n
    <3>. QED  BY <1>1, <3>1, <3>2, SignaturesAreExact, SignatureIsExact
  <2>5. revocations = "Ok"
    <3>1. ASSUME NEW k \in 1 .. n PROVE ~IsRevoked(v.revoked, cids[k], Issuers(chain))
      <4>. SUFFICES ASSUME NEW by \in Issuers(chain) \cup {Everywhere},
                           <<cids[k], by>> \in v.revoked
                    PROVE  FALSE
        BY DEF IsRevoked
      <4>1. cids[k] = Resolves[inv.prf[k]]
        BY <1>1 DEF CidAt
      <4>2. Issuers(chain) = {chain[j].iss.base : j \in Hops(i)}
        BY <1>1 DEF Issuers
      <4>3. <<cids[k], by>>[1] = Resolves[inv.prf[k]] /\ <<cids[k], by>>[2] = by
        BY <4>1
      <4>4. k \in ReachedHops(v.revoked, i)
        BY <1>1, <4>2, <4>3 DEF ReachedHops
      <4>. QED  BY <1>4, <4>4
    <3>. HIDE DEF cids, chain
    <3>. QED  BY <3>1, Unreached
  <2>6. FirstOf(policies) = "Ok"
    <3>1. \A k \in DOMAIN policies : policies[k] = "Ok"
      BY <2>1
    <3>. HIDE DEF policies
    <3>. QED  BY <3>1, NothingFailed
  <2>. HIDE DEF structure, revocations, policies, chain, inv, n
  <2>. QED  BY <1>3, <1>4, <2>2, <2>3, <2>4, <2>5, <2>6
<1>5. ASSUME PipelineError(v, i) = "Ok"
      PROVE  Authorized(i, v.now, v.skew) /\ ReachedHops(v.revoked, i) = {}
  BY <1>5, PipelineIsSound
<1>. QED  BY <1>2, <1>3, <1>4, <1>5

----------------------------------------------------------------------------
(* What acceptance says of the message.                                    *)

LEMMA PresentedType ==
  ASSUME NEW m \in Messages
  PROVE  /\ m.inv \in InvCid /\ m.chain \in Seq(Cid)
         /\ Invocations[m.inv] \in Invocation
         /\ Presented(m.chain) \in Seq(Delegation)
         /\ Len(Presented(m.chain)) = Len(m.chain)
         /\ DOMAIN Presented(m.chain) = 1 .. Len(m.chain)
         /\ Len(m.chain) \in Nat
         /\ \A k \in 1 .. Len(m.chain) : /\ m.chain[k] \in Cid
                                         /\ Presented(m.chain)[k] = Delegations[m.chain[k]]
<1>1. m \in Message
  BY IntakeAssumption
<1>2. /\ m.inv \in InvCid /\ m.chain \in Seq(Cid)
      /\ Invocations[m.inv] \in Invocation
  BY <1>1, TokensAssumption DEF Message
<1>3. /\ Len(m.chain) \in Nat /\ DOMAIN m.chain = 1 .. Len(m.chain)
      /\ \A k \in 1 .. Len(m.chain) : m.chain[k] \in Cid
  BY <1>2
<1>4. \A c \in Cid : Delegations[c] \in Delegation
  BY TokensAssumption
<1>5. Presented(m.chain) = [k \in 1 .. Len(m.chain) |-> Delegations[m.chain[k]]]
  BY <1>3 DEF Presented
<1>6. Presented(m.chain) \in Seq(Delegation) /\ Len(Presented(m.chain)) = Len(m.chain)
  BY <1>3, <1>4, <1>5
<1>. QED  BY <1>2, <1>3, <1>5, <1>6

\* Every check that check_revocation makes in turn has passed.
LEMMA EveryCheckPasses ==
  ASSUME NEW v, NEW subject, NEW i, NEW cids,
         CheckRevocationError(v, subject, i, cids) = "Ok"
  PROVE  /\ ReadError(i) = "Ok"
         /\ StructureError(Presented(cids), subject, << >>) = "Ok"
         /\ NamesError(i, cids) = "Ok"
         /\ LoopError(Presented(cids)) = "Ok"
         /\ SignatureError(Invocations[i]) = "Ok"
         /\ SignaturesError(Presented(cids)) = "Ok"
         /\ RightError(v, i, cids) = "Ok"
         /\ StandingError(v, i, cids) = "Ok"
<1>. DEFINE chain == Presented(cids)
            p2 == ReadError(i) ?? ProofLimitError(v, Len(cids))
            p3 == p2 ?? StructureError(chain, subject, << >>)
            p4 == p3 ?? NamesError(i, cids)
            p5 == p4 ?? LoopError(chain)
            p6 == p5 ?? SignatureError(Invocations[i])
            p7 == p6 ?? InvocationWindowError(v, i)
            p8 == p7 ?? SignaturesError(chain)
            p9 == p8 ?? RightError(v, i, cids)
<1>1. p9 ?? StandingError(v, i, cids) = "Ok"
  BY DEF CheckRevocationError
<1>. HIDE DEF p2, p3, p4, p5, p6, p7, p8, p9
<1>2. p9 = "Ok" /\ StandingError(v, i, cids) = "Ok"
  BY <1>1, BothPass
<1>3. p8 = "Ok" /\ RightError(v, i, cids) = "Ok"
  BY <1>2, BothPass DEF p9
<1>4. p7 = "Ok" /\ SignaturesError(chain) = "Ok"
  BY <1>3, BothPass DEF p8
<1>5. p6 = "Ok"
  BY <1>4, BothPass DEF p7
<1>6. p5 = "Ok" /\ SignatureError(Invocations[i]) = "Ok"
  BY <1>5, BothPass DEF p6
<1>7. p4 = "Ok" /\ LoopError(chain) = "Ok"
  BY <1>6, BothPass DEF p5
<1>8. p3 = "Ok" /\ NamesError(i, cids) = "Ok"
  BY <1>7, BothPass DEF p4
<1>9. p2 = "Ok" /\ StructureError(chain, subject, << >>) = "Ok"
  BY <1>8, BothPass DEF p3
<1>10. ReadError(i) = "Ok"
  BY <1>9, BothPass DEF p2
<1>. QED  BY <1>2, <1>3, <1>4, <1>6, <1>7, <1>8, <1>9, <1>10

\* The checks of the chain add up to a signed line from the subject.
LEMMA ChecksMakeALine ==
  ASSUME NEW m \in Messages,
         StructureError(Presented(m.chain), Subject, << >>) = "Ok",
         LoopError(Presented(m.chain)) = "Ok",
         SignaturesError(Presented(m.chain)) = "Ok"
  PROVE  IsLine(Presented(m.chain))
<1>. DEFINE chain == Presented(m.chain)
            n == Len(m.chain)
<1>1. /\ chain \in Seq(Delegation) /\ Len(chain) = n /\ n \in Nat
      /\ DOMAIN chain = 1 .. n /\ \A k \in 1 .. n : chain[k] \in Delegation
  <2>1. chain \in Seq(Delegation) /\ Len(chain) = n /\ n \in Nat /\ DOMAIN chain = 1 .. n
    BY PresentedType
  <2>. HIDE DEF chain
  <2>. QED  BY <2>1
<1>2. /\ RootError(chain, Subject) = "Ok"
      /\ \A k \in 1 .. n : SubjectError(chain[k], Subject) = "Ok"
      /\ \A k \in 1 .. n - 1 : LinkageError(chain[k], chain[k + 1]) = "Ok"
  <2>1. << >> \in Seq(Delegation \cup Invocation)
    OBVIOUS
  <2>2. /\ RootError(chain, Subject) = "Ok"
        /\ \A k \in 1 .. Len(chain) : SubjectError(chain[k], Subject) = "Ok"
        /\ \A k \in 1 .. Len(chain \o << >>) - 1 :
             LinkageError(chain[k], (chain \o << >>)[k + 1]) = "Ok"
    BY <1>1, <2>1, StructureHolds
  <2>. HIDE DEF chain
  <2>3. chain \o << >> = chain
    BY <1>1
  <2>. QED  BY <1>1, <2>2, <2>3
<1>3. \A k \in 1 .. n : SignatureError(chain[k]) = "Ok"
  BY <1>1, SignaturesHold
<1>4. \A j, k \in 1 .. n : j < k => ~SamePrincipal(chain[j].iss, chain[k].iss)
  BY <1>1 DEF LoopError
<1>. HIDE DEF chain
<1>5. ASSUME NEW j \in 1 .. n, NEW k \in 1 .. n, j < k
      PROVE  Covers(chain[j].cmd, chain[k].cmd)
  <2>. DEFINE c == [x \in 1 .. n |-> chain[x].cmd]
  <2>1. \A x \in 1 .. n : c[x] \in Command
    BY <1>1 DEF Delegation
  <2>2. \A x \in 1 .. n - 1 : Covers(c[x], c[x + 1])
    <3>. SUFFICES ASSUME NEW x \in 1 .. n - 1 PROVE Covers(c[x], c[x + 1])
      OBVIOUS
    <3>1. x \in 1 .. n /\ x + 1 \in 1 .. n
      BY <1>1
    <3>. QED  BY <1>2, <3>1 DEF LinkageError
  <2>3. c[j] = chain[j].cmd /\ c[k] = chain[k].cmd
    OBVIOUS
  <2>. HIDE DEF c
  <2>4. Covers(c[j], c[k])
    BY <1>1, <1>5, <2>1, <2>2, CoversAlong
  <2>. QED  BY <2>3, <2>4
<1>6. \A j, k \in 1 .. n : k = j + 1 => SamePrincipal(chain[j].aud, chain[k].iss)
  <2>. SUFFICES ASSUME NEW j \in 1 .. n, j + 1 \in 1 .. n
                PROVE  SamePrincipal(chain[j].aud, chain[j + 1].iss)
    OBVIOUS
  <2>1. j \in 1 .. n - 1
    BY <1>1
  <2>. QED  BY <1>2, <2>1 DEF LinkageError
<1>7. \A k \in 1 .. n : /\ chain[k].sub # Powerline => SamePrincipal(chain[k].sub, Subject)
                        /\ Signed(chain[k])
  BY <1>2, <1>3 DEF SubjectError, SignatureError, Signed
<1>8. /\ chain # << >> /\ SamePrincipal(chain[1].iss, Subject) /\ chain[1].sub # Powerline
  BY <1>2 DEF RootError
<1>9. IsLine(chain)
  BY <1>1, <1>4, <1>5, <1>6, <1>7, <1>8 DEF IsLine
<1>. QED  BY <1>9 DEF chain

\* A place is found only where the principal issued.
LEMMA IssuedThere ==
  ASSUME NEW m \in Messages, NEW did, IssuedAt(Presented(m.chain), did) # 0
  PROVE  /\ IssuedAt(Presented(m.chain), did) \in 1 .. Len(m.chain)
         /\ SamePrincipal(Presented(m.chain)[IssuedAt(Presented(m.chain), did)].iss, did)
<1>. DEFINE places == {k \in DOMAIN Presented(m.chain) :
                         SamePrincipal(Presented(m.chain)[k].iss, did)}
<1>1. places # {}
  BY DEF IssuedAt
<1>2. places \subseteq Nat /\ DOMAIN Presented(m.chain) = 1 .. Len(m.chain)
  BY PresentedType
<1>3. \E k \in places : \A j \in places : k <= j
  BY <1>1, <1>2, Least
<1>4. IssuedAt(Presented(m.chain), did) = CHOOSE k \in places : \A j \in places : k <= j
  BY <1>1 DEF IssuedAt
<1>5. IssuedAt(Presented(m.chain), did) \in places
  BY <1>3, <1>4
<1>. QED  BY <1>2, <1>5

LEMMA EntryType ==
  ASSUME NEW m \in Messages, IsLine(Presented(m.chain))
  PROVE  Entry(m) \in Record
<1>1. /\ m.chain \in Seq(Cid) /\ Invocations[m.inv] \in Invocation
      /\ DOMAIN Presented(m.chain) = 1 .. Len(m.chain) /\ Len(m.chain) \in Nat
      /\ Presented(m.chain) \in Seq(Delegation)
      /\ Len(Presented(m.chain)) = Len(m.chain)
  BY PresentedType
<1>2. Presented(m.chain) # << >>
  BY DEF IsLine
<1>3. Len(m.chain) # 0
  <2>. SUFFICES ASSUME Len(Presented(m.chain)) = 0 PROVE FALSE
    BY <1>1
  <2>. HIDE DEF Presented
  <2>. QED  BY <1>1, <1>2
<1>4. Last(m.chain) \in Cid
  BY <1>1, <1>3 DEF Last
<1>5. AuthorityOf(m.inv, m.chain).base \in Principal
  BY <1>1 DEF AuthorityOf, Invocation, Did
<1>. QED  BY <1>4, <1>5 DEF Entry, Record

\* What check_revocation accepts is recorded as an entry that was earned.
LEMMA AcceptanceIsEarned ==
  ASSUME NEW m \in Messages, NEW t \in Timestamp, revoked \subseteq Record,
         Verdict(m, t) = "Ok"
  PROVE  EarnedBy(m, Entry(m)[1], Entry(m)[2]) /\ Entry(m) \in Record
<1>. DEFINE chain == Presented(m.chain)
            inv == Invocations[m.inv]
            v == Validator(t)
            n == Len(m.chain)
<1>1. /\ ReadError(m.inv) = "Ok"
      /\ StructureError(chain, Subject, << >>) = "Ok"
      /\ NamesError(m.inv, m.chain) = "Ok" /\ LoopError(chain) = "Ok"
      /\ SignatureError(inv) = "Ok" /\ SignaturesError(chain) = "Ok"
      /\ RightError(v, m.inv, m.chain) = "Ok"
  BY EveryCheckPasses DEF Verdict
<1>2. IsLine(chain)
  BY <1>1, ChecksMakeALine
<1>3. m.inv \in InvCid /\ inv \in Invocation /\ DOMAIN chain = 1 .. n /\ n \in Nat
  BY PresentedType
<1>4. Revokes(m.inv, Last(m.chain))
  <2>1. inv.cmd = RevokeCommand
    <3>. DEFINE command == IF inv.cmd # RevokeCommand THEN "NotARevocation" ELSE "Ok"
                errors == [k \in DOMAIN ArgumentsOf[inv.args] |->
                             ArgumentError(ArgumentsOf[inv.args][k])]
                target == IF Named(m.inv, "revoke") = {} THEN "MissingTarget" ELSE "Ok"
    <3>1. (command ?? FirstOf(errors)) ?? target = "Ok"
      BY <1>1 DEF ReadError
    <3>2. command = "Ok"
      <4>. HIDE DEF command, errors, target
      <4>. QED  BY <3>1, BothPass
    <3>. QED  BY <3>2
  <2>2. <<Last(m.chain)>> \in Named(m.inv, "revoke")
    BY <1>1 DEF NamesError
  <2>. QED  BY <2>1, <2>2 DEF Revokes
<1>5. Signed(inv)
  BY <1>1 DEF SignatureError, Signed
<1>6. CASE ~IsDelegated(m.inv, m.chain)
  <2>1. AuthorityOf(m.inv, m.chain) = inv.iss
    BY <1>6 DEF AuthorityOf
  <2>2. \E k \in DOMAIN chain : SamePrincipal(chain[k].iss, inv.iss)
    BY <1>3, <1>6, IssuedThere DEF IsDelegated
  <2>. QED  BY <1>2, <1>3, <1>4, <1>5, <2>1, <2>2, EntryType
       DEF EarnedBy, Entry, SamePrincipal
<1>7. CASE IsDelegated(m.inv, m.chain)
  <2>1. AuthorityOf(m.inv, m.chain) = inv.sub
    BY <1>7 DEF AuthorityOf
  <2>2. IssuedAt(chain, inv.sub) # 0 /\ PipelineError(v, m.inv) = "Ok"
    BY <1>1, <1>7 DEF RightError
  <2>3. \E k \in DOMAIN chain : SamePrincipal(chain[k].iss, inv.sub)
    BY <1>3, <2>2, IssuedThere
  <2>4. Authorized(m.inv, t, Skew)
    <3>1. v.now = t /\ v.skew = Skew /\ v.revoked = revoked /\ Skew \in Nat
      BY IntakeAssumption DEF Validator
    <3>. HIDE DEF v
    <3>. QED  BY <1>3, <2>2, <3>1, PipelineIsSound DEF Record
  <2>. QED  BY <1>2, <1>3, <1>4, <1>5, <2>1, <2>3, <2>4, EntryType
       DEF EarnedBy, Entry, SamePrincipal
<1>. QED  BY <1>6, <1>7

----------------------------------------------------------------------------
(* Types, and records that were earned.                                    *)

\* Every message that was ever accepted earned its entry, and so was every
\* record a principal's that was ever made.
EarnedInv ==
  /\ \A m \in accepted : EarnedBy(m, Entry(m)[1], Entry(m)[2]) /\ Entry(m) \in Record
  /\ \A r \in everRevoked :
       r[2] # Everywhere => \E m \in Messages : EarnedBy(m, r[1], r[2])

LEMMA InitEarned == Init => TypeOK /\ EarnedInv
BY DEF Init, TypeOK, EarnedInv

LEMMA NextEarned ==
  ASSUME TypeOK, EarnedInv, [Next]_vars
  PROVE  TypeOK' /\ EarnedInv'
<1>. USE DEF TypeOK, EarnedInv
<1>1. ASSUME NEW m \in Messages, NEW t \in Timestamp, Accept(m, t)
      PROVE  TypeOK' /\ EarnedInv'
  <2>1. EarnedBy(m, Entry(m)[1], Entry(m)[2]) /\ Entry(m) \in Record
    BY <1>1, AcceptanceIsEarned DEF Accept
  <2>. QED  BY <1>1, <2>1 DEF Accept
<1>2. ASSUME NEW m \in Messages, NEW t \in Timestamp, Refuse(m, t)
      PROVE  TypeOK' /\ EarnedInv'
  BY <1>2 DEF Refuse
<1>3. ASSUME NEW m \in Messages, RecordAccepted(m)
      PROVE  TypeOK' /\ EarnedInv'
  <2>1. m \in accepted /\ Entry(m) \in Record /\ EarnedBy(m, Entry(m)[1], Entry(m)[2])
    BY <1>3 DEF RecordAccepted
  <2>. QED  BY <1>3, <2>1 DEF RecordAccepted
<1>4. ASSUME NEW c \in Operator, RevokeEverywhere(c)
      PROVE  TypeOK' /\ EarnedInv'
  <2>1. <<c, Everywhere>> \in Record
    BY IntakeAssumption DEF Record
  <2>2. <<c, Everywhere>>[2] = Everywhere
    OBVIOUS
  <2>. QED  BY <1>4, <2>1, <2>2 DEF RevokeEverywhere
<1>5. ASSUME NEW t \in Timestamp, Prune(t)
      PROVE  TypeOK' /\ EarnedInv'
  BY <1>5 DEF Prune
<1>6. CASE Tick
  BY <1>6, TimeAssumption DEF Tick, Timestamp
<1>7. CASE UNCHANGED vars
  BY <1>7 DEF vars
<1>. QED  BY <1>1, <1>2, <1>3, <1>4, <1>5, <1>6, <1>7 DEF Next

\* Every reachable state of the store, of what waits to be recorded and of the
\* histories is well typed.
THEOREM IntakeTypeCorrect == Spec => []TypeOK
<1>1. TypeOK /\ EarnedInv /\ [Next]_vars => (TypeOK /\ EarnedInv)'
  BY NextEarned
<1>. QED  BY <1>1, InitEarned, PTL DEF Spec

\* Whatever arrives and in whatever order, a principal's record is there only if
\* that principal issued in a signed line of this subject that ends in the
\* delegation, and asked for the revocation or is the subject of one that
\* carries their authority (Validator::check_revocation, then record).
THEOREM RecordsEarned == Spec => []RecordsAreEarned
<1>1. TypeOK /\ EarnedInv /\ [Next]_vars => (TypeOK /\ EarnedInv)'
  BY NextEarned
<1>2. TypeOK /\ EarnedInv => RecordsAreEarned
  BY DEF TypeOK, EarnedInv, RecordsAreEarned
<1>. QED  BY <1>1, <1>2, InitEarned, PTL DEF Spec

----------------------------------------------------------------------------
(* Lost authority.  A record is only ever dropped when its delegation no   *)
(* longer passes a window check, provided the store is pruned late enough. *)

PrunesLate == PruneSkew >= Skew + Lag

\* No reading of the clock finds a token with this expiry in its window.
Gone(exp) == \A t \in Timestamp : clock - Lag <= t => IsPast(exp, t, Skew)

KeptOrGone == \A r \in everRevoked : r \in revoked \/ Gone(Delegations[r[1]].exp)

LEMMA PrunedIsGone ==
  ASSUME TypeOK, PrunesLate, NEW t, Reading(t), NEW exp \in Expiry, IsPast(exp, t, PruneSkew)
  PROVE  Gone(exp)
<1>1. /\ clock \in Int /\ t \in Int /\ exp \in Int /\ MaxTime \in Int
      /\ t <= MaxTime /\ t <= clock
      /\ Lag \in Nat /\ Skew \in Nat /\ PruneSkew \in Nat
      /\ exp # Never
  BY TimeAssumption, IntakeAssumption DEF TypeOK, Timestamp, Expiry, IsPast, Reading
<1>2. exp + PruneSkew < t
  BY <1>1 DEF IsPast, PlusSeconds
<1>. SUFFICES ASSUME NEW u \in Timestamp, clock - Lag <= u PROVE IsPast(exp, u, Skew)
  BY DEF Gone
<1>3. u \in Int
  BY DEF Timestamp
<1>4. exp + Skew < u /\ exp + Skew <= MaxTime
  BY <1>1, <1>2, <1>3 DEF PrunesLate
<1>. QED  BY <1>1, <1>3, <1>4 DEF IsPast, PlusSeconds

LEMMA GoneForever ==
  ASSUME TypeOK, [Next]_vars, NEW exp, Gone(exp)
  PROVE  Gone(exp)'
<1>1. clock' = clock \/ clock' = clock + 1
  BY DEF Next, Accept, Refuse, RecordAccepted, RevokeEverywhere, Prune, Tick, vars
<1>2. clock \in Int /\ Lag \in Int
  BY IntakeAssumption DEF TypeOK, Timestamp
<1>. SUFFICES ASSUME NEW u \in Timestamp, clock' - Lag <= u PROVE IsPast(exp, u, Skew)
  BY DEF Gone
<1>3. u \in Int
  BY DEF Timestamp
<1>4. clock - Lag <= u
  BY <1>1, <1>2, <1>3
<1>. QED  BY <1>4 DEF Gone

LEMMA KeptOrGoneNext ==
  ASSUME PrunesLate, TypeOK, KeptOrGone, [Next]_vars
  PROVE  KeptOrGone'
<1>. SUFFICES ASSUME NEW r \in everRevoked', r \notin revoked'
              PROVE  Gone(Delegations[r[1]].exp)'
  BY DEF KeptOrGone
<1>1. CASE r \notin everRevoked
  BY <1>1 DEF Next, Accept, Refuse, RecordAccepted, RevokeEverywhere, Prune, Tick, vars
<1>2. CASE r \in everRevoked
  <2>1. Gone(Delegations[r[1]].exp)
    <3>1. CASE r \notin revoked
      BY <1>2, <3>1 DEF KeptOrGone
    <3>2. CASE r \in revoked
      <4>1. PICK t \in Timestamp : Prune(t)
        BY <3>2 DEF Next, Accept, Refuse, RecordAccepted, RevokeEverywhere, Tick, vars
      <4>2. Reading(t) /\ IsPast(Delegations[r[1]].exp, t, PruneSkew)
        BY <3>2, <4>1 DEF Prune
      <4>3. Delegations[r[1]].exp \in Expiry
        BY <3>2, TokensAssumption DEF TypeOK, Record, Delegation
      <4>. QED  BY <4>2, <4>3, PrunedIsGone
    <3>. QED  BY <3>1, <3>2
  <2>. QED  BY <2>1, GoneForever
<1>. QED  BY <1>1, <1>2

\* In a line, the right that is used lies at the one place its holder issues.
LEMMA RightBelow ==
  ASSUME NEW m \in Messages, IsLine(Presented(m.chain)), NEW k \in Above(m)
  PROVE  /\ RightAt(m.inv, m.chain) \in 1 .. Len(m.chain)
         /\ k \in 1 .. RightAt(m.inv, m.chain) - 1
<1>. DEFINE chain == Presented(m.chain)
            did == AuthorityOf(m.inv, m.chain)
            places == {x \in DOMAIN chain : SamePrincipal(chain[x].iss, did)}
<1>1. /\ DOMAIN chain = 1 .. Len(m.chain) /\ DOMAIN m.chain = 1 .. Len(m.chain)
      /\ Len(m.chain) \in Nat
  BY PresentedType
<1>2. PICK j \in 1 .. Len(m.chain) : k \in 1 .. Len(m.chain) /\ k < j /\ j \in places
  BY <1>1 DEF Above
<1>3. IssuedAt(chain, did) \in places
  <2>1. j \in places /\ places \subseteq Nat
    BY <1>1, <1>2
  <2>2. \E x \in places : \A y \in places : x <= y
    <3>. HIDE DEF places
    <3>. QED  BY <2>1, Least
  <2>3. IssuedAt(chain, did) = CHOOSE x \in places : \A y \in places : x <= y
    BY <2>1 DEF IssuedAt
  <2>. HIDE DEF places
  <2>. QED  BY <2>2, <2>3
<1>. DEFINE p == IssuedAt(chain, did)
<1>4. p \in 1 .. Len(m.chain) /\ SamePrincipal(chain[p].iss, did) /\ SamePrincipal(chain[j].iss, did)
  BY <1>1, <1>2, <1>3
<1>5. p = j
  <2>1. ~SamePrincipal(chain[p].iss, chain[j].iss) => FALSE
    BY <1>4 DEF SamePrincipal
  <2>2. ~SamePrincipal(chain[j].iss, chain[p].iss) => FALSE
    BY <1>4 DEF SamePrincipal
  <2>3. ~(p < j) /\ ~(j < p)
    BY <1>1, <1>2, <1>4, <2>1, <2>2 DEF IsLine
  <2>. HIDE DEF p
  <2>. QED  BY <1>1, <1>2, <1>4, <2>3
<1>6. RightAt(m.inv, m.chain) = j
  BY <1>5 DEF RightAt
<1>. QED  BY <1>1, <1>2, <1>6

LEMMA AcceptedStandsStill ==
  ASSUME TypeOK, KeptOrGone, NEW m \in Messages, NEW t \in Timestamp, Accept(m, t)
  PROVE  /\ \A k \in Above(m) : ~IsReached(everRevoked, m.chain, k)
         /\ IsDelegated(m.inv, m.chain) => ReachedHops(everRevoked, m.inv) = {}
<1>. DEFINE chain == Presented(m.chain)
            v == Validator(t)
<1>1. /\ StructureError(chain, Subject, << >>) = "Ok" /\ LoopError(chain) = "Ok"
      /\ SignaturesError(chain) = "Ok"
      /\ RightError(v, m.inv, m.chain) = "Ok" /\ StandingError(v, m.inv, m.chain) = "Ok"
  BY EveryCheckPasses DEF Accept, Verdict
<1>2. IsLine(chain)
  BY <1>1, ChecksMakeALine
<1>3. /\ v.now = t /\ v.skew = Skew /\ v.revoked = revoked /\ Skew \in Nat
      /\ clock - Lag <= t
  BY IntakeAssumption DEF Validator, Accept, Reading
<1>. HIDE DEF v
<1>4. ASSUME NEW k \in Above(m), IsReached(everRevoked, m.chain, k) PROVE FALSE
  <2>. DEFINE n == RightAt(m.inv, m.chain) - 1
  <2>1. RightAt(m.inv, m.chain) \in 1 .. Len(m.chain) /\ k \in 1 .. n /\ Len(m.chain) \in Nat
    BY <1>2, RightBelow, PresentedType
  <2>2. n \in Nat /\ k \in 1 .. Len(m.chain)
    BY <2>1
  <2>3. WindowsError(v, chain, n) = "Ok" /\ RevocationsError(v, m.chain, chain, n) = "Ok"
    BY <1>1, BothPass DEF StandingError
  <2>4. WindowError(chain[k].nbf, chain[k].exp, t, Skew) = "Ok"
    BY <1>3, <2>1, <2>2, <2>3, WindowsPass
  <2>5. ~IsRevoked(revoked, m.chain[k], Issuers(chain))
    BY <1>3, <2>1, <2>2, <2>3, RevocationsPass
  <2>6. PICK by \in Issuers(chain) \cup {Everywhere} : <<m.chain[k], by>> \in everRevoked
    BY <1>4 DEF IsReached, IsRevoked
  <2>7. <<m.chain[k], by>> \notin revoked
    BY <2>5, <2>6 DEF IsRevoked
  <2>8. Gone(Delegations[m.chain[k]].exp)
    BY <2>6, <2>7 DEF KeptOrGone
  <2>9. chain[k] = Delegations[m.chain[k]]
    BY <2>2, PresentedType
  <2>. QED  BY <1>3, <2>4, <2>8, <2>9 DEF Gone, WindowError
<1>5. ASSUME IsDelegated(m.inv, m.chain), NEW k \in ReachedHops(everRevoked, m.inv) PROVE FALSE
  <2>1. PipelineError(v, m.inv) = "Ok" /\ m.inv \in InvCid
    BY <1>1, <1>5, PresentedType DEF RightError
  <2>2. Authorized(m.inv, t, Skew) /\ ReachedHops(revoked, m.inv) = {}
    BY <1>3, <2>1, PipelineIsSound DEF TypeOK, Record
  <2>3. k \in Hops(m.inv)
    BY DEF ReachedHops
  <2>4. PICK r \in everRevoked : /\ r[1] = CidAt(m.inv, k) /\ r \notin revoked
    BY <2>2 DEF ReachedHops, CidAt
  <2>5. Gone(ChainOf(m.inv)[k].exp) /\ ChainOf(m.inv)[k] \in Delegation
    BY <2>1, <2>3, <2>4, ChainType DEF KeptOrGone
  <2>6. IsPast(ChainOf(m.inv)[k].exp, t, Skew)
    BY <1>3, <2>5 DEF Gone
  <2>7. ChainOf(m.inv)[k].exp # Never => t <= PlusSeconds(ChainOf(m.inv)[k].exp, Skew)
    BY <2>2, <2>3 DEF Authorized, Timely, InWindow
  <2>8. /\ t \in Int /\ MaxTime \in Int
        /\ ChainOf(m.inv)[k].exp # Never => ChainOf(m.inv)[k].exp \in Int
    BY <2>5, TimeAssumption DEF Timestamp, Expiry, Delegation
  <2>. QED  BY <1>3, <2>6, <2>7, <2>8 DEF IsPast, PlusSeconds
<1>. QED  BY <1>4, <1>5

\* Provided the store is pruned late, a revoker whose right hung on a hop that
\* was ever revoked for this chain, or on a grant that was, is turned down for
\* good: the record may be swept, but only when the window checks took over
\* (Validator::check_standing and check_grant).
THEOREM LostAuthorityIsLost ==
  ASSUME PrunesLate
  PROVE  Spec => LostAuthorityRevokesNothing
<1>. DEFINE IInv == TypeOK /\ EarnedInv /\ KeptOrGone
            Fair == \A m \in accepted' \ accepted :
                      /\ \A k \in Above(m) : ~IsReached(everRevoked, m.chain, k)
                      /\ IsDelegated(m.inv, m.chain) => ReachedHops(everRevoked, m.inv) = {}
<1>1. Init => IInv
  BY InitEarned DEF Init, KeptOrGone
<1>2. IInv /\ [Next]_vars => IInv'
  BY NextEarned, KeptOrGoneNext
<1>3. IInv /\ [Next]_vars => [Fair]_vars
  <2>. SUFFICES ASSUME IInv, Next, NEW m \in accepted' \ accepted
                PROVE  /\ \A k \in Above(m) : ~IsReached(everRevoked, m.chain, k)
                       /\ IsDelegated(m.inv, m.chain) => ReachedHops(everRevoked, m.inv) = {}
    OBVIOUS
  <2>1. PICK x \in Messages, t \in Timestamp : Accept(x, t)
    BY DEF Next, Refuse, RecordAccepted, RevokeEverywhere, Prune, Tick
  <2>2. m = x
    BY <2>1 DEF Accept
  <2>. QED  BY <2>1, <2>2, AcceptedStandsStill
<1>. QED  BY <1>1, <1>2, <1>3, PTL DEF Spec, LostAuthorityRevokesNothing

----------------------------------------------------------------------------
(* A verdict and the entitlement it stands for.                            *)

LEMMA ReadIsExact ==
  ASSUME NEW m \in Messages
  PROVE  ReadError(m.inv) = "Ok" /\ NamesError(m.inv, m.chain) = "Ok" <=>
           LET args == ArgumentsOf[Invocations[m.inv].args]
           IN  /\ \A k \in DOMAIN args : ArgumentError(args[k]) = "Ok"
               /\ Revokes(m.inv, Last(m.chain))
               /\ Named(m.inv, "path") \subseteq {m.chain}
<1>. DEFINE args == ArgumentsOf[Invocations[m.inv].args]
            command == IF Invocations[m.inv].cmd # RevokeCommand THEN "NotARevocation" ELSE "Ok"
            errors == [k \in DOMAIN args |-> ArgumentError(args[k])]
            target == IF Named(m.inv, "revoke") = {} THEN "MissingTarget" ELSE "Ok"
<1>1. args \in Seq(Argument)
  BY PresentedType, RevocationAssumption DEF Invocation
<1>2. FirstOf(errors) = "Ok" <=> \A k \in DOMAIN args : ArgumentError(args[k]) = "Ok"
  <2>1. DOMAIN errors = DOMAIN args /\ DOMAIN args = 1 .. Len(args) /\ Len(args) \in Nat
    <3>. HIDE DEF args
    <3>. QED  BY <1>1
  <2>2. \A k \in DOMAIN args : errors[k] = ArgumentError(args[k])
    OBVIOUS
  <2>. HIDE DEF errors, args
  <2>. QED  BY <2>1, <2>2, EachPasses
<1>3. ReadError(m.inv) = "Ok" <=> command = "Ok" /\ FirstOf(errors) = "Ok" /\ target = "Ok"
  <2>1. ReadError(m.inv) = (command ?? FirstOf(errors)) ?? target
    BY DEF ReadError
  <2>. HIDE DEF command, errors, target
  <2>. QED  BY <2>1, Together
<1>4. NamesError(m.inv, m.chain) = "Ok" <=>
        /\ <<Last(m.chain)>> \in Named(m.inv, "revoke")
        /\ Named(m.inv, "path") \subseteq {m.chain}
  BY DEF NamesError
<1>5. command = "Ok" <=> Invocations[m.inv].cmd = RevokeCommand
  OBVIOUS
<1>6. <<Last(m.chain)>> \in Named(m.inv, "revoke") => target = "Ok"
  OBVIOUS
<1>. HIDE DEF args, command, errors, target
<1>7. ReadError(m.inv) = "Ok" /\ NamesError(m.inv, m.chain) = "Ok" <=>
        /\ \A k \in DOMAIN args : ArgumentError(args[k]) = "Ok"
        /\ Revokes(m.inv, Last(m.chain))
        /\ Named(m.inv, "path") \subseteq {m.chain}
  BY <1>2, <1>3, <1>4, <1>5, <1>6 DEF Revokes
<1>. QED  BY <1>7 DEF args

\* A chain passes exactly when it is a signed line from the subject.
LEMMA LineIsExact ==
  ASSUME NEW m \in Messages
  PROVE  /\ StructureError(Presented(m.chain), Subject, << >>) = "Ok"
         /\ LoopError(Presented(m.chain)) = "Ok"
         /\ SignaturesError(Presented(m.chain)) = "Ok"
         <=> IsLine(Presented(m.chain))
<1>. DEFINE chain == Presented(m.chain)
            n == Len(m.chain)
<1>1. /\ chain \in Seq(Delegation) /\ Len(chain) = n /\ n \in Nat /\ DOMAIN chain = 1 .. n
  BY PresentedType
<1>. SUFFICES ASSUME IsLine(chain)
              PROVE  /\ StructureError(chain, Subject, << >>) = "Ok"
                     /\ LoopError(chain) = "Ok" /\ SignaturesError(chain) = "Ok"
  BY ChecksMakeALine
<1>. HIDE DEF chain, n
<1>2. \A k \in 1 .. n : chain[k] \in Delegation
  BY <1>1
<1>3. RootError(chain, Subject) = "Ok"
  BY DEF IsLine, RootError
<1>4. \A k \in 1 .. n : SubjectError(chain[k], Subject) = "Ok"
  BY <1>1 DEF IsLine, SubjectError
<1>5. ASSUME NEW k \in 1 .. n - 1 PROVE LinkageError(chain[k], chain[k + 1]) = "Ok"
  <2>1. k \in 1 .. n /\ k + 1 \in 1 .. n /\ k < k + 1
    BY <1>1
  <2>. QED  BY <1>1, <2>1 DEF IsLine, LinkageError
<1>6. StructureError(chain, Subject, << >>) = "Ok"
  <2>1. << >> \in Seq(Delegation \cup Invocation) /\ chain \o << >> = chain
    BY <1>1
  <2>. QED  BY <1>1, <1>3, <1>4, <1>5, <2>1, StructureIsExact
<1>7. LoopError(chain) = "Ok"
  BY DEF IsLine, LoopError
<1>8. SignaturesError(chain) = "Ok"
  <2>1. \A k \in 1 .. n : Signed(chain[k])
    BY <1>1 DEF IsLine
  <2>. QED  BY <1>1, <1>2, <2>1, SignaturesAreExact
<1>. QED  BY <1>6, <1>7, <1>8

LEMMA IssuedSomewhere ==
  ASSUME NEW m \in Messages, NEW did
  PROVE  IssuedAt(Presented(m.chain), did) # 0 <=>
           \E k \in DOMAIN Presented(m.chain) : SamePrincipal(Presented(m.chain)[k].iss, did)
<1>1. DOMAIN Presented(m.chain) = 1 .. Len(m.chain) /\ Len(m.chain) \in Nat
  BY PresentedType
<1>2. ASSUME IssuedAt(Presented(m.chain), did) # 0
      PROVE  \E k \in DOMAIN Presented(m.chain) : SamePrincipal(Presented(m.chain)[k].iss, did)
  BY <1>1, <1>2, IssuedThere
<1>3. ASSUME \E k \in DOMAIN Presented(m.chain) : SamePrincipal(Presented(m.chain)[k].iss, did)
      PROVE  IssuedAt(Presented(m.chain), did) # 0
  <2>. DEFINE places == {k \in DOMAIN Presented(m.chain) :
                           SamePrincipal(Presented(m.chain)[k].iss, did)}
  <2>1. places # {} /\ places \subseteq Nat /\ 0 \notin places
    BY <1>1, <1>3
  <2>2. IssuedAt(Presented(m.chain), did) = CHOOSE k \in places : \A j \in places : k <= j
    BY <2>1 DEF IssuedAt
  <2>. HIDE DEF places
  <2>3. \E k \in places : \A j \in places : k <= j
    BY <2>1, Least
  <2>. QED  BY <2>1, <2>2, <2>3
<1>. QED  BY <1>2, <1>3

\* The hops above the right that is used are those before the one place where
\* its holder issues.
LEMMA AboveIsBefore ==
  ASSUME NEW m \in Messages, IsLine(Presented(m.chain)),
         RightAt(m.inv, m.chain) # 0
  PROVE  /\ RightAt(m.inv, m.chain) \in 1 .. Len(m.chain)
         /\ Above(m) = 1 .. RightAt(m.inv, m.chain) - 1
<1>. DEFINE right == RightAt(m.inv, m.chain)
<1>1. right \in 1 .. Len(m.chain) /\ Len(m.chain) \in Nat
      /\ SamePrincipal(Presented(m.chain)[right].iss, AuthorityOf(m.inv, m.chain))
      /\ DOMAIN m.chain = 1 .. Len(m.chain)
  BY IssuedThere, PresentedType DEF RightAt
<1>2. Above(m) \subseteq 1 .. right - 1
  BY RightBelow
<1>3. ASSUME NEW k \in 1 .. right - 1 PROVE k \in Above(m)
  <2>. HIDE DEF right
  <2>1. k \in DOMAIN m.chain /\ right \in DOMAIN m.chain /\ k < right
    BY <1>1
  <2>. QED  BY <1>1, <2>1 DEF Above
<1>. QED  BY <1>1, <1>2, <1>3

LEMMA StandingIsExact ==
  ASSUME NEW m \in Messages, IsLine(Presented(m.chain)), RightAt(m.inv, m.chain) # 0,
         NEW t \in Timestamp
  PROVE  StandingError(Validator(t), m.inv, m.chain) = "Ok" <=>
           \A k \in Above(m) :
             /\ InWindow(Presented(m.chain)[k], Presented(m.chain)[k].nbf, t, Skew)
             /\ ~IsReached(revoked, m.chain, k)
<1>. DEFINE chain == Presented(m.chain)
            n == RightAt(m.inv, m.chain) - 1
            v == Validator(t)
<1>1. n \in Nat /\ Above(m) = 1 .. n /\ n < Len(m.chain)
  <2>1. RightAt(m.inv, m.chain) \in 1 .. Len(m.chain) /\ Len(m.chain) \in Nat
        /\ Above(m) = 1 .. n
    BY AboveIsBefore, PresentedType
  <2>. QED  BY <2>1
<1>2. \A k \in 1 .. n : chain[k] \in Delegation
  <2>1. chain \in Seq(Delegation) /\ Len(chain) = Len(m.chain) /\ Len(m.chain) \in Nat
    BY PresentedType
  <2>. HIDE DEF chain, n
  <2>. QED  BY <1>1, <2>1
<1>3. v.now = t /\ v.skew = Skew /\ v.revoked = revoked /\ Skew \in Nat
  BY IntakeAssumption DEF Validator
<1>. HIDE DEF v
<1>4. StandingError(v, m.inv, m.chain) = "Ok" <=>
        WindowsError(v, chain, n) = "Ok" /\ RevocationsError(v, m.chain, chain, n) = "Ok"
  BY Together DEF StandingError
<1>5. WindowsError(v, chain, n) = "Ok" <=>
        \A k \in 1 .. n : InWindow(chain[k], chain[k].nbf, t, Skew)
  <2>. HIDE DEF chain, n
  <2>. QED  BY <1>1, <1>2, <1>3, WindowsAreExact
<1>6. RevocationsError(v, m.chain, chain, n) = "Ok" <=>
        \A k \in 1 .. n : ~IsRevoked(revoked, m.chain[k], Issuers(chain))
  <2>. HIDE DEF chain, n
  <2>. QED  BY <1>1, <1>3, RevocationsPass, Unreached
<1>7. \A k : IsReached(revoked, m.chain, k) <=> IsRevoked(revoked, m.chain[k], Issuers(chain))
  BY DEF IsReached
<1>. HIDE DEF chain, n
<1>8. StandingError(v, m.inv, m.chain) = "Ok" <=>
        \A k \in Above(m) : InWindow(chain[k], chain[k].nbf, t, Skew)
                            /\ ~IsReached(revoked, m.chain, k)
  BY <1>1, <1>4, <1>5, <1>6, <1>7
<1>. QED  BY <1>8 DEF chain, v

\* What check_revocation answers, and what a revocation must be to count.
LEMMA VerdictIsExact ==
  ASSUME TypeOK, NEW m \in Messages, NEW t \in Timestamp
  PROVE  Verdict(m, t) = "Ok" <=> Entitled(m, revoked, t)
<1>. DEFINE i == m.inv
            inv == Invocations[m.inv]
            chain == Presented(m.chain)
            v == Validator(t)
            args == ArgumentsOf[inv.args]
            isIssuer == \E k \in DOMAIN chain : SamePrincipal(chain[k].iss, inv.iss)
            granted == /\ inv.prf # << >>
                       /\ MaxProofs # None => Len(inv.prf) <= MaxProofs
                       /\ \A k \in DOMAIN inv.prf : inv.prf[k] \in Held
                       /\ Authorized(i, t, Skew)
                       /\ ReachedHops(revoked, i) = {}
            namesSubject == \E k \in DOMAIN chain : SamePrincipal(chain[k].iss, inv.sub)
            stands == \A k \in Above(m) : /\ InWindow(chain[k], chain[k].nbf, t, Skew)
                                          /\ ~IsReached(revoked, m.chain, k)
<1>1. /\ i \in InvCid /\ inv \in Invocation /\ Len(m.chain) \in Nat /\ Len(inv.prf) \in Nat
  BY PresentedType, ChainType
<1>2. /\ v.now = t /\ v.skew = Skew /\ v.max = MaxProofs /\ v.held = Held
      /\ v.revoked = revoked /\ Skew \in Nat /\ MaxProofs \in Nat \cup {None}
  BY IntakeAssumption DEF Validator
<1>3. Verdict(m, t) = "Ok" <=>
        /\ ReadError(i) = "Ok" /\ ProofLimitError(v, Len(m.chain)) = "Ok"
        /\ StructureError(chain, Subject, << >>) = "Ok" /\ NamesError(i, m.chain) = "Ok"
        /\ LoopError(chain) = "Ok" /\ SignatureError(inv) = "Ok"
        /\ InvocationWindowError(v, i) = "Ok" /\ SignaturesError(chain) = "Ok"
        /\ RightError(v, i, m.chain) = "Ok" /\ StandingError(v, i, m.chain) = "Ok"
  <2>1. Verdict(m, t) =
          ((((((((ReadError(i) ?? ProofLimitError(v, Len(m.chain)))
            ?? StructureError(chain, Subject, << >>)) ?? NamesError(i, m.chain))
            ?? LoopError(chain)) ?? SignatureError(inv)) ?? InvocationWindowError(v, i))
            ?? SignaturesError(chain)) ?? RightError(v, i, m.chain))
            ?? StandingError(v, i, m.chain)
    BY DEF Verdict, CheckRevocationError
  <2>. HIDE DEF v, chain, inv, i
  <2>. QED  BY <2>1, Together
<1>4. ReadError(i) = "Ok" /\ NamesError(i, m.chain) = "Ok" <=>
        /\ \A k \in DOMAIN args : ArgumentError(args[k]) = "Ok"
        /\ Revokes(i, Last(m.chain)) /\ Named(i, "path") \subseteq {m.chain}
  BY ReadIsExact
<1>5. /\ StructureError(chain, Subject, << >>) = "Ok" /\ LoopError(chain) = "Ok"
      /\ SignaturesError(chain) = "Ok"
      <=> IsLine(chain)
  BY LineIsExact
<1>6. \A n \in Nat : ProofLimitError(v, n) = "Ok" <=> (MaxProofs # None => n <= MaxProofs)
  <2>. HIDE DEF v
  <2>. QED  BY <1>2 DEF ProofLimitError
<1>7. SignatureError(inv) = "Ok" <=> Signed(inv)
  BY <1>1, SignatureIsExact DEF Invocation
<1>8. InvocationWindowError(v, i) = "Ok" <=> InWindow(inv, None, t, Skew)
  <2>1. inv.exp \in Expiry
    BY <1>1 DEF Invocation
  <2>2. InvocationWindowError(v, i) = WindowError(None, inv.exp, t, Skew)
    BY <1>2 DEF InvocationWindowError
  <2>. HIDE DEF v, inv, i
  <2>. QED  BY <1>2, <2>1, <2>2, WindowIsExact
<1>9. IsDelegated(i, m.chain) <=> ~isIssuer
  BY IssuedSomewhere DEF IsDelegated
<1>10. RightError(v, i, m.chain) = "Ok" <=> namesSubject /\ (isIssuer \/ granted)
  <2>1. IssuedAt(chain, inv.sub) # 0 <=> namesSubject
    BY IssuedSomewhere
  <2>2. PipelineError(v, i) = "Ok" <=>
          /\ ProofLimitError(v, Len(inv.prf)) = "Ok"
          /\ \A k \in DOMAIN inv.prf : inv.prf[k] \in Held
          /\ Authorized(i, t, Skew)
          /\ ReachedHops(revoked, i) = {}
    <3>1. v.revoked \subseteq Cid \X (Principal \cup {Everywhere})
      BY <1>2 DEF TypeOK, Record
    <3>. HIDE DEF v
    <3>. QED  BY <1>1, <1>2, <3>1, PipelineIsExact
  <2>3. RightError(v, i, m.chain) = "Ok" <=>
          /\ IssuedAt(chain, inv.sub) # 0
          /\ ~IsDelegated(i, m.chain) \/ (inv.prf # << >> /\ PipelineError(v, i) = "Ok")
    BY DEF RightError
  <2>. HIDE DEF v, chain, inv, i, isIssuer, namesSubject
  <2>. QED  BY <1>1, <1>6, <1>9, <2>1, <2>2, <2>3
<1>11. ASSUME IsLine(chain), namesSubject
       PROVE  StandingError(v, i, m.chain) = "Ok" <=> stands
  <2>1. RightAt(i, m.chain) # 0
    <3>1. CASE IsDelegated(i, m.chain)
      BY <1>11, <3>1, IssuedSomewhere DEF RightAt, AuthorityOf
    <3>2. CASE ~IsDelegated(i, m.chain)
      BY <3>2 DEF RightAt, AuthorityOf, IsDelegated
    <3>. QED  BY <3>1, <3>2
  <2>. QED  BY <1>11, <2>1, StandingIsExact
<1>12. Entitled(m, revoked, t) <=>
         /\ \A k \in DOMAIN args : ArgumentError(args[k]) = "Ok"
         /\ MaxProofs # None => Len(m.chain) <= MaxProofs
         /\ IsLine(chain)
         /\ Revokes(i, Last(m.chain)) /\ Named(i, "path") \subseteq {m.chain}
         /\ Signed(inv)
         /\ InWindow(inv, None, t, Skew)
         /\ namesSubject
         /\ isIssuer \/ granted
         /\ stands
  BY DEF Entitled
<1>. HIDE DEF v, chain, inv, i, args, isIssuer, namesSubject, granted, stands
<1>13. ProofLimitError(v, Len(m.chain)) = "Ok" <=> (MaxProofs # None => Len(m.chain) <= MaxProofs)
  BY <1>1, <1>6
<1>. QED  BY <1>3, <1>4, <1>5, <1>7, <1>8, <1>10, <1>11, <1>12, <1>13

\* check_revocation accepts exactly what is entitled to be recorded, for chains
\* of every length and whatever is in the store: its fail-fast checks of hops
\* and neighbours add up to the meaning over the whole chain, and none of them
\* asks for more.
THEOREM AcceptsExactlyTheEntitled == Spec => AcceptsTheEntitled
<1>. DEFINE Exact == \A m \in checked' \ checked :
                       IF m \in accepted'
                       THEN \E t \in Timestamp : Reading(t) /\ Entitled(m, revoked, t)
                       ELSE \E t \in Timestamp : Reading(t) /\ ~Entitled(m, revoked, t)
<1>1. TypeOK /\ EarnedInv /\ [Next]_vars => (TypeOK /\ EarnedInv)'
  BY NextEarned
<1>2. TypeOK /\ [Next]_vars => [Exact]_vars
  <2>. SUFFICES ASSUME TypeOK, Next, NEW m \in checked' \ checked
                PROVE  IF m \in accepted'
                       THEN \E t \in Timestamp : Reading(t) /\ Entitled(m, revoked, t)
                       ELSE \E t \in Timestamp : Reading(t) /\ ~Entitled(m, revoked, t)
    OBVIOUS
  <2>1. PICK x \in Messages, t \in Timestamp : Accept(x, t) \/ Refuse(x, t)
    BY DEF Next, RecordAccepted, RevokeEverywhere, Prune, Tick
  <2>2. m = x
    BY <2>1 DEF Accept, Refuse
  <2>3. CASE Accept(x, t)
    BY <2>2, <2>3, VerdictIsExact DEF Accept
  <2>4. CASE Refuse(x, t)
    <3>1. m \notin accepted'
      BY <2>4 DEF Refuse, TypeOK
    <3>. QED  BY <2>2, <2>4, <3>1, VerdictIsExact DEF Refuse
  <2>. QED  BY <2>1, <2>3, <2>4
<1>. QED  BY <1>1, <1>2, InitEarned, PTL DEF Spec, AcceptsTheEntitled

----------------------------------------------------------------------------
(* The order of arrival.                                                   *)

LEMMA LastingWindows ==
  ASSUME NEW v, NEW chain, NEW n,
         \A k \in 1 .. n : chain[k].exp = Never /\ chain[k].nbf = None
  PROVE  WindowsError(v, chain, n) = "Ok"
<1>. DEFINE errors == [k \in 1 .. n |-> WindowError(chain[k].nbf, chain[k].exp, v.now, v.skew)]
<1>1. \A k \in DOMAIN errors : errors[k] = "Ok"
  BY DEF WindowError, NotYetValid, IsPast
<1>. HIDE DEF errors
<1>2. FirstOf(errors) = "Ok"
  BY <1>1, NothingFailed
<1>. QED  BY <1>2 DEF errors, WindowsError

\* What is checked of a lasting message, its standing apart, does not depend on
\* when it is checked, nor on what is recorded.
LEMMA LastingVerdict ==
  ASSUME NEW m \in Messages, Lasting(m), NEW v, NEW w, v.max = w.max,
         CheckRevocationError(v, Subject, m.inv, m.chain) = "Ok",
         RevocationsError(w, m.chain, Presented(m.chain), RightAt(m.inv, m.chain) - 1) = "Ok"
  PROVE  CheckRevocationError(w, Subject, m.inv, m.chain) = "Ok"
<1>. DEFINE i == m.inv
            chain == Presented(m.chain)
            above == RightAt(i, m.chain) - 1
            limit(x) == ProofLimitError(x, Len(m.chain))
            structure == StructureError(chain, Subject, << >>)
            names == NamesError(i, m.chain)
            window(x) == InvocationWindowError(x, i)
            right(x) == RightError(x, i, m.chain)
            standing(x) == StandingError(x, i, m.chain)
            before(x) == ReadError(i) ?? limit(x) ?? structure ?? names ?? LoopError(chain)
                           ?? SignatureError(Invocations[i])
<1>1. before(v) = before(w)
  BY DEF ProofLimitError
<1>2. window(w) = "Ok"
  BY DEF Lasting, InvocationWindowError, WindowError, NotYetValid, IsPast
<1>3. right(w) = right(v)
  BY DEF Lasting, RightError
<1>4. standing(w) = "Ok"
  <2>1. \A k \in 1 .. above : chain[k].exp = Never /\ chain[k].nbf = None
    <3>. SUFFICES ASSUME NEW k \in 1 .. above
                  PROVE  chain[k].exp = Never /\ chain[k].nbf = None
      OBVIOUS
    <3>1. /\ DOMAIN m.chain = 1 .. Len(m.chain) /\ Len(m.chain) \in Nat
          /\ IssuedAt(chain, AuthorityOf(i, m.chain)) # 0
               => RightAt(i, m.chain) \in 1 .. Len(m.chain)
      BY PresentedType, IssuedThere DEF RightAt
    <3>2. RightAt(i, m.chain) = IssuedAt(chain, AuthorityOf(i, m.chain))
      BY DEF RightAt
    <3>. HIDE DEF chain
    <3>3. k \in DOMAIN m.chain
      BY <3>1, <3>2
    <3>. QED  BY <3>3 DEF Lasting, chain
  <2>2. WindowsError(w, chain, above) = "Ok"
    BY <2>1, LastingWindows
  <2>. QED  BY <2>2 DEF StandingError, ??
<1>5. (((before(v) ?? window(v)) ?? SignaturesError(chain)) ?? right(v)) ?? standing(v) = "Ok"
  BY DEF CheckRevocationError
<1>. HIDE DEF before, window, right, standing
<1>6. before(v) = "Ok" /\ SignaturesError(chain) = "Ok" /\ right(v) = "Ok"
  BY <1>5 DEF ??
<1>7. (((before(w) ?? window(w)) ?? SignaturesError(chain)) ?? right(w)) ?? standing(w) = "Ok"
  BY <1>1, <1>2, <1>3, <1>4, <1>6 DEF ??
<1>. QED  BY <1>7 DEF before, window, right, standing, CheckRevocationError

----------------------------------------------------------------------------
(* The invariant: PresentedChainIsCut, and what was accepted but is not yet *)
(* recorded.                                                                *)

\* The Validator of a store that holds nothing.
Bare == [Validator(clock) EXCEPT !.revoked = {}]

Stands(m) == Lasting(m) /\ CheckRevocationError(Bare, Subject, m.inv, m.chain) = "Ok"

IsCut(m) == \E k \in DOMAIN m.chain : IsReached(revoked, m.chain, k)

CutInv == \A m \in checked : Stands(m) => m \in pending \/ IsCut(m)

LEMMA BareIsEmpty ==
  /\ Bare.max = MaxProofs /\ Bare'.max = MaxProofs
  /\ \A cids, chain, n : RevocationsError(Bare, cids, chain, n) = "Ok"
<1>1. Bare.max = MaxProofs /\ Bare'.max = MaxProofs /\ Bare.revoked = {}
  BY DEF Bare, Validator
<1>2. \A cids, chain, n : \A k \in 1 .. n : ~IsRevoked(Bare.revoked, cids[k], Issuers(chain))
  BY <1>1 DEF IsRevoked
<1>. HIDE DEF Bare
<1>. QED  BY <1>1, <1>2, Unreached

\* The clock does not matter to a lasting message.
LEMMA StandsStill ==
  ASSUME NEW m \in Messages, Stands(m)'
  PROVE  Stands(m)
<1>1. Lasting(m) /\ CheckRevocationError(Bare', Subject, m.inv, m.chain) = "Ok"
  BY DEF Stands, Lasting
<1>2. CheckRevocationError(Bare, Subject, m.inv, m.chain) = "Ok"
  BY <1>1, BareIsEmpty, LastingVerdict
<1>. QED  BY <1>1, <1>2 DEF Stands

\* A lasting message is turned down only because its chain is cut already.
LEMMA RefusedIsCut ==
  ASSUME NEW m \in Messages, NEW t, Stands(m), Verdict(m, t) # "Ok"
  PROVE  IsCut(m)
<1>. DEFINE v == Validator(t)
            chain == Presented(m.chain)
            n == RightAt(m.inv, m.chain) - 1
<1>1. v.max = Bare.max /\ v.revoked = revoked
  BY BareIsEmpty DEF Validator
<1>2. RevocationsError(v, m.chain, chain, n) # "Ok"
  <2>. HIDE DEF v
  <2>. QED  BY <1>1, LastingVerdict DEF Stands, Verdict, v
<1>3. PICK k \in 1 .. n : IsRevoked(v.revoked, m.chain[k], Issuers(chain))
  BY <1>2, Unreached
<1>4. k \in DOMAIN m.chain
  <2>1. /\ DOMAIN m.chain = 1 .. Len(m.chain) /\ Len(m.chain) \in Nat
        /\ RightAt(m.inv, m.chain) # 0 => RightAt(m.inv, m.chain) \in 1 .. Len(m.chain)
    BY PresentedType, IssuedThere DEF RightAt
  <2>2. RightAt(m.inv, m.chain) # 0
    BY <1>3
  <2>. QED  BY <1>3, <2>1, <2>2
<1>. QED  BY <1>1, <1>3, <1>4 DEF IsCut, IsReached

\* Recording what was accepted cuts its chain: its authority issued there.
LEMMA RecordedIsCut ==
  ASSUME NEW m \in Messages, EarnedBy(m, Entry(m)[1], Entry(m)[2]), Entry(m) \in revoked'
  PROVE  IsCut(m)'
<1>. DEFINE chain == Presented(m.chain)
            n == Len(m.chain)
<1>1. /\ DOMAIN m.chain = 1 .. n /\ n \in Nat
      /\ DOMAIN chain = 1 .. n
  BY PresentedType
<1>2. PICK k \in DOMAIN chain : chain[k].iss.base = Entry(m)[2]
  BY DEF EarnedBy
<1>3. Entry(m)[2] \in Issuers(chain)
  BY <1>2 DEF Issuers
<1>4. n \in DOMAIN m.chain /\ Entry(m) = <<m.chain[n], Entry(m)[2]>>
  BY <1>1, <1>2 DEF Entry, Last
<1>5. IsRevoked(revoked', m.chain[n], Issuers(chain))
  BY <1>3, <1>4 DEF IsRevoked
<1>. QED  BY <1>4, <1>5 DEF IsCut, IsReached

\* A record against a lasting chain is never swept.
LEMMA CutStays ==
  ASSUME NEW m \in Messages, Lasting(m), IsCut(m), [Next]_vars
  PROVE  IsCut(m)'
<1>1. PICK k \in DOMAIN m.chain : IsReached(revoked, m.chain, k)
  BY DEF IsCut
<1>2. PICK by \in Issuers(Presented(m.chain)) \cup {Everywhere} :
        <<m.chain[k], by>> \in revoked
  BY <1>1 DEF IsReached, IsRevoked
<1>3. Delegations[m.chain[k]].exp = Never
  BY <1>1 DEF Lasting, Presented
<1>4. <<m.chain[k], by>> \in revoked'
  <2>1. ASSUME NEW t \in Timestamp, Prune(t) PROVE <<m.chain[k], by>> \in revoked'
    BY <1>2, <1>3, <2>1 DEF Prune, IsPast
  <2>. QED  BY <1>2, <2>1
       DEF Next, Accept, Refuse, RecordAccepted, RevokeEverywhere, Tick, vars
<1>. QED  BY <1>1, <1>2, <1>4 DEF IsCut, IsReached, IsRevoked

LEMMA NextCut ==
  ASSUME TypeOK, EarnedInv, CutInv, [Next]_vars
  PROVE  CutInv'
<1>. SUFFICES ASSUME NEW m \in checked', Stands(m)', m \notin pending'
              PROVE  IsCut(m)'
  BY DEF CutInv
<1>1. m \in Messages
  <2>1. TypeOK'
    BY NextEarned
  <2>. QED  BY <2>1 DEF TypeOK
<1>2. Stands(m) /\ Lasting(m)
  BY <1>1, StandsStill DEF Stands
<1>3. CASE m \in checked /\ m \notin pending
  BY <1>1, <1>2, <1>3, CutStays DEF CutInv
<1>4. CASE m \in pending
  <2>1. RecordAccepted(m)
    BY <1>4 DEF Next, Accept, Refuse, RecordAccepted, RevokeEverywhere, Prune, Tick, vars
  <2>2. EarnedBy(m, Entry(m)[1], Entry(m)[2]) /\ Entry(m) \in revoked'
    BY <1>4, <2>1 DEF TypeOK, EarnedInv, RecordAccepted
  <2>. QED  BY <1>1, <2>2, RecordedIsCut
<1>5. CASE m \notin checked
  <2>1. PICK t \in Timestamp : Refuse(m, t)
    BY <1>5 DEF Next, Accept, Refuse, RecordAccepted, RevokeEverywhere, Prune, Tick, vars
  <2>2. IsCut(m)
    BY <1>1, <1>2, <2>1, RefusedIsCut DEF Refuse
  <2>. QED  BY <1>1, <1>2, <2>2, CutStays
<1>. QED  BY <1>3, <1>4, <1>5

\* In whatever order revocations arrive, are checked, recorded and swept: once a
\* lasting one has been checked, and recorded if it was accepted, the chain it
\* was presented with is refused for good, since check_standing turns it down
\* only over a record that cuts that chain.
THEOREM OrderSavesNoChain == Spec => []PresentedChainIsCut
<1>. DEFINE IInv == TypeOK /\ EarnedInv /\ CutInv
<1>1. Init => IInv
  BY InitEarned DEF Init, CutInv
<1>2. IInv /\ [Next]_vars => IInv'
  BY NextEarned, NextCut
<1>3. IInv => PresentedChainIsCut
  BY DEF CutInv, Stands, Bare, IsCut, PresentedChainIsCut
<1>. QED  BY <1>1, <1>2, <1>3, PTL DEF Spec
=============================================================================
