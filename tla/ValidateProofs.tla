--------------------------- MODULE ValidateProofs ---------------------------
(***************************************************************************)
(* Theorems about Validate, for every set of workers, tokens and options:  *)
(* what it accepts, what it answers, and what the stores promise while     *)
(* they are pruned under running validators; and, over stores a Validator  *)
(* borrows, that it comes to the answer that the pipeline has as a         *)
(* function, and implements Gatekeeper.                                    *)
(*                                                                         *)
(* The lemmas on chains, up to WalkedTokens, are also those of             *)
(* IntakeProofs: the two systems share Authority but have no state in      *)
(* common, so that neither module can extend the other.                    *)
(***************************************************************************)
EXTENDS Atomic, WellFoundedInduction, TLAPS

----------------------------------------------------------------------------
(* Numbers.                                                                *)

LEMMA Least ==
  ASSUME NEW T, T \subseteq Nat, T # {}
  PROVE  \E x \in T : \A y \in T : x <= y
<1>. DEFINE R == OpToRel(<, Nat)
<1>1. IsWellFoundedOn(R, Nat)
  BY NatLessThanWellFounded
<1>2. \A x, y \in Nat : <<y, x>> \in R <=> y < x
  BY DEF OpToRel
<1>. HIDE DEF R
<1>3. PICK x \in T : \A y \in T : <<y, x>> \notin R
  BY <1>1, WFMin
<1>4. ASSUME NEW y \in T PROVE x <= y
  <2>1. x \in Nat /\ y \in Nat
    OBVIOUS
  <2>2. <<y, x>> \notin R
    BY <1>3
  <2>3. ~(y < x)
    BY <1>2, <2>1, <2>2
  <2>. QED  BY <2>1, <2>3
<1>. QED  BY <1>4

LEMMA Greatest ==
  ASSUME NEW n \in Nat, NEW T, T \subseteq 1 .. n, T # {}
  PROVE  \E x \in T : \A y \in T : y <= x
<1>. DEFINE Below == {n - t : t \in T}
<1>1. Below \subseteq Nat /\ Below # {}
  <2>1. \A t \in T : n - t \in Nat
    OBVIOUS
  <2>. QED  BY <2>1
<1>2. PICK b \in Below : \A c \in Below : b <= c
  <2>. HIDE DEF Below
  <2>. QED  BY <1>1, Least
<1>3. PICK x \in T : b = n - x
  OBVIOUS
<1>4. ASSUME NEW y \in T PROVE y <= x
  <2>1. b <= n - y
    BY <1>2
  <2>2. x \in 1 .. n /\ y \in 1 .. n
    BY <1>4
  <2>. QED  BY <1>3, <2>1, <2>2
<1>. QED  BY <1>4

----------------------------------------------------------------------------
(* Chains and their commands.                                              *)

LEMMA ChainType ==
  ASSUME NEW i \in InvCid
  PROVE  /\ Invocations[i] \in Invocation
         /\ Len(Invocations[i].prf) \in Nat
         /\ Hops(i) = DOMAIN Invocations[i].prf
         /\ \A k \in Hops(i) : CidAt(i, k) \in Cid /\ ChainOf(i)[k] = Delegations[CidAt(i, k)]
         /\ \A k \in Hops(i) : ChainOf(i)[k] \in Delegation
<1>1. Invocations[i] \in Invocation
  BY TokensAssumption
<1>2. Invocations[i].prf \in Seq(Link)
  BY <1>1 DEF Invocation
<1>3. /\ Len(Invocations[i].prf) \in Nat
      /\ Hops(i) = DOMAIN Invocations[i].prf
  BY <1>2 DEF Hops
<1>4. ASSUME NEW k \in Hops(i)
      PROVE  /\ CidAt(i, k) \in Cid
             /\ ChainOf(i)[k] = Delegations[CidAt(i, k)]
  BY <1>2, <1>3, <1>4, TokensAssumption DEF CidAt, ChainOf
<1>. QED  BY <1>1, <1>3, <1>4, TokensAssumption

LEMMA CommandsOf ==
  ASSUME NEW i \in InvCid, NEW k \in 1 .. Len(Invocations[i].prf) + 1
  PROVE  TokenAt(i, k).cmd \in Command
<1>1. CASE k \in Hops(i)
  BY <1>1, ChainType DEF TokenAt, Delegation
<1>2. CASE k \notin Hops(i)
  BY <1>2, ChainType DEF TokenAt, Invocation
<1>. QED  BY <1>1, <1>2

LEMMA CoversPointwise ==
  ASSUME NEW c \in Command, NEW d \in Command
  PROVE  Covers(c, d) <=> Len(c) <= Len(d) /\ \A n \in 1 .. Len(c) : c[n] = d[n]
<1>1. /\ Len(c) \in Nat /\ Len(d) \in Nat
      /\ \A n \in 1 .. Len(c) : c[n] \in Segment
      /\ \A n \in 1 .. Len(d) : d[n] \in Segment
  BY DEF Command
<1>2. ASSUME Len(c) <= Len(d)
      PROVE  SubSeq(c, 1, Len(c)) = SubSeq(d, 1, Len(c)) <=>
               \A n \in 1 .. Len(c) : c[n] = d[n]
  BY <1>1, <1>2 DEF Command
<1>. QED  BY <1>1, <1>2 DEF Covers, IsPrefix

LEMMA CoversTransitive ==
  ASSUME NEW c \in Command, NEW d \in Command, NEW e \in Command,
         Covers(c, d), Covers(d, e)
  PROVE  Covers(c, e)
<1>1. /\ Len(c) \in Nat /\ Len(d) \in Nat /\ Len(e) \in Nat
      /\ Len(c) <= Len(d) /\ Len(d) <= Len(e)
      /\ \A n \in 1 .. Len(c) : c[n] = d[n]
      /\ \A n \in 1 .. Len(d) : d[n] = e[n]
  BY CoversPointwise DEF Command
<1>2. Len(c) <= Len(e) /\ \A n \in 1 .. Len(c) : c[n] = e[n]
  BY <1>1
<1>. QED  BY <1>2, CoversPointwise

----------------------------------------------------------------------------
(* From checks to authority: what the checks made hop by hop add up to     *)
(* along a whole chain.                                                    *)

\* The checks of the root and the subjects settle whom every hop is about.
LEMMA SubjectsInherited ==
  ASSUME NEW i \in InvCid, NEW k \in Hops(i),
         RootError(ChainOf(i), Invocations[i].sub) = "Ok",
         \A j \in Hops(i) : SubjectError(ChainOf(i)[j], Invocations[i].sub) = "Ok"
  PROVE  IsAbout(i, k, Invocations[i].sub)
<1>1. /\ Hops(i) = 1 .. Len(Invocations[i].prf)
      /\ Len(Invocations[i].prf) \in Nat
  BY ChainType DEF Hops
<1>2. ChainOf(i)[1].sub # Powerline
  BY DEF RootError
<1>3. 1 \in NamedAbove(i, k) /\ NamedAbove(i, k) \subseteq 1 .. k /\ k \in Nat
  BY <1>1, <1>2 DEF NamedAbove
<1>4. PICK j \in NamedAbove(i, k) : \A m \in NamedAbove(i, k) : m <= j
  BY <1>3, Greatest
<1>5. j \in Hops(i) /\ ChainOf(i)[j].sub # Powerline
  BY <1>1, <1>4 DEF NamedAbove
<1>6. SamePrincipal(ChainOf(i)[j].sub, Invocations[i].sub)
  BY <1>5 DEF SubjectError
<1>. QED  BY <1>4, <1>6 DEF IsAbout

LEMMA ChecksConnect ==
  ASSUME NEW i \in InvCid,
         RootError(ChainOf(i), Invocations[i].sub) = "Ok",
         \A k \in Hops(i) : LinkageError(ChainOf(i)[k], TokenAt(i, k + 1)) = "Ok"
  PROVE  Connected(i)
<1>1. /\ ChainOf(i) # << >>
      /\ SamePrincipal(ChainOf(i)[1].iss, Invocations[i].sub)
  BY DEF RootError
<1>2. Hops(i) # {}
  <2>1. Len(Invocations[i].prf) \in Nat /\ Hops(i) = 1 .. Len(Invocations[i].prf)
        /\ Hops(i) = DOMAIN Invocations[i].prf
    BY ChainType DEF Hops
  <2>2. ASSUME Len(Invocations[i].prf) = 0 PROVE FALSE
    <3>1. ChainOf(i) \in Seq(Delegation) /\ Len(ChainOf(i)) = 0
      <4>1. DOMAIN ChainOf(i) = 1 .. 0
        BY <2>1, <2>2 DEF ChainOf
      <4>2. ChainOf(i) = [k \in 1 .. 0 |-> ChainOf(i)[k]]
        BY <2>1, <2>2 DEF ChainOf
      <4>. QED  BY <4>1, <4>2
    <3>. QED  BY <1>1, <3>1
  <2>3. 1 \in Hops(i)
    BY <2>1, <2>2
  <2>. QED  BY <2>3
<1>3. \A k \in Hops(i) : SamePrincipal(ChainOf(i)[k].aud, TokenAt(i, k + 1).iss)
  BY DEF LinkageError
<1>. QED  BY <1>1, <1>2, <1>3 DEF Connected

\* A window check that passes is a time within the window, skew included.
LEMMA WindowsHold ==
  ASSUME NEW i \in InvCid, NEW t \in Timestamp, NEW skew \in Nat,
         \A k \in 1 .. Len(Invocations[i].prf) + 1 : TimeError(i, k, t, skew) = "Ok"
  PROVE  Timely(i, t, skew)
<1>1. /\ Hops(i) = 1 .. Len(Invocations[i].prf)
      /\ Len(Invocations[i].prf) \in Nat
  BY ChainType DEF Hops
<1>2. ASSUME NEW nbf \in Timestamp \cup {None}, NEW exp \in Expiry,
             WindowError(nbf, exp, t, skew) = "Ok"
      PROVE  /\ nbf # None => MinusSeconds(nbf, skew) <= t
             /\ exp # Never => t <= PlusSeconds(exp, skew)
  <2>1. t \in Int /\ (nbf # None => nbf \in Int) /\ (exp # Never => exp \in Int)
        /\ MaxTime \in Int
    BY TimeAssumption DEF Timestamp, Expiry
  <2>2. ~NotYetValid(nbf, t, skew) /\ ~IsPast(exp, t, skew)
    BY <1>2 DEF WindowError
  <2>. QED  BY <2>1, <2>2 DEF NotYetValid, IsPast, MinusSeconds, PlusSeconds
<1>3. ASSUME NEW k \in Hops(i)
      PROVE  InWindow(ChainOf(i)[k], ChainOf(i)[k].nbf, t, skew)
  <2>1. TokenAt(i, k) = ChainOf(i)[k] /\ ChainOf(i)[k] \in Delegation
    BY ChainType DEF TokenAt
  <2>2. WindowError(ChainOf(i)[k].nbf, ChainOf(i)[k].exp, t, skew) = "Ok"
    BY <1>1, <2>1 DEF TimeError
  <2>3. ChainOf(i)[k].nbf \in Timestamp \cup {None} /\ ChainOf(i)[k].exp \in Expiry
    BY <2>1 DEF Delegation
  <2>. QED  BY <1>2, <2>2, <2>3 DEF InWindow
<1>4. InWindow(Invocations[i], None, t, skew)
  <2>. DEFINE k == Len(Invocations[i].prf) + 1
  <2>1. k \notin Hops(i) /\ k \in 1 .. Len(Invocations[i].prf) + 1
    BY <1>1
  <2>2. WindowError(None, Invocations[i].exp, t, skew) = "Ok"
    BY <2>1 DEF TimeError, TokenAt
  <2>3. Invocations[i].exp \in Expiry
    BY ChainType DEF Invocation
  <2>. QED  BY <1>2, <2>2, <2>3 DEF InWindow
<1>. QED  BY <1>3, <1>4 DEF Timely

\* The checks of validate, all passed, add up to authority.  Coverage is taken
\* as the linkage walk carries it (see Carried below).
LEMMA ChecksMeanAuthority ==
  ASSUME NEW i \in InvCid, NEW t \in Timestamp, NEW skew \in Nat,
         RootError(ChainOf(i), Invocations[i].sub) = "Ok",
         \A k \in Hops(i) :
           /\ SubjectError(ChainOf(i)[k], Invocations[i].sub) = "Ok"
           /\ LinkageError(ChainOf(i)[k], TokenAt(i, k + 1)) = "Ok"
           /\ PolicyError(ChainOf(i)[k], Invocations[i].args) = "Ok",
         \A k, m \in Hops(i) : k <= m => Covers(ChainOf(i)[k].cmd, TokenAt(i, m + 1).cmd),
         \A k \in 1 .. Len(Invocations[i].prf) + 1 :
           /\ TimeError(i, k, t, skew) = "Ok"
           /\ SignatureError(TokenAt(i, k)) = "Ok"
  PROVE  Authorized(i, t, skew)
<1>. DEFINE last == Len(Invocations[i].prf)
<1>1. Hops(i) = 1 .. last /\ last \in Nat
  BY ChainType DEF Hops
<1>2. TokenAt(i, last + 1) = Invocations[i] /\ \A k \in Hops(i) : TokenAt(i, k) = ChainOf(i)[k]
  BY <1>1 DEF TokenAt
<1>3. Attenuated(i)
  <2>. SUFFICES ASSUME NEW k \in Hops(i)
                PROVE  Covers(ChainOf(i)[k].cmd, Invocations[i].cmd)
    BY DEF Attenuated
  <2>1. last \in Hops(i) /\ k <= last
    BY <1>1
  <2>. QED  BY <1>2, <2>1
<1>4. NeverWidened(i)
  <2>. SUFFICES ASSUME NEW k \in Hops(i), NEW m \in Hops(i), k < m
                PROVE  Covers(ChainOf(i)[k].cmd, ChainOf(i)[m].cmd)
    BY DEF NeverWidened
  <2>1. m - 1 \in Hops(i) /\ k <= m - 1 /\ (m - 1) + 1 = m
    BY <1>1
  <2>. QED  BY <1>2, <2>1
<1>5. Signed(Invocations[i]) /\ \A k \in Hops(i) : Signed(ChainOf(i)[k])
  <2>1. \A k \in 1 .. last + 1 : Signed(TokenAt(i, k))
    BY DEF SignatureError, Signed
  <2>2. last + 1 \in 1 .. last + 1 /\ Hops(i) \subseteq 1 .. last + 1
    BY <1>1
  <2>. QED  BY <1>2, <2>1, <2>2
<1>6. Permitted(i)
  BY DEF Permitted, PolicyError
<1>7. Connected(i)
  BY ChecksConnect
<1>8. \A k \in Hops(i) : IsAbout(i, k, Invocations[i].sub)
  BY SubjectsInherited
<1>9. Timely(i, t, skew)
  BY WindowsHold
<1>. QED  BY <1>3, <1>4, <1>5, <1>6, <1>7, <1>8, <1>9 DEF Authorized

----------------------------------------------------------------------------
(* The walk that check_structure makes.                                    *)

LEMMA NothingFailed ==
  ASSUME NEW errors, \A k \in DOMAIN errors : errors[k] = "Ok"
  PROVE  FirstOf(errors) = "Ok"
BY DEF FirstOf

\* The token after the delegation at position k, in the sequence that the walk
\* of check_structure goes along.
LEMMA WalkedTokens ==
  ASSUME NEW i \in InvCid
  PROVE  /\ ChainOf(i) \in Seq(Delegation) /\ Len(ChainOf(i)) = Len(Invocations[i].prf)
         /\ <<Invocations[i]>> \in Seq(Delegation \cup Invocation)
         /\ Len(ChainOf(i) \o <<Invocations[i]>>) - 1 = Len(Invocations[i].prf)
         /\ \A k \in Hops(i) : (ChainOf(i) \o <<Invocations[i]>>)[k + 1] = TokenAt(i, k + 1)
<1>. DEFINE asked == Invocations[i]
            chain == ChainOf(i)
            n == Len(Invocations[i].prf)
<1>1. /\ asked \in Invocation /\ n \in Nat /\ Hops(i) = 1 .. n /\ DOMAIN chain = 1 .. n
      /\ \A k \in 1 .. n : chain[k] \in Delegation
  BY ChainType DEF Hops, ChainOf
<1>2. chain \in Seq(Delegation) /\ Len(chain) = n
  <2>1. chain = [k \in 1 .. n |-> chain[k]]
    BY <1>1 DEF ChainOf
  <2>. HIDE DEF chain
  <2>. QED  BY <1>1, <2>1
<1>3. <<asked>> \in Seq(Delegation \cup Invocation)
  BY <1>1
<1>. HIDE DEF chain
<1>4. Len(chain \o <<asked>>) - 1 = n
  BY <1>1, <1>2
<1>5. ASSUME NEW k \in Hops(i) PROVE (chain \o <<asked>>)[k + 1] = TokenAt(i, k + 1)
  <2>1. CASE k = n
    <3>1. k + 1 \notin Hops(i)
      BY <1>1, <2>1
    <3>2. (chain \o <<asked>>)[k + 1] = asked
      BY <1>1, <1>2, <2>1
    <3>. QED  BY <3>1, <3>2 DEF TokenAt
  <2>2. CASE k # n
    <3>1. k + 1 \in Hops(i) /\ k + 1 \in 1 .. n
      BY <1>1, <2>2
    <3>2. (chain \o <<asked>>)[k + 1] = chain[k + 1]
      BY <1>1, <1>2, <3>1
    <3>. QED  BY <3>1, <3>2 DEF TokenAt, chain
  <2>. QED  BY <2>1, <2>2
<1>. QED  BY <1>2, <1>3, <1>4, <1>5 DEF chain

----------------------------------------------------------------------------
(* Types.                                                                  *)

\* What a step of validate may do to the control state of its worker.
Control(w) ==
  /\ \E p \in Pc \ {"closed", "ready"} : pc' = [pc EXCEPT ![w] = p]
  /\ \/ UNCHANGED hop
     \/ \E k \in Nat : hop' = [hop EXCEPT ![w] = k]
  /\ \/ UNCHANGED outcome
     \/ \E e \in [error : Errors \cup {"Ok"}, hop : Nat] :
          outcome' = [outcome EXCEPT ![w] = e]

LEMMA ErrorsAreErrors ==
  /\ \A chain, subject : RootError(chain, subject) \in Errors \cup {"Ok"}
  /\ \A d, subject : SubjectError(d, subject) \in Errors \cup {"Ok"}
  /\ \A d, next : LinkageError(d, next) \in Errors \cup {"Ok"}
  /\ \A i, k, t, s : TimeError(i, k, t, s) \in Errors \cup {"Ok"}
  /\ \A token : SignatureError(token) \in Errors \cup {"Ok"}
  /\ \A d, args : PolicyError(d, args) \in Errors \cup {"Ok"}
  /\ \A i : LimitError(i) \in Errors \cup {"Ok"} /\ ExecutorError(i) \in Errors \cup {"Ok"}
  /\ \A i, k : /\ GetError(i, k) \in Errors \cup {"Ok"}
              /\ RevocationError(i, k) \in Errors \cup {"Ok"}
<1>1. \A chain, subject : RootError(chain, subject) \in Errors \cup {"Ok"}
  BY DEF RootError, Errors
<1>2. \A d, subject : SubjectError(d, subject) \in Errors \cup {"Ok"}
  BY DEF SubjectError, Errors
<1>3. \A d, next : LinkageError(d, next) \in Errors \cup {"Ok"}
  BY DEF LinkageError, Errors
<1>4. \A nbf, exp, t, s : WindowError(nbf, exp, t, s) \in Errors \cup {"Ok"}
  BY DEF WindowError, Errors
<1>5. \A i, k, t, s : TimeError(i, k, t, s) \in Errors \cup {"Ok"}
  BY <1>4 DEF TimeError
<1>6. \A token : SignatureError(token) \in Errors \cup {"Ok"}
  BY DEF SignatureError, Errors
<1>7. \A d, args : PolicyError(d, args) \in Errors \cup {"Ok"}
  BY DEF PolicyError, Errors
<1>8. \A i : LimitError(i) \in Errors \cup {"Ok"} /\ ExecutorError(i) \in Errors \cup {"Ok"}
  BY DEF LimitError, ExecutorError, Errors
<1>9. \A i, k : /\ GetError(i, k) \in Errors \cup {"Ok"}
              /\ RevocationError(i, k) \in Errors \cup {"Ok"}
  BY DEF GetError, RevocationError, Errors
<1>. QED  BY <1>1, <1>2, <1>3, <1>5, <1>6, <1>7, <1>8, <1>9

LEMMA OnceControl ==
  ASSUME TypeOK, NEW w \in Worker, NEW error \in Errors \cup {"Ok"}, NEW k \in Nat,
         NEW next \in Pc \ {"closed", "ready"}, Once(w, error, k, next)
  PROVE  Control(w)
BY DEF Once, Proceed, Refuse, Control, TypeOK, Pc

LEMMA ForEachControl ==
  ASSUME TypeOK, NEW w \in Worker, NEW error \in Errors \cup {"Ok"}, NEW last \in Nat,
         pc[w] \notin {"closed", "ready"},
         NEW next \in Pc \ {"closed", "ready"}, ForEach(w, last, error, next)
  PROVE  Control(w)
BY DEF ForEach, Proceed, Refuse, Control, TypeOK, Pc

\* Every check is such a step, and all but Record leave everything else alone.
LEMMA StepControl ==
  ASSUME TypeOK, NEW w \in Worker, Step(w)
  PROVE  /\ pc[w] \notin {"closed", "ready"}
         /\ Control(w)
         /\ Kept \/ Record(w)
<1>1. /\ pc[w] \notin {"closed", "ready"}
      /\ Kept \/ Record(w)
  BY DEF Step, CheckLimit, GetProof, CheckRoot, CheckSubject, CheckLinkage, CheckWindow,
         VerifySignature, AskRevocation, CheckPolicy, CheckExecutor, Record
<1>2. inv[w] \in InvCid
  BY <1>1 DEF TypeOK
<1>3. InvocationAt(w) \in Nat /\ InvocationAt(w) - 1 \in Nat
  BY <1>2, ChainType DEF InvocationAt
<1>. DEFINE next == Pc \ {"closed", "ready"}
<1>4. /\ "proofs" \in next /\ "root" \in next /\ "subject" \in next
      /\ "linkage" \in next /\ "window" \in next /\ "signature" \in next
      /\ "revocation" \in next /\ "policy" \in next /\ "executor" \in next
      /\ "replay" \in next /\ "accepted" \in next /\ "rejected" \in next
      /\ 0 \in Nat
  BY DEF Pc
<1>. HIDE DEF next
<1>5. CASE CheckLimit(w)
  BY <1>1, <1>4, <1>5, OnceControl, ErrorsAreErrors DEF CheckLimit, next
<1>6. CASE GetProof(w)
  BY <1>1, <1>3, <1>4, <1>6, ForEachControl, ErrorsAreErrors DEF GetProof, next
<1>7. CASE CheckRoot(w)
  BY <1>1, <1>4, <1>7, OnceControl, ErrorsAreErrors DEF CheckRoot, next
<1>8. CASE CheckSubject(w)
  BY <1>1, <1>3, <1>4, <1>8, ForEachControl, ErrorsAreErrors DEF CheckSubject, next
<1>9. CASE CheckLinkage(w)
  BY <1>1, <1>3, <1>4, <1>9, ForEachControl, ErrorsAreErrors DEF CheckLinkage, next
<1>10. CASE CheckWindow(w)
  BY <1>1, <1>3, <1>4, <1>10, ForEachControl, ErrorsAreErrors DEF CheckWindow, next
<1>11. CASE VerifySignature(w)
  BY <1>1, <1>3, <1>4, <1>11, ForEachControl, ErrorsAreErrors DEF VerifySignature, next
<1>12. CASE AskRevocation(w)
  BY <1>1, <1>3, <1>4, <1>12, ForEachControl, ErrorsAreErrors DEF AskRevocation, next
<1>13. CASE CheckPolicy(w)
  BY <1>1, <1>3, <1>4, <1>13, ForEachControl, ErrorsAreErrors DEF CheckPolicy, next
<1>14. CASE CheckExecutor(w)
  BY <1>1, <1>4, <1>14, OnceControl, ErrorsAreErrors DEF CheckExecutor, next
<1>15. CASE Record(w)
  <2>1. ASSUME Proceed(w, "accepted") PROVE Control(w)
    <3>1. 1 \in Nat
      OBVIOUS
    <3>. QED  BY <2>1, <1>4, <3>1 DEF Proceed, Control, next
  <2>2. ASSUME Refuse(w, "Replay", 0) PROVE Control(w)
    <3>1. [error |-> "Replay", hop |-> 0] \in [error : Errors \cup {"Ok"}, hop : Nat]
      BY DEF Errors
    <3>. QED  BY <2>2, <1>4, <3>1 DEF Refuse, Control, next
  <2>. QED  BY <1>1, <1>15, <2>1, <2>2 DEF Record
<1>. QED
  BY <1>1, <1>5, <1>6, <1>7, <1>8, <1>9, <1>10, <1>11, <1>12, <1>13, <1>14, <1>15 DEF Step

LEMMA TypeInit == Init => TypeOK
BY TimeAssumption, ValidatorAssumption DEF Init, TypeOK, Timestamp, Pc, Passed

LEMMA TypeNext == TypeOK /\ [Next]_vars => TypeOK'
<1>. SUFFICES ASSUME TypeOK, [Next]_vars PROVE TypeOK'
  OBVIOUS
<1>. USE DEF TypeOK
<1>1. ASSUME NEW w \in Worker, Step(w) PROVE TypeOK'
  <2>1. /\ pc[w] \notin {"closed", "ready"}
        /\ Control(w)
        /\ Kept \/ Record(w)
    BY <1>1, StepControl
  <2>2. /\ pc' \in [Worker -> Pc] /\ hop' \in [Worker -> Nat]
        /\ outcome' \in [Worker -> [error : Errors \cup {"Ok"}, hop : Nat]]
    BY <2>1 DEF Control
  <2>3. /\ UNCHANGED <<clock, held, revoked, everRevoked, now, inv, doomed>>
        /\ seen' \subseteq InvCid
        /\ executions' \in [InvCid -> Nat]
    BY <2>1 DEF Kept, Record, shared
  <2>4. \A v \in Worker : inv'[v] = None <=> pc'[v] \in {"closed", "ready"}
    BY <2>1, <2>3 DEF Control
  <2>. QED  BY <2>2, <2>3, <2>4
<1>2. ASSUME NEW w \in Worker, Return(w) \/ Close(w) PROVE TypeOK'
  <2>1. 0 \in Timestamp /\ Passed \in [error : Errors \cup {"Ok"}, hop : Nat]
    BY TimeAssumption DEF Timestamp, Passed
  <2>2. CASE Return(w)
    BY <2>1, <2>2, ValidatorAssumption DEF Return, shared, Pc
  <2>3. CASE Close(w)
    BY <2>1, <2>3 DEF Close, shared, Pc
  <2>. QED  BY <1>2, <2>2, <2>3
<1>3. ASSUME NEW w \in Worker, NEW t \in Timestamp, New(w, t) PROVE TypeOK'
  BY <1>3 DEF New, shared, Pc
<1>4. ASSUME NEW w \in Worker, NEW i \in InvCid, Validate(w, i) PROVE TypeOK'
  <2>1. ReachedHops(everRevoked, i) \subseteq Nat
    BY ChainType DEF ReachedHops, Hops
  <2>. QED  BY <1>4, <2>1, ValidatorAssumption DEF Validate, shared, Pc
<1>5. ASSUME Tick PROVE TypeOK'
  BY <1>5, TimeAssumption DEF Tick, local, Timestamp
<1>6. ASSUME NEW l \in Link, InsertProof(l) \/ RemoveProof(l) PROVE TypeOK'
  BY <1>6 DEF InsertProof, RemoveProof, local
<1>7. ASSUME NEW r \in Arrivals, Revoke(r) PROVE TypeOK'
  BY <1>7, ValidatorAssumption DEF Revoke, local
<1>8. ASSUME NEW t \in Timestamp, PruneProofs(t) \/ PruneRevocations(t) \/ PruneSeen(t)
      PROVE TypeOK'
  BY <1>8 DEF PruneProofs, PruneRevocations, PruneSeen, local
<1>9. CASE UNCHANGED vars
  BY <1>9 DEF vars, shared, local
<1>. QED
  BY <1>1, <1>2, <1>3, <1>4, <1>5, <1>6, <1>7, <1>8, <1>9 DEF Next

THEOREM TypeCorrect == Spec => []TypeOK
BY TypeInit, TypeNext, PTL DEF Spec

----------------------------------------------------------------------------
(* What a running validate has established.  PastX are the places after    *)
(* check X; a position is cleared by a loop once the loop has gone by it.  *)

PastExecutor == {"replay", "accepted"}
PastPolicy == {"executor"} \cup PastExecutor
PastRevocation == {"policy"} \cup PastPolicy
PastSignature == {"revocation"} \cup PastRevocation
PastWindow == {"signature"} \cup PastSignature
PastLinkage == {"window"} \cup PastWindow
PastSubject == {"linkage"} \cup PastLinkage
PastRoot == {"subject"} \cup PastSubject

Cleared(w, stage, past, k) ==
  \/ pc[w] \in past
  \/ pc[w] = stage /\ k < hop[w]

SubjectCleared(w, k) == Cleared(w, "subject", PastSubject, k)
LinkageCleared(w, k) == Cleared(w, "linkage", PastLinkage, k)
WindowCleared(w, k) == Cleared(w, "window", PastWindow, k)
SignatureCleared(w, k) == Cleared(w, "signature", PastSignature, k)
RevocationCleared(w, k) == Cleared(w, "revocation", PastRevocation, k)
PolicyCleared(w, k) == Cleared(w, "policy", PastPolicy, k)

\* The checks of the current invocation that have passed so far.
Passing(w) ==
  LET i == inv[w] IN
  /\ pc[w] \in PastRoot => RootError(ChainOf(i), Invocations[i].sub) = "Ok"
  /\ pc[w] \in PastExecutor => ExecutorError(i) = "Ok"
  /\ \A k \in Hops(i) :
       /\ SubjectCleared(w, k) => SubjectError(ChainOf(i)[k], Invocations[i].sub) = "Ok"
       /\ LinkageCleared(w, k) => LinkageError(ChainOf(i)[k], TokenAt(i, k + 1)) = "Ok"
       /\ PolicyCleared(w, k) => PolicyError(ChainOf(i)[k], Invocations[i].args) = "Ok"
  /\ \A k \in 1 .. InvocationAt(w) :
       /\ WindowCleared(w, k) => TimeError(i, k, now[w], Skew) = "Ok"
       /\ SignatureCleared(w, k) => SignatureError(TokenAt(i, k)) = "Ok"

\* What a pair of neighbours is checked for is carried along the chain: a hop
\* covers every token down to the one the linkage walk has reached.
Carried(w) ==
  \A k, m \in Hops(inv[w]) : k <= m /\ LinkageCleared(w, m) =>
    Covers(ChainOf(inv[w])[k].cmd, TokenAt(inv[w], m + 1).cmd)

EstablishedInv == \A w \in Worker : inv[w] # None => Passing(w) /\ Carried(w)

----------------------------------------------------------------------------
(* How a step of validate moves its worker.                                *)

Follows ==
  {<<"limit", "proofs">>, <<"proofs", "root">>, <<"root", "subject">>,
   <<"subject", "linkage">>, <<"linkage", "window">>, <<"window", "signature">>,
   <<"signature", "revocation">>, <<"revocation", "policy">>, <<"policy", "executor">>,
   <<"executor", "replay">>, <<"replay", "accepted">>}

Moves(w) ==
  \/ pc'[w] = pc[w] /\ hop'[w] = hop[w] + 1
  \/ pc'[w] = "rejected"
  \/ <<pc[w], pc'[w]>> \in Follows /\ hop'[w] = 1

LEMMA OnceMoves ==
  ASSUME TypeOK, NEW w \in Worker, NEW error, NEW k, NEW next,
         <<pc[w], next>> \in Follows, Once(w, error, k, next)
  PROVE  Moves(w)
BY DEF Once, Proceed, Refuse, Moves, TypeOK

LEMMA ForEachMoves ==
  ASSUME TypeOK, NEW w \in Worker, NEW error, NEW last, NEW next,
         <<pc[w], next>> \in Follows, ForEach(w, last, error, next)
  PROVE  Moves(w)
BY DEF ForEach, Proceed, Refuse, Moves, TypeOK

LEMMA StepMoves ==
  ASSUME TypeOK, NEW w \in Worker, Step(w)
  PROVE  Moves(w)
<1>. USE DEF Follows
<1>1. CASE CheckLimit(w)
  BY <1>1, OnceMoves DEF CheckLimit
<1>2. CASE GetProof(w)
  BY <1>2, ForEachMoves DEF GetProof
<1>3. CASE CheckRoot(w)
  BY <1>3, OnceMoves DEF CheckRoot
<1>4. CASE CheckSubject(w)
  BY <1>4, ForEachMoves DEF CheckSubject
<1>5. CASE CheckLinkage(w)
  BY <1>5, ForEachMoves DEF CheckLinkage
<1>6. CASE CheckWindow(w)
  BY <1>6, ForEachMoves DEF CheckWindow
<1>7. CASE VerifySignature(w)
  BY <1>7, ForEachMoves DEF VerifySignature
<1>8. CASE AskRevocation(w)
  BY <1>8, ForEachMoves DEF AskRevocation
<1>9. CASE CheckPolicy(w)
  BY <1>9, ForEachMoves DEF CheckPolicy
<1>10. CASE CheckExecutor(w)
  BY <1>10, OnceMoves DEF CheckExecutor
<1>11. CASE Record(w)
  BY <1>11 DEF Record, Proceed, Refuse, Moves, TypeOK
<1>. QED
  BY <1>1, <1>2, <1>3, <1>4, <1>5, <1>6, <1>7, <1>8, <1>9, <1>10, <1>11 DEF Step

\* The step of one loop clears no position of another.
LEMMA OtherClears ==
  ASSUME NEW w \in Worker, Moves(w), NEW stage, NEW past,
         "rejected" \notin past, stage # "rejected", pc[w] # stage,
         \A f \in Follows : f[2] \in past => f[1] \in past \cup {stage},
         NEW k \in Nat \ {0}, Cleared(w, stage, past, k)'
  PROVE  Cleared(w, stage, past, k)
<1>1. CASE pc'[w] = pc[w]
  BY <1>1 DEF Cleared
<1>2. CASE pc'[w] = "rejected"
  BY <1>2 DEF Cleared
<1>3. CASE <<pc[w], pc'[w]>> \in Follows /\ hop'[w] = 1
  <2>1. pc'[w] \in past
    BY <1>3 DEF Cleared
  <2>. QED  BY <1>3, <2>1 DEF Cleared
<1>. QED  BY <1>1, <1>2, <1>3 DEF Moves

\* The step of a loop clears no position but its own, and that only when the
\* check of that position passes.
LEMMA OwnClears ==
  ASSUME TypeOK, NEW w \in Worker, NEW last, NEW error, NEW next, NEW past,
         "rejected" \notin past, pc[w] # "rejected",
         ForEach(w, last, error, next),
         NEW k \in Nat, last \in Nat, k <= last, pc[w] \notin past,
         NEW stage, stage = pc[w],
         Cleared(w, stage, past, k)'
  PROVE  \/ Cleared(w, stage, past, k)
         \/ k = hop[w] /\ error = "Ok"
<1>1. CASE hop[w] > last
  BY <1>1 DEF Cleared, TypeOK
<1>2. CASE Refuse(w, error, hop[w])
  BY <1>2 DEF Refuse, Cleared, TypeOK
<1>3. CASE hop[w] <= last /\ error = "Ok" /\ hop' = [hop EXCEPT ![w] = hop[w] + 1] /\ UNCHANGED pc
  <2>1. hop[w] \in Nat /\ hop'[w] = hop[w] + 1 /\ pc'[w] = pc[w]
    BY <1>3 DEF TypeOK
  <2>2. k < hop[w] + 1
    BY <2>1 DEF Cleared
  <2>. QED  BY <1>3, <2>1, <2>2 DEF Cleared
<1>. QED  BY <1>1, <1>2, <1>3 DEF ForEach

\* A position becomes cleared only in a step in which its check passes.
LEMMA StepClears ==
  ASSUME TypeOK, NEW w \in Worker, Step(w), NEW k \in 1 .. InvocationAt(w)
  PROVE
    /\ k \in Hops(inv[w]) /\ SubjectCleared(w, k)' =>
         SubjectCleared(w, k) \/ SubjectError(ChainOf(inv[w])[k], Invocations[inv[w]].sub) = "Ok"
    /\ k \in Hops(inv[w]) /\ LinkageCleared(w, k)' =>
         LinkageCleared(w, k) \/ LinkageError(ChainOf(inv[w])[k], TokenAt(inv[w], k + 1)) = "Ok"
    /\ WindowCleared(w, k)' =>
         WindowCleared(w, k) \/ TimeError(inv[w], k, now[w], Skew) = "Ok"
    /\ SignatureCleared(w, k)' =>
         SignatureCleared(w, k) \/ SignatureError(TokenAt(inv[w], k)) = "Ok"
    /\ k \in Hops(inv[w]) /\ PolicyCleared(w, k)' =>
         PolicyCleared(w, k) \/ PolicyError(ChainOf(inv[w])[k], Invocations[inv[w]].args) = "Ok"
    /\ k \in Hops(inv[w]) /\ RevocationCleared(w, k)' =>
         RevocationCleared(w, k) \/ (pc[w] = "revocation" /\ RevocationError(inv[w], k) = "Ok")
<1>1. Moves(w)
  BY StepMoves
<1>2. /\ inv[w] \in InvCid
      /\ InvocationAt(w) \in Nat
      /\ Hops(inv[w]) = 1 .. InvocationAt(w) - 1
      /\ k \in Nat \ {0}
  <2>1. inv[w] \in InvCid
    BY StepControl DEF TypeOK
  <2>. QED  BY <2>1, ChainType DEF InvocationAt, Hops
<1>3. ASSUME k \in Hops(inv[w]), SubjectCleared(w, k)'
      PROVE  SubjectCleared(w, k) \/ SubjectError(ChainOf(inv[w])[k], Invocations[inv[w]].sub) = "Ok"
  <2>1. CASE pc[w] # "subject"
    <3>1. /\ "rejected" \notin PastSubject
          /\ \A f \in Follows : f[2] \in PastSubject => f[1] \in PastSubject \cup {"subject"}
      BY DEF Follows, PastSubject, PastLinkage, PastWindow, PastSignature, PastRevocation, PastPolicy, PastExecutor
    <3>. QED  BY <1>1, <1>2, <1>3, <2>1, <3>1, OtherClears DEF SubjectCleared
  <2>2. CASE pc[w] = "subject"
    <3>1. CheckSubject(w)
      BY <2>2 DEF Step, CheckLimit, GetProof, CheckRoot, CheckSubject, CheckLinkage, CheckWindow, VerifySignature, AskRevocation, CheckPolicy, CheckExecutor, Record
    <3>. DEFINE error == SubjectError(ChainOf(inv[w])[hop[w]], Invocations[inv[w]].sub)
    <3>2. ForEach(w, InvocationAt(w) - 1, error, "linkage")
      BY <3>1 DEF CheckSubject
    <3>3. "rejected" \notin PastSubject /\ "subject" \notin PastSubject
      BY DEF PastSubject, PastLinkage, PastWindow, PastSignature, PastRevocation, PastPolicy, PastExecutor
    <3>4. k \in Nat /\ InvocationAt(w) - 1 \in Nat /\ k <= InvocationAt(w) - 1
      BY <1>2, <1>3
    <3>5. SubjectCleared(w, k) \/ (k = hop[w] /\ error = "Ok")
      <4>. HIDE DEF error
      <4>. QED  BY <1>3, <2>2, <3>2, <3>3, <3>4, OwnClears DEF SubjectCleared
    <3>. QED  BY <3>5
  <2>. QED  BY <2>1, <2>2
<1>4. ASSUME k \in Hops(inv[w]), LinkageCleared(w, k)'
      PROVE  LinkageCleared(w, k) \/ LinkageError(ChainOf(inv[w])[k], TokenAt(inv[w], k + 1)) = "Ok"
  <2>1. CASE pc[w] # "linkage"
    <3>1. /\ "rejected" \notin PastLinkage
          /\ \A f \in Follows : f[2] \in PastLinkage => f[1] \in PastLinkage \cup {"linkage"}
      BY DEF Follows, PastLinkage, PastWindow, PastSignature, PastRevocation, PastPolicy, PastExecutor
    <3>. QED  BY <1>1, <1>2, <1>4, <2>1, <3>1, OtherClears DEF LinkageCleared
  <2>2. CASE pc[w] = "linkage"
    <3>1. CheckLinkage(w)
      BY <2>2 DEF Step, CheckLimit, GetProof, CheckRoot, CheckSubject, CheckLinkage, CheckWindow, VerifySignature, AskRevocation, CheckPolicy, CheckExecutor, Record
    <3>. DEFINE error == LinkageError(ChainOf(inv[w])[hop[w]], TokenAt(inv[w], hop[w] + 1))
    <3>2. ForEach(w, InvocationAt(w) - 1, error, "window")
      BY <3>1 DEF CheckLinkage
    <3>3. "rejected" \notin PastLinkage /\ "linkage" \notin PastLinkage
      BY DEF PastLinkage, PastWindow, PastSignature, PastRevocation, PastPolicy, PastExecutor
    <3>4. k \in Nat /\ InvocationAt(w) - 1 \in Nat /\ k <= InvocationAt(w) - 1
      BY <1>2, <1>4
    <3>5. LinkageCleared(w, k) \/ (k = hop[w] /\ error = "Ok")
      <4>. HIDE DEF error
      <4>. QED  BY <1>4, <2>2, <3>2, <3>3, <3>4, OwnClears DEF LinkageCleared
    <3>. QED  BY <3>5
  <2>. QED  BY <2>1, <2>2
<1>5. ASSUME WindowCleared(w, k)'
      PROVE  WindowCleared(w, k) \/ TimeError(inv[w], k, now[w], Skew) = "Ok"
  <2>1. CASE pc[w] # "window"
    <3>1. /\ "rejected" \notin PastWindow
          /\ \A f \in Follows : f[2] \in PastWindow => f[1] \in PastWindow \cup {"window"}
      BY DEF Follows, PastWindow, PastSignature, PastRevocation, PastPolicy, PastExecutor
    <3>. QED  BY <1>1, <1>2, <1>5, <2>1, <3>1, OtherClears DEF WindowCleared
  <2>2. CASE pc[w] = "window"
    <3>1. CheckWindow(w)
      BY <2>2 DEF Step, CheckLimit, GetProof, CheckRoot, CheckSubject, CheckLinkage, CheckWindow, VerifySignature, AskRevocation, CheckPolicy, CheckExecutor, Record
    <3>. DEFINE error == TimeError(inv[w], hop[w], now[w], Skew)
    <3>2. ForEach(w, InvocationAt(w), error, "signature")
      BY <3>1 DEF CheckWindow
    <3>3. "rejected" \notin PastWindow /\ "window" \notin PastWindow
      BY DEF PastWindow, PastSignature, PastRevocation, PastPolicy, PastExecutor
    <3>4. k \in Nat /\ InvocationAt(w) \in Nat /\ k <= InvocationAt(w)
      BY <1>2, <1>5
    <3>5. WindowCleared(w, k) \/ (k = hop[w] /\ error = "Ok")
      <4>. HIDE DEF error
      <4>. QED  BY <1>5, <2>2, <3>2, <3>3, <3>4, OwnClears DEF WindowCleared
    <3>. QED  BY <3>5
  <2>. QED  BY <2>1, <2>2
<1>6. ASSUME SignatureCleared(w, k)'
      PROVE  SignatureCleared(w, k) \/ SignatureError(TokenAt(inv[w], k)) = "Ok"
  <2>1. CASE pc[w] # "signature"
    <3>1. /\ "rejected" \notin PastSignature
          /\ \A f \in Follows : f[2] \in PastSignature => f[1] \in PastSignature \cup {"signature"}
      BY DEF Follows, PastSignature, PastRevocation, PastPolicy, PastExecutor
    <3>. QED  BY <1>1, <1>2, <1>6, <2>1, <3>1, OtherClears DEF SignatureCleared
  <2>2. CASE pc[w] = "signature"
    <3>1. VerifySignature(w)
      BY <2>2 DEF Step, CheckLimit, GetProof, CheckRoot, CheckSubject, CheckLinkage, CheckWindow, VerifySignature, AskRevocation, CheckPolicy, CheckExecutor, Record
    <3>. DEFINE error == SignatureError(TokenAt(inv[w], hop[w]))
    <3>2. ForEach(w, InvocationAt(w), error, "revocation")
      BY <3>1 DEF VerifySignature
    <3>3. "rejected" \notin PastSignature /\ "signature" \notin PastSignature
      BY DEF PastSignature, PastRevocation, PastPolicy, PastExecutor
    <3>4. k \in Nat /\ InvocationAt(w) \in Nat /\ k <= InvocationAt(w)
      BY <1>2, <1>6
    <3>5. SignatureCleared(w, k) \/ (k = hop[w] /\ error = "Ok")
      <4>. HIDE DEF error
      <4>. QED  BY <1>6, <2>2, <3>2, <3>3, <3>4, OwnClears DEF SignatureCleared
    <3>. QED  BY <3>5
  <2>. QED  BY <2>1, <2>2
<1>7. ASSUME k \in Hops(inv[w]), PolicyCleared(w, k)'
      PROVE  PolicyCleared(w, k) \/ PolicyError(ChainOf(inv[w])[k], Invocations[inv[w]].args) = "Ok"
  <2>1. CASE pc[w] # "policy"
    <3>1. /\ "rejected" \notin PastPolicy
          /\ \A f \in Follows : f[2] \in PastPolicy => f[1] \in PastPolicy \cup {"policy"}
      BY DEF Follows, PastPolicy, PastExecutor
    <3>. QED  BY <1>1, <1>2, <1>7, <2>1, <3>1, OtherClears DEF PolicyCleared
  <2>2. CASE pc[w] = "policy"
    <3>1. CheckPolicy(w)
      BY <2>2 DEF Step, CheckLimit, GetProof, CheckRoot, CheckSubject, CheckLinkage, CheckWindow, VerifySignature, AskRevocation, CheckPolicy, CheckExecutor, Record
    <3>. DEFINE error == PolicyError(ChainOf(inv[w])[hop[w]], Invocations[inv[w]].args)
    <3>2. ForEach(w, InvocationAt(w) - 1, error, "executor")
      BY <3>1 DEF CheckPolicy
    <3>3. "rejected" \notin PastPolicy /\ "policy" \notin PastPolicy
      BY DEF PastPolicy, PastExecutor
    <3>4. k \in Nat /\ InvocationAt(w) - 1 \in Nat /\ k <= InvocationAt(w) - 1
      BY <1>2, <1>7
    <3>5. PolicyCleared(w, k) \/ (k = hop[w] /\ error = "Ok")
      <4>. HIDE DEF error
      <4>. QED  BY <1>7, <2>2, <3>2, <3>3, <3>4, OwnClears DEF PolicyCleared
    <3>. QED  BY <3>5
  <2>. QED  BY <2>1, <2>2
<1>8. ASSUME k \in Hops(inv[w]), RevocationCleared(w, k)'
      PROVE  RevocationCleared(w, k) \/ (pc[w] = "revocation" /\ RevocationError(inv[w], k) = "Ok")
  <2>1. CASE pc[w] # "revocation"
    <3>1. /\ "rejected" \notin PastRevocation
          /\ \A f \in Follows : f[2] \in PastRevocation => f[1] \in PastRevocation \cup {"revocation"}
      BY DEF Follows, PastRevocation, PastPolicy, PastExecutor
    <3>. QED  BY <1>1, <1>2, <1>8, <2>1, <3>1, OtherClears DEF RevocationCleared
  <2>2. CASE pc[w] = "revocation"
    <3>1. AskRevocation(w)
      BY <2>2 DEF Step, CheckLimit, GetProof, CheckRoot, CheckSubject, CheckLinkage, CheckWindow, VerifySignature, AskRevocation, CheckPolicy, CheckExecutor, Record
    <3>. DEFINE error == RevocationError(inv[w], hop[w])
    <3>2. ForEach(w, InvocationAt(w) - 1, error, "policy")
      BY <3>1 DEF AskRevocation
    <3>3. "rejected" \notin PastRevocation /\ "revocation" \notin PastRevocation
      BY DEF PastRevocation, PastPolicy, PastExecutor
    <3>4. k \in Nat /\ InvocationAt(w) - 1 \in Nat /\ k <= InvocationAt(w) - 1
      BY <1>2, <1>8
    <3>5. RevocationCleared(w, k) \/ (k = hop[w] /\ error = "Ok")
      <4>. HIDE DEF error
      <4>. QED  BY <1>8, <2>2, <3>2, <3>3, <3>4, OwnClears DEF RevocationCleared
    <3>. QED  BY <2>2, <3>5
  <2>. QED  BY <2>1, <2>2
<1>. QED  BY <1>3, <1>4, <1>5, <1>6, <1>7, <1>8

LEMMA RestClears ==
  ASSUME TypeOK, NEW w \in Worker, Step(w)
  PROVE  /\ pc'[w] \in PastRoot =>
              pc[w] \in PastRoot \/ RootError(ChainOf(inv[w]), Invocations[inv[w]].sub) = "Ok"
         /\ pc'[w] \in PastExecutor =>
              pc[w] \in PastExecutor \/ ExecutorError(inv[w]) = "Ok"
<1>. DEFINE root == RootError(ChainOf(inv[w]), Invocations[inv[w]].sub)
            executor == ExecutorError(inv[w])
<1>1. CASE CheckRoot(w)
  <2>1. Once(w, root, 0, "subject") /\ pc[w] = "root"
    BY <1>1 DEF CheckRoot
  <2>. HIDE DEF root
  <2>2. root # "Ok" => pc'[w] = "rejected"
    BY <2>1 DEF Once, Refuse, TypeOK
  <2>3. "rejected" \notin PastRoot /\ "rejected" \notin PastExecutor
         /\ "subject" \notin PastExecutor
    BY DEF PastRoot, PastSubject, PastLinkage, PastWindow, PastSignature,
           PastRevocation, PastPolicy, PastExecutor
  <2>4. pc'[w] \in {"subject", "rejected"}
    BY <2>1 DEF Once, Refuse, Proceed, TypeOK
  <2>. QED  BY <2>2, <2>3, <2>4 DEF root
<1>2. CASE CheckExecutor(w)
  <2>1. Once(w, executor, 0, "replay") /\ pc[w] = "executor"
    BY <1>2 DEF CheckExecutor
  <2>. HIDE DEF executor
  <2>2. executor # "Ok" => pc'[w] = "rejected"
    BY <2>1 DEF Once, Refuse, TypeOK
  <2>3. "rejected" \notin PastExecutor /\ "executor" \in PastRoot
    BY DEF PastRoot, PastSubject, PastLinkage, PastWindow, PastSignature,
           PastRevocation, PastPolicy, PastExecutor
  <2>. QED  BY <2>1, <2>2, <2>3 DEF executor
<1>3. CASE pc[w] \notin {"root", "executor"}
  BY <1>3, StepMoves DEF Moves, Follows, PastRoot, PastSubject, PastLinkage, PastWindow,
     PastSignature, PastRevocation, PastPolicy, PastExecutor
<1>. QED
  BY <1>1, <1>2, <1>3 DEF Step, CheckLimit, GetProof, CheckRoot, CheckSubject, CheckLinkage,
     CheckWindow, VerifySignature, AskRevocation, CheckPolicy, CheckExecutor, Record

LEMMA StepPassing ==
  ASSUME TypeOK, NEW w \in Worker, Step(w), Passing(w)
  PROVE  Passing(w)'
<1>1. /\ inv[w] \in InvCid
      /\ inv'[w] = inv[w] /\ now'[w] = now[w]
      /\ Hops(inv[w]) \subseteq 1 .. InvocationAt(w)
  <2>1. inv[w] \in InvCid /\ inv' = inv /\ now' = now
    BY StepControl DEF TypeOK, Kept, Record
  <2>. QED  BY <2>1, ChainType DEF InvocationAt, Hops
<1>. DEFINE i == inv[w]
<1>2. /\ pc'[w] \in PastRoot => RootError(ChainOf(i), Invocations[i].sub) = "Ok"
      /\ pc'[w] \in PastExecutor => ExecutorError(i) = "Ok"
  BY RestClears DEF Passing
<1>3. ASSUME NEW k \in Hops(i)
      PROVE  /\ SubjectCleared(w, k)' => SubjectError(ChainOf(i)[k], Invocations[i].sub) = "Ok"
             /\ LinkageCleared(w, k)' => LinkageError(ChainOf(i)[k], TokenAt(i, k + 1)) = "Ok"
             /\ PolicyCleared(w, k)' => PolicyError(ChainOf(i)[k], Invocations[i].args) = "Ok"
  BY <1>1, <1>3, StepClears DEF Passing
<1>4. ASSUME NEW k \in 1 .. InvocationAt(w)
      PROVE  /\ WindowCleared(w, k)' => TimeError(i, k, now[w], Skew) = "Ok"
             /\ SignatureCleared(w, k)' => SignatureError(TokenAt(i, k)) = "Ok"
  BY <1>1, <1>4, StepClears DEF Passing
<1>. QED  BY <1>1, <1>2, <1>3, <1>4 DEF Passing, InvocationAt

LEMMA StepCarried ==
  ASSUME TypeOK, NEW w \in Worker, Step(w), Carried(w)
  PROVE  Carried(w)'
<1>. DEFINE i == inv[w]
<1>1. i \in InvCid /\ inv'[w] = i
  BY StepControl DEF TypeOK, Kept, Record
<1>2. /\ InvocationAt(w) \in Nat
      /\ Hops(i) = 1 .. InvocationAt(w) - 1
      /\ InvocationAt(w) = Len(Invocations[i].prf) + 1
      /\ Len(Invocations[i].prf) \in Nat
  BY <1>1, ChainType DEF InvocationAt, Hops
<1>. SUFFICES ASSUME NEW k \in Hops(i), NEW m \in Hops(i), k <= m, LinkageCleared(w, m)'
              PROVE  Covers(ChainOf(i)[k].cmd, TokenAt(i, m + 1).cmd)
  BY <1>1 DEF Carried
<1>3. CASE LinkageCleared(w, m)
  BY <1>3 DEF Carried
<1>4. CASE ~LinkageCleared(w, m)
  <2>1. LinkageError(ChainOf(i)[m], TokenAt(i, m + 1)) = "Ok"
    BY <1>2, <1>4, StepClears
  <2>2. Covers(ChainOf(i)[m].cmd, TokenAt(i, m + 1).cmd)
    BY <2>1 DEF LinkageError
  <2>3. CASE k = m
    BY <2>2, <2>3
  <2>4. CASE k < m
    <3>1. m - 1 \in Hops(i) /\ k <= m - 1 /\ TokenAt(i, m) = ChainOf(i)[m]
      BY <1>2, <2>4 DEF TokenAt
    <3>2. LinkageCleared(w, m - 1)
      <4>1. /\ pc'[w] \in PastLinkage \/ (pc'[w] = "linkage" /\ m < hop'[w])
            /\ pc[w] \notin PastLinkage /\ ~(pc[w] = "linkage" /\ m < hop[w])
        BY <1>4 DEF LinkageCleared, Cleared
      <4>2. pc[w] = "linkage"
        BY <1>2, <4>1, StepMoves DEF Moves, Follows, PastLinkage, PastWindow,
           PastSignature, PastRevocation, PastPolicy, PastExecutor
      <4>3. CheckLinkage(w)
        BY <4>2 DEF Step, CheckLimit, GetProof, CheckRoot, CheckSubject, CheckLinkage, CheckWindow,
           VerifySignature, AskRevocation, CheckPolicy, CheckExecutor, Record
      <4>4. hop[w] >= m
        <5>1. ForEach(w, InvocationAt(w) - 1, LinkageError(ChainOf(i)[hop[w]],
                      TokenAt(i, hop[w] + 1)), "window")
          BY <4>3 DEF CheckLinkage
        <5>2. \/ hop[w] > InvocationAt(w) - 1
              \/ pc'[w] = "rejected"
              \/ hop'[w] = hop[w] + 1 /\ pc'[w] = "linkage"
          BY <4>2, <5>1 DEF ForEach, Refuse, TypeOK
        <5>3. "rejected" \notin PastLinkage /\ "linkage" \notin PastLinkage
          BY DEF PastLinkage, PastWindow, PastSignature, PastRevocation, PastPolicy,
                 PastExecutor
        <5>. QED  BY <1>2, <4>1, <5>2, <5>3 DEF TypeOK
      <4>. QED  BY <1>2, <4>2, <4>4 DEF LinkageCleared, Cleared, TypeOK
    <3>3. Covers(ChainOf(i)[k].cmd, ChainOf(i)[m].cmd)
      BY <3>1, <3>2, <1>2 DEF Carried
    <3>4. /\ ChainOf(i)[k].cmd \in Command /\ ChainOf(i)[m].cmd \in Command
          /\ TokenAt(i, m + 1).cmd \in Command
      BY <1>1, <1>2, CommandsOf, ChainType DEF Delegation
    <3>. QED  BY <2>2, <3>3, <3>4, CoversTransitive
  <2>. QED  BY <1>2, <2>3, <2>4
<1>. QED  BY <1>3, <1>4

\* What is established of a worker depends on nothing but that worker.
LEMMA Untouched ==
  ASSUME NEW w \in Worker, pc'[w] = pc[w], inv'[w] = inv[w], hop'[w] = hop[w],
         now'[w] = now[w], Passing(w), Carried(w)
  PROVE  Passing(w)' /\ Carried(w)'
<1>. USE DEF Cleared, SubjectCleared, LinkageCleared, WindowCleared, SignatureCleared,
         PolicyCleared, InvocationAt
<1>1. Passing(w)'
  BY DEF Passing
<1>2. Carried(w)'
  BY DEF Carried
<1>. QED  BY <1>1, <1>2

LEMMA EstablishedNext == TypeOK /\ EstablishedInv /\ [Next]_vars => EstablishedInv'
<1>. SUFFICES ASSUME TypeOK, EstablishedInv, [Next]_vars,
                     NEW w \in Worker, inv'[w] # None
              PROVE  Passing(w)' /\ Carried(w)'
  BY DEF EstablishedInv
<1>. DEFINE Same == /\ pc'[w] = pc[w] /\ inv'[w] = inv[w]
                    /\ hop'[w] = hop[w] /\ now'[w] = now[w]
<1>0. ASSUME Same PROVE Passing(w)' /\ Carried(w)'
  BY <1>0, Untouched DEF EstablishedInv
<1>1. ASSUME NEW v \in Worker, Step(v) PROVE Passing(w)' /\ Carried(w)'
  <2>1. CASE v = w
    <3>1. inv[w] # None
      BY <1>1, <2>1, StepControl DEF TypeOK
    <3>. QED  BY <1>1, <2>1, <3>1, StepPassing, StepCarried DEF EstablishedInv
  <2>2. CASE v # w
    <3>1. Same
      BY <1>1, <2>2, StepControl DEF Control, Kept, Record, TypeOK
    <3>. QED  BY <3>1, <1>0
  <2>. QED  BY <2>1, <2>2
<1>2. ASSUME NEW v \in Worker, Return(v) \/ Close(v) PROVE Passing(w)' /\ Carried(w)'
  <2>1. v # w
    BY <1>2 DEF Return, Close, TypeOK
  <2>. QED  BY <1>0, <1>2, <2>1 DEF Return, Close, TypeOK
<1>3. ASSUME NEW v \in Worker, NEW t \in Timestamp, New(v, t)
      PROVE  Passing(w)' /\ Carried(w)'
  <2>1. v # w
    BY <1>3 DEF New, TypeOK
  <2>. QED  BY <1>0, <1>3, <2>1 DEF New, TypeOK
<1>4. ASSUME NEW v \in Worker, NEW i \in InvCid, Validate(v, i)
      PROVE  Passing(w)' /\ Carried(w)'
  <2>1. CASE v = w
    <3>1. pc'[w] = "limit"
      BY <1>4, <2>1 DEF Validate, TypeOK
    <3>. QED
      BY <3>1 DEF Passing, Carried, Cleared, SubjectCleared, LinkageCleared, WindowCleared,
         SignatureCleared, PolicyCleared, PastRoot, PastSubject, PastLinkage, PastWindow,
         PastSignature, PastRevocation, PastPolicy, PastExecutor
  <2>2. CASE v # w
    BY <1>0, <1>4, <2>2 DEF Validate, TypeOK
  <2>. QED  BY <2>1, <2>2
<1>5. CASE UNCHANGED local
  BY <1>0, <1>5 DEF local
<1>6. ASSUME Tick \/ (\E l \in Link : InsertProof(l) \/ RemoveProof(l))
               \/ (\E r \in Arrivals : Revoke(r))
               \/ (\E t \in Timestamp : PruneProofs(t) \/ PruneRevocations(t) \/ PruneSeen(t))
      PROVE  UNCHANGED local
  BY <1>6 DEF Tick, InsertProof, RemoveProof, Revoke, PruneProofs, PruneRevocations, PruneSeen
<1>7. CASE UNCHANGED vars
  BY <1>5, <1>7 DEF vars
<1>. QED
  BY <1>1, <1>2, <1>3, <1>4, <1>5, <1>6, <1>7 DEF Next

LEMMA EstablishedInit == Init => EstablishedInv
BY DEF Init, EstablishedInv

\* An invocation that reaches the replay guard has passed every check at every
\* position.
LEMMA ReplayHasPassed ==
  ASSUME TypeOK, EstablishedInv, NEW w \in Worker, pc[w] \in PastExecutor
  PROVE  /\ Authorized(inv[w], now[w], Skew)
         /\ ExecutorError(inv[w]) = "Ok"
<1>. DEFINE i == inv[w]
<1>1. i \in InvCid /\ now[w] \in Timestamp /\ Skew \in Nat
  BY ValidatorAssumption DEF TypeOK, PastExecutor
<1>2. Passing(w) /\ Carried(w)
  BY <1>1, ValidatorAssumption DEF EstablishedInv
<1>3. /\ pc[w] \in PastRoot /\ pc[w] \in PastExecutor
      /\ \A k : /\ SubjectCleared(w, k) /\ LinkageCleared(w, k) /\ WindowCleared(w, k)
                /\ SignatureCleared(w, k) /\ PolicyCleared(w, k)
  BY DEF Cleared, SubjectCleared, LinkageCleared, WindowCleared, SignatureCleared,
         PolicyCleared, PastRoot, PastSubject, PastLinkage, PastWindow, PastSignature,
         PastRevocation, PastPolicy, PastExecutor
<1>4. /\ RootError(ChainOf(i), Invocations[i].sub) = "Ok"
      /\ ExecutorError(i) = "Ok"
      /\ \A k \in Hops(i) :
           /\ SubjectError(ChainOf(i)[k], Invocations[i].sub) = "Ok"
           /\ LinkageError(ChainOf(i)[k], TokenAt(i, k + 1)) = "Ok"
           /\ PolicyError(ChainOf(i)[k], Invocations[i].args) = "Ok"
      /\ \A k \in 1 .. Len(Invocations[i].prf) + 1 :
           /\ TimeError(i, k, now[w], Skew) = "Ok"
           /\ SignatureError(TokenAt(i, k)) = "Ok"
  BY <1>2, <1>3 DEF Passing, InvocationAt
<1>5. \A k, m \in Hops(i) : k <= m => Covers(ChainOf(i)[k].cmd, TokenAt(i, m + 1).cmd)
  BY <1>2, <1>3 DEF Carried
<1>. QED  BY <1>1, <1>4, <1>5, ChecksMeanAuthority

\* validate accepts only what its subject authorized: whatever the other
\* workers, the stores and the clock do meanwhile, an accepted invocation
\* carries a signed, unexpired, unbroken and nowhere widened chain for the time
\* its Validator was made with.
THEOREM AcceptanceIsSound == Spec => []AcceptedIsAuthorized
<1>1. TypeOK /\ EstablishedInv => AcceptedIsAuthorized
  BY ReplayHasPassed DEF AcceptedIsAuthorized, ExecutorError, PastExecutor
<1>. QED
  BY <1>1, TypeInit, TypeNext, EstablishedInit, EstablishedNext, PTL DEF Spec

\* A refused invocation is not consumed: the replay guard learns only of
\* invocations that are authorized, in the very step that accepts them.
THEOREM OnlyPassingRecorded == Spec => OnlyPassingIsRecorded
<1>. DEFINE Recorded == \A i \in seen' \ seen : \E w \in Worker :
                          inv[w] = i /\ pc'[w] = "accepted" /\ Authorized(i, now[w], Skew)
<1>1. TypeOK /\ EstablishedInv /\ [Next]_vars => [Recorded]_vars
  <2>. SUFFICES ASSUME TypeOK, EstablishedInv, Next, NEW i \in seen' \ seen
                PROVE  \E w \in Worker :
                         inv[w] = i /\ pc'[w] = "accepted" /\ Authorized(i, now[w], Skew)
    OBVIOUS
  <2>1. PICK w \in Worker : Record(w)
    BY StepControl DEF Next, Kept, Return, Close, New, Validate, Tick, InsertProof,
       RemoveProof, Revoke, PruneProofs, PruneRevocations, PruneSeen, shared, local
  <2>2. /\ pc[w] = "replay"
        /\ i = inv[w]
        /\ Proceed(w, "accepted")
    BY <2>1 DEF Record
  <2>3. pc'[w] = "accepted"
    BY <2>2 DEF Proceed, TypeOK
  <2>4. Authorized(inv[w], now[w], Skew)
    BY <2>2, ReplayHasPassed DEF PastExecutor
  <2>. QED  BY <2>2, <2>3, <2>4
<1>. QED
  BY <1>1, TypeInit, TypeNext, EstablishedInit, EstablishedNext, PTL
     DEF Spec, OnlyPassingIsRecorded

----------------------------------------------------------------------------
(* Which failure a refusal names.                                          *)

\* The rows of the table, with the one walk that the linkage checks make.
Row == [TableRow EXCEPT !.CommandNotCovered = 6]

\* Nothing of i fails in an earlier row than r, or in r before position k.
NothingBefore(i, t, r, k) ==
  \A other \in DOMAIN Row : \A j \in 0 .. Len(Invocations[i].prf) + 1 :
    Fails(i, t, Skew, Me, other, j) => r < Row[other] \/ (r = Row[other] /\ k <= j)

LEMMA RowValues ==
  /\ DOMAIN Row = DOMAIN TableRow /\ DOMAIN Row = Errors
  /\ Row["TooManyProofs"] = 0 /\ Row["MissingProof"] = 1
  /\ Row["EmptyChain"] = 2 /\ Row["RootNotSubject"] = 3 /\ Row["PowerlineAtRoot"] = 4
  /\ Row["SubjectMismatch"] = 5
  /\ Row["PrincipalMismatch"] = 6 /\ Row["CommandNotCovered"] = 6
  /\ Row["NotYetValid"] = 8 /\ Row["Expired"] = 8
  /\ Row["Unresolvable"] = 9 /\ Row["BadSignature"] = 9
  /\ Row["Revoked"] = 10 /\ Row["PolicyRejected"] = 11 /\ Row["WrongExecutor"] = 12
  /\ Row["Replay"] = 13
BY DEF Row, TableRow, Errors

\* Whatever fails makes the check of its row fail, at its position.
LEMMA FailureShows ==
  ASSUME NEW i \in InvCid, NEW t \in Timestamp, NEW other \in DOMAIN Row,
         NEW j \in 0 .. Len(Invocations[i].prf) + 1, Fails(i, t, Skew, Me, other, j)
  PROVE
    \/ /\ Row[other] \in 2 .. 4
       /\ j = 0
       /\ RootError(ChainOf(i), Invocations[i].sub) # "Ok"
    \/ /\ Row[other] = 5
       /\ j \in Hops(i)
       /\ SubjectError(ChainOf(i)[j], Invocations[i].sub) # "Ok"
    \/ /\ Row[other] = 6
       /\ j \in Hops(i)
       /\ LinkageError(ChainOf(i)[j], TokenAt(i, j + 1)) # "Ok"
    \/ /\ Row[other] = 8
       /\ j \in 1 .. Len(Invocations[i].prf) + 1
       /\ TimeError(i, j, t, Skew) # "Ok"
    \/ /\ Row[other] = 9
       /\ j \in 1 .. Len(Invocations[i].prf) + 1
       /\ SignatureError(TokenAt(i, j)) # "Ok"
    \/ /\ Row[other] = 11
       /\ j \in Hops(i)
       /\ PolicyError(ChainOf(i)[j], Invocations[i].args) # "Ok"
    \/ Row[other] = 12 /\ j = 0 /\ ExecutorError(i) # "Ok"
<1>. DEFINE token == TokenAt(i, j)
            nbf == IF j \in Hops(i) THEN token.nbf ELSE None
            n == Len(Invocations[i].prf)
<1>1. \/ other \in {"EmptyChain", "RootNotSubject", "PowerlineAtRoot", "WrongExecutor"} /\ j = 0
      \/ /\ other \in {"SubjectMismatch", "PrincipalMismatch", "CommandNotCovered", "PolicyRejected"}
         /\ j \in Hops(i)
      \/ /\ other \in {"NotYetValid", "Expired", "Unresolvable", "BadSignature"}
         /\ j \in 1 .. n + 1
  BY DEF Fails
<1>2. n \in Nat /\ DOMAIN ChainOf(i) = 1 .. n /\ Hops(i) = 1 .. n
  <2>1. n \in Nat /\ Hops(i) = DOMAIN Invocations[i].prf
    BY ChainType
  <2>2. Hops(i) = 1 .. n /\ DOMAIN ChainOf(i) = DOMAIN Invocations[i].prf
    BY DEF ChainOf, Hops
  <2>. QED  BY <2>1, <2>2
<1>3. CASE other \in {"EmptyChain", "RootNotSubject", "PowerlineAtRoot"}
  <2>1. other = "EmptyChain" => ChainOf(i) = << >>
    <3>1. other = "EmptyChain" => Hops(i) = {}
      BY <1>2 DEF Fails, Hops
    <3>2. Hops(i) = {} => n = 0
      <4>1. n # 0 => 1 \in 1 .. n
        BY <1>2
      <4>. QED  BY <1>2, <4>1
    <3>3. n = 0 => DOMAIN ChainOf(i) = {}
      BY <1>2
    <3>4. DOMAIN ChainOf(i) = {} => ChainOf(i) = << >>
      BY DEF ChainOf
    <3>. QED  BY <3>1, <3>2, <3>3, <3>4
  <2>2. other = "RootNotSubject" => ~SamePrincipal(ChainOf(i)[1].iss, Invocations[i].sub)
    BY <1>2 DEF Fails, SamePrincipal
  <2>3. other = "PowerlineAtRoot" => ChainOf(i)[1].sub = Powerline
    BY <1>2 DEF Fails
  <2>4. RootError(ChainOf(i), Invocations[i].sub) # "Ok"
    BY <1>3, <2>1, <2>2, <2>3 DEF RootError
  <2>. QED  BY <1>1, <1>3, <2>4, RowValues
<1>4. CASE other = "WrongExecutor"
  <2>1. Me # None /\ ~SamePrincipal(ExecutorOf(Invocations[i]), Me)
    BY <1>2, <1>4 DEF Fails, SamePrincipal
  <2>. QED  BY <1>1, <1>4, <2>1, RowValues DEF ExecutorError
<1>5. CASE other \in {"SubjectMismatch", "PrincipalMismatch", "CommandNotCovered", "PolicyRejected"}
  <2>1. j \in Hops(i) /\ j # 0 /\ TokenAt(i, j) = ChainOf(i)[j]
    BY <1>1, <1>2, <1>5 DEF TokenAt
  <2>2. CASE other = "SubjectMismatch"
    <3>1. SubjectError(ChainOf(i)[j], Invocations[i].sub) # "Ok"
      BY <2>1, <2>2 DEF Fails, SubjectError, SamePrincipal
    <3>. QED  BY <2>1, <2>2, <3>1, RowValues
  <2>3. CASE other \in {"PrincipalMismatch", "CommandNotCovered"}
    <3>1. LinkageError(ChainOf(i)[j], TokenAt(i, j + 1)) # "Ok"
      BY <2>1, <2>3 DEF Fails, LinkageError, SamePrincipal, Covers
    <3>. QED  BY <2>1, <2>3, <3>1, RowValues
  <2>4. CASE other = "PolicyRejected"
    <3>1. PolicyError(ChainOf(i)[j], Invocations[i].args) # "Ok"
      BY <2>1, <2>4 DEF Fails, PolicyError
    <3>. QED  BY <2>1, <2>4, <3>1, RowValues
  <2>. QED  BY <1>5, <2>2, <2>3, <2>4
<1>6. CASE other \in {"NotYetValid", "Expired"}
  <2>1. j \in 1 .. n + 1 /\ j # 0
    BY <1>1, <1>2, <1>6
  <2>2. \/ nbf # None /\ t < MinusSeconds(nbf, Skew)
        \/ token.exp # Never /\ PlusSeconds(token.exp, Skew) < t
    BY <1>6, <2>1 DEF Fails
  <2>3. TimeError(i, j, t, Skew) # "Ok"
    <3>1. token.exp \in Expiry
      BY <1>2, ChainType DEF TokenAt, Delegation, Invocation
    <3>2. /\ t \in Int /\ Skew \in Nat /\ MaxTime \in Int
          /\ token.exp # Never => token.exp \in Int
      BY <3>1, TimeAssumption, ValidatorAssumption DEF Timestamp, Expiry
    <3>3. NotYetValid(nbf, t, Skew) \/ IsPast(token.exp, t, Skew)
      BY <2>2, <3>2 DEF NotYetValid, IsPast, PlusSeconds
    <3>. QED  BY <3>3 DEF TimeError, WindowError
  <2>. QED  BY <1>6, <2>1, <2>3, RowValues
<1>7. CASE other \in {"Unresolvable", "BadSignature"}
  <2>1. j \in 1 .. n + 1 /\ j # 0
    BY <1>1, <1>2, <1>7
  <2>2. SignatureError(token) # "Ok"
    BY <1>7, <2>1 DEF Fails, SignatureError
  <2>. QED  BY <1>7, <2>1, <2>2, RowValues
<1>. QED  BY <1>1, <1>3, <1>4, <1>5, <1>6, <1>7

\* The row of the check a validate is at, and the position.
RowOf ==
  [subject |-> 5, linkage |-> 6, window |-> 8, signature |-> 9, revocation |-> 10,
   policy |-> 11, executor |-> 12, replay |-> 13]
PositionOf(w) == IF pc[w] \in {"executor", "replay"} THEN 0 ELSE hop[w]

\* What has passed rules out every failure before the place validate is at.
LEMMA PassedSoFar ==
  ASSUME TypeOK, NEW w \in Worker, pc[w] \in DOMAIN RowOf, Passing(w)
  PROVE  NothingBefore(inv[w], now[w], RowOf[pc[w]], PositionOf(w))
<1>. DEFINE i == inv[w]
            n == Len(Invocations[inv[w]].prf)
            r == RowOf[pc[w]]
<1>1. /\ i \in InvCid /\ now[w] \in Timestamp /\ hop[w] \in Nat
      /\ r \in Nat /\ r >= 5
  BY DEF TypeOK, RowOf
<1>2. n \in Nat /\ Hops(i) = 1 .. n /\ InvocationAt(w) = n + 1
  BY <1>1, ChainType DEF Hops, InvocationAt
<1>. SUFFICES ASSUME NEW other \in DOMAIN Row, NEW j \in 0 .. n + 1,
                     Fails(i, now[w], Skew, Me, other, j)
              PROVE  r < Row[other] \/ (r = Row[other] /\ PositionOf(w) <= j)
  BY DEF NothingBefore
<1>. USE DEF Cleared, PastRoot, PastSubject, PastLinkage, PastWindow, PastSignature,
         PastRevocation, PastPolicy, PastExecutor
<1>3. ASSUME RootError(ChainOf(i), Invocations[i].sub) # "Ok" PROVE FALSE
  BY <1>3 DEF Passing, RowOf
<1>4. CASE /\ Row[other] = 5 /\ j \in Hops(i)
           /\ SubjectError(ChainOf(i)[j], Invocations[i].sub) # "Ok"
  <2>1. ~SubjectCleared(w, j)
    BY <1>4 DEF Passing
  <2>2. pc[w] = "subject" /\ ~(j < hop[w])
    BY <2>1 DEF SubjectCleared, RowOf
  <2>. QED  BY <1>1, <1>4, <2>2 DEF RowOf, PositionOf
<1>5. CASE /\ Row[other] = 6 /\ j \in Hops(i)
           /\ LinkageError(ChainOf(i)[j], TokenAt(i, j + 1)) # "Ok"
  <2>1. ~LinkageCleared(w, j)
    BY <1>5 DEF Passing
  <2>2. pc[w] = "subject" \/ (pc[w] = "linkage" /\ ~(j < hop[w]))
    BY <2>1 DEF LinkageCleared, RowOf
  <2>. QED  BY <1>1, <1>5, <2>2 DEF RowOf, PositionOf
<1>6. CASE /\ Row[other] = 8 /\ j \in 1 .. n + 1
           /\ TimeError(i, j, now[w], Skew) # "Ok"
  <2>1. ~WindowCleared(w, j)
    BY <1>2, <1>6 DEF Passing
  <2>2. pc[w] \in {"subject", "linkage"} \/ (pc[w] = "window" /\ ~(j < hop[w]))
    BY <2>1 DEF WindowCleared, RowOf
  <2>. QED  BY <1>1, <1>6, <2>2 DEF RowOf, PositionOf
<1>7. CASE /\ Row[other] = 9 /\ j \in 1 .. n + 1
           /\ SignatureError(TokenAt(i, j)) # "Ok"
  <2>1. ~SignatureCleared(w, j)
    BY <1>2, <1>7 DEF Passing
  <2>2. \/ pc[w] \in {"subject", "linkage", "window"}
        \/ pc[w] = "signature" /\ ~(j < hop[w])
    BY <2>1 DEF SignatureCleared, RowOf
  <2>. QED  BY <1>1, <1>7, <2>2 DEF RowOf, PositionOf
<1>8. CASE /\ Row[other] = 11 /\ j \in Hops(i)
           /\ PolicyError(ChainOf(i)[j], Invocations[i].args) # "Ok"
  <2>1. ~PolicyCleared(w, j)
    BY <1>8 DEF Passing
  <2>2. \/ pc[w] \in {"subject", "linkage", "window", "signature", "revocation"}
        \/ pc[w] = "policy" /\ ~(j < hop[w])
    BY <2>1 DEF PolicyCleared, RowOf
  <2>. QED  BY <1>1, <1>8, <2>2 DEF RowOf, PositionOf
<1>9. CASE Row[other] = 12 /\ ExecutorError(i) # "Ok"
  <2>1. pc[w] # "replay"
    BY <1>9 DEF Passing
  <2>. QED  BY <1>1, <1>9, <2>1 DEF RowOf, PositionOf
<1>. QED
  BY <1>1, <1>3, <1>4, <1>5, <1>6, <1>7, <1>8, <1>9, FailureShows

\* The root check reports the first of its three failures.
LEMMA RootIsEarliest ==
  ASSUME NEW i \in InvCid, NEW t \in Timestamp,
         NEW error, error = RootError(ChainOf(i), Invocations[i].sub), error # "Ok"
  PROVE  Fails(i, t, Skew, Me, error, 0) /\ NothingBefore(i, t, Row[error], 0)
<1>. DEFINE n == Len(Invocations[i].prf)
            subject == Invocations[i].sub
<1>1. n \in Nat /\ Hops(i) = 1 .. n /\ DOMAIN ChainOf(i) = 1 .. n
  <2>1. n \in Nat /\ Hops(i) = DOMAIN Invocations[i].prf
    BY ChainType
  <2>2. Hops(i) = 1 .. n /\ DOMAIN ChainOf(i) = DOMAIN Invocations[i].prf
    BY DEF ChainOf, Hops
  <2>. QED  BY <2>1, <2>2
<1>2. ChainOf(i) = << >> <=> Hops(i) = {}
  <2>1. DOMAIN ChainOf(i) = {} => ChainOf(i) = << >>
    BY DEF ChainOf
  <2>2. ChainOf(i) = << >> => DOMAIN ChainOf(i) = {}
    OBVIOUS
  <2>. QED  BY <1>1, <2>1, <2>2
<1>3. \/ error = "EmptyChain" /\ Hops(i) = {}
      \/ /\ error = "RootNotSubject" /\ Hops(i) # {}
         /\ ~SamePrincipal(ChainOf(i)[1].iss, subject)
      \/ /\ error = "PowerlineAtRoot" /\ Hops(i) # {}
         /\ SamePrincipal(ChainOf(i)[1].iss, subject)
         /\ ChainOf(i)[1].sub = Powerline
  BY <1>2 DEF RootError
<1>4. Fails(i, t, Skew, Me, error, 0)
  BY <1>3 DEF Fails, SamePrincipal
<1>5. ASSUME NEW other \in DOMAIN Row, NEW j \in 0 .. n + 1, Fails(i, t, Skew, Me, other, j)
      PROVE  Row[error] < Row[other] \/ (Row[error] = Row[other] /\ 0 <= j)
  <2>1. /\ other = "EmptyChain" => Hops(i) = {}
        /\ other = "RootNotSubject" => ~SamePrincipal(ChainOf(i)[1].iss, subject) /\ Hops(i) # {}
        /\ other = "PowerlineAtRoot" => Hops(i) # {}
    BY <1>1, <1>5 DEF Fails, SamePrincipal
  <2>2. other \notin {"TooManyProofs", "MissingProof"}
    BY <1>5 DEF Fails
  <2>3. 0 <= j
    BY <1>1
  <2>4. other \in Errors
    BY RowValues
  <2>. QED  BY <1>3, <2>1, <2>2, <2>3, <2>4, RowValues DEF Errors
<1>. QED  BY <1>4, <1>5 DEF NothingBefore

\* What a refusal must say: a failure of the chain, unless it is for what the
\* validator or a store says, and nothing before it.
Reasoned(i, t, error, k) ==
  /\ \/ error \in {"TooManyProofs", "MissingProof", "Revoked", "Replay"}
     \/ Fails(i, t, Skew, Me, error, k)
  /\ error \notin {"TooManyProofs", "MissingProof"} => NothingBefore(i, t, Row[error], k)

LEMMA RefusedOnce ==
  ASSUME TypeOK, NEW w \in Worker, NEW error, NEW k, NEW next,
         next # "rejected", Once(w, error, k, next), pc'[w] = "rejected"
  PROVE  error # "Ok" /\ outcome'[w].error = error /\ outcome'[w].hop = k
BY DEF Once, Proceed, Refuse, TypeOK

LEMMA RefusedInLoop ==
  ASSUME TypeOK, NEW w \in Worker, NEW last, NEW error, NEW next,
         next # "rejected", pc[w] # "rejected", ForEach(w, last, error, next),
         pc'[w] = "rejected"
  PROVE  /\ hop[w] <= last /\ error # "Ok"
         /\ outcome'[w].error = error /\ outcome'[w].hop = hop[w]
BY DEF ForEach, Proceed, Refuse, TypeOK

\* The loops begin at position 1.
HopsCounted ==
  \A w \in Worker : pc[w] \in {"closed", "ready", "limit", "rejected"} \/ hop[w] >= 1

LEMMA StepIsReasoned ==
  ASSUME TypeOK, HopsCounted, NEW w \in Worker, Step(w), Passing(w), pc'[w] = "rejected"
  PROVE  Reasoned(inv[w], now[w], outcome'[w].error, outcome'[w].hop)
<1>. DEFINE i == inv[w]
            k == hop[w]
            n == Len(Invocations[inv[w]].prf)
            said == outcome'[w]
<1>1. /\ i \in InvCid /\ now[w] \in Timestamp /\ k \in Nat
      /\ pc[w] \notin {"closed", "ready", "rejected"}
  <2>1. pc[w] \notin {"closed", "ready"} /\ pc[w] # "rejected"
    BY StepControl DEF Step, CheckLimit, GetProof, CheckRoot, CheckSubject, CheckLinkage,
       CheckWindow, VerifySignature, AskRevocation, CheckPolicy, CheckExecutor, Record
  <2>. QED  BY <2>1 DEF TypeOK
<1>2. n \in Nat /\ Hops(i) = 1 .. n /\ InvocationAt(w) = n + 1
  BY <1>1, ChainType DEF Hops, InvocationAt
<1>3. ASSUME pc[w] \in DOMAIN RowOf
      PROVE  NothingBefore(i, now[w], RowOf[pc[w]], PositionOf(w))
  BY <1>3, PassedSoFar
<1>4. CASE CheckLimit(w)
  <2>1. said.error = LimitError(i) /\ LimitError(i) # "Ok"
    BY <1>4, RefusedOnce DEF CheckLimit
  <2>. QED  BY <2>1 DEF LimitError, Reasoned
<1>5. CASE GetProof(w)
  <2>1. said.error = GetError(i, k) /\ GetError(i, k) # "Ok"
    BY <1>1, <1>5, RefusedInLoop DEF GetProof
  <2>. QED  BY <2>1 DEF GetError, Reasoned
<1>6. CASE CheckRoot(w)
  <2>. DEFINE error == RootError(ChainOf(i), Invocations[i].sub)
  <2>1. said.error = error /\ error # "Ok" /\ said.hop = 0
    BY <1>6, RefusedOnce DEF CheckRoot
  <2>2. Fails(i, now[w], Skew, Me, error, 0) /\ NothingBefore(i, now[w], Row[error], 0)
    BY <1>1, <2>1, RootIsEarliest
  <2>. QED  BY <2>1, <2>2 DEF Reasoned
<1>7. CASE CheckSubject(w)
  <2>. DEFINE error == SubjectError(ChainOf(i)[k], Invocations[i].sub)
  <2>0. ForEach(w, InvocationAt(w) - 1, error, "linkage") /\ pc[w] = "subject"
    BY <1>7 DEF CheckSubject
  <2>1. said.error = error /\ error # "Ok" /\ said.hop = k /\ k <= n
    BY <1>1, <1>2, <2>0, RefusedInLoop
  <2>2. k \in Hops(i)
    BY <1>1, <1>2, <2>0, <2>1 DEF HopsCounted
  <2>3. error = "SubjectMismatch" /\ Fails(i, now[w], Skew, Me, error, k)
    BY <2>1, <2>2 DEF SubjectError, Fails, SamePrincipal, TokenAt
  <2>. QED  BY <1>3, <2>0, <2>1, <2>3, RowValues DEF Reasoned, RowOf, PositionOf
<1>8. CASE CheckLinkage(w)
  <2>. DEFINE error == LinkageError(ChainOf(i)[k], TokenAt(i, k + 1))
  <2>0. ForEach(w, InvocationAt(w) - 1, error, "window") /\ pc[w] = "linkage"
    BY <1>8 DEF CheckLinkage
  <2>1. said.error = error /\ error # "Ok" /\ said.hop = k /\ k <= n
    BY <1>1, <1>2, <2>0, RefusedInLoop
  <2>2. k \in Hops(i)
    BY <1>1, <1>2, <2>0, <2>1 DEF HopsCounted
  <2>3. /\ error \in {"PrincipalMismatch", "CommandNotCovered"}
        /\ Fails(i, now[w], Skew, Me, error, k)
    <3>1. TokenAt(i, k) = ChainOf(i)[k]
      BY <2>2 DEF TokenAt
    <3>. QED  BY <2>1, <2>2, <3>1 DEF LinkageError, Fails, SamePrincipal, Covers
  <2>. QED  BY <1>3, <2>0, <2>1, <2>3, RowValues DEF Reasoned, RowOf, PositionOf
<1>9. CASE CheckWindow(w)
  <2>. DEFINE error == TimeError(i, k, now[w], Skew)
              token == TokenAt(i, k)
              nbf == IF k \in Hops(i) THEN token.nbf ELSE None
  <2>0. ForEach(w, InvocationAt(w), error, "signature") /\ pc[w] = "window"
    BY <1>9 DEF CheckWindow
  <2>1. said.error = error /\ error # "Ok" /\ said.hop = k /\ k <= n + 1
    BY <1>1, <1>2, <2>0, RefusedInLoop
  <2>2. k \in 1 .. n + 1
    BY <1>1, <1>2, <2>0, <2>1 DEF HopsCounted
  <2>3. \/ error = "NotYetValid" /\ NotYetValid(nbf, now[w], Skew)
        \/ error = "Expired" /\ IsPast(token.exp, now[w], Skew)
    BY <2>1 DEF TimeError, WindowError
  <2>4. Fails(i, now[w], Skew, Me, error, k)
    <3>1. token.exp \in Expiry
      BY <1>1, <1>2, ChainType DEF TokenAt, Delegation, Invocation
    <3>2. /\ now[w] \in Int /\ Skew \in Nat /\ MaxTime \in Int
          /\ token.exp # Never => token.exp \in Int
      BY <1>1, <3>1, TimeAssumption, ValidatorAssumption DEF Timestamp, Expiry
    <3>3. \/ error = "NotYetValid" /\ nbf # None /\ now[w] < MinusSeconds(nbf, Skew)
          \/ /\ error = "Expired" /\ token.exp # Never
             /\ PlusSeconds(token.exp, Skew) < now[w]
      BY <2>3, <3>2 DEF NotYetValid, IsPast, PlusSeconds
    <3>. QED  BY <2>2, <3>3 DEF Fails
  <2>5. error \in {"NotYetValid", "Expired"}
    BY <2>3
  <2>. HIDE DEF error
  <2>. QED  BY <1>3, <2>0, <2>1, <2>4, <2>5, RowValues DEF Reasoned, RowOf, PositionOf
<1>10. CASE VerifySignature(w)
  <2>. DEFINE error == SignatureError(TokenAt(i, k))
  <2>0. ForEach(w, InvocationAt(w), error, "revocation") /\ pc[w] = "signature"
    BY <1>10 DEF VerifySignature
  <2>1. said.error = error /\ error # "Ok" /\ said.hop = k /\ k <= n + 1
    BY <1>1, <1>2, <2>0, RefusedInLoop
  <2>2. k \in 1 .. n + 1
    BY <1>1, <1>2, <2>0, <2>1 DEF HopsCounted
  <2>3. error \in {"Unresolvable", "BadSignature"} /\ Fails(i, now[w], Skew, Me, error, k)
    BY <2>1, <2>2 DEF SignatureError, Fails
  <2>. HIDE DEF error
  <2>. QED  BY <1>3, <2>0, <2>1, <2>3, RowValues DEF Reasoned, RowOf, PositionOf
<1>11. CASE AskRevocation(w)
  <2>. DEFINE error == RevocationError(i, k)
  <2>0. ForEach(w, InvocationAt(w) - 1, error, "policy") /\ pc[w] = "revocation"
    BY <1>11 DEF AskRevocation
  <2>1. said.error = error /\ error # "Ok" /\ said.hop = k
    BY <1>1, <2>0, RefusedInLoop
  <2>2. error = "Revoked"
    BY <2>1 DEF RevocationError
  <2>. HIDE DEF error
  <2>. QED  BY <1>3, <2>0, <2>1, <2>2, RowValues DEF Reasoned, RowOf, PositionOf
<1>12. CASE CheckPolicy(w)
  <2>. DEFINE error == PolicyError(ChainOf(i)[k], Invocations[i].args)
  <2>0. ForEach(w, InvocationAt(w) - 1, error, "executor") /\ pc[w] = "policy"
    BY <1>12 DEF CheckPolicy
  <2>1. said.error = error /\ error # "Ok" /\ said.hop = k /\ k <= n
    BY <1>1, <1>2, <2>0, RefusedInLoop
  <2>2. k \in Hops(i)
    BY <1>1, <1>2, <2>0, <2>1 DEF HopsCounted
  <2>3. error = "PolicyRejected" /\ Fails(i, now[w], Skew, Me, error, k)
    <3>1. TokenAt(i, k) = ChainOf(i)[k]
      BY <2>2 DEF TokenAt
    <3>. QED  BY <2>1, <2>2, <3>1 DEF PolicyError, Fails
  <2>. HIDE DEF error
  <2>. QED  BY <1>3, <2>0, <2>1, <2>3, RowValues DEF Reasoned, RowOf, PositionOf
<1>13. CASE CheckExecutor(w)
  <2>. DEFINE error == ExecutorError(i)
  <2>0. Once(w, error, 0, "replay") /\ pc[w] = "executor"
    BY <1>13 DEF CheckExecutor
  <2>1. said.error = error /\ error # "Ok" /\ said.hop = 0
    BY <2>0, RefusedOnce
  <2>2. error = "WrongExecutor" /\ Fails(i, now[w], Skew, Me, error, 0)
    BY <2>1 DEF ExecutorError, Fails, SamePrincipal
  <2>. HIDE DEF error
  <2>. QED  BY <1>3, <2>0, <2>1, <2>2, RowValues DEF Reasoned, RowOf, PositionOf
<1>14. CASE Record(w)
  <2>1. Refuse(w, "Replay", 0) /\ pc[w] = "replay"
    BY <1>14 DEF Record, Proceed, TypeOK
  <2>2. said.error = "Replay" /\ said.hop = 0
    BY <2>1 DEF Refuse, TypeOK
  <2>. QED  BY <1>3, <2>1, <2>2, RowValues DEF Reasoned, RowOf, PositionOf
<1>. QED
  BY <1>4, <1>5, <1>6, <1>7, <1>8, <1>9, <1>10, <1>11, <1>12, <1>13, <1>14 DEF Step

LEMMA HopsCountedNext == TypeOK /\ HopsCounted /\ [Next]_vars => HopsCounted'
<1>. SUFFICES ASSUME TypeOK, HopsCounted, [Next]_vars, NEW w \in Worker
              PROVE  \/ pc'[w] \in {"closed", "ready", "limit", "rejected"}
                     \/ hop'[w] >= 1
  BY DEF HopsCounted
<1>0. pc[w] \in {"closed", "ready", "limit", "rejected"} \/ hop[w] >= 1
  BY DEF HopsCounted
<1>1. ASSUME NEW v \in Worker, Step(v)
      PROVE  pc'[w] \in {"closed", "ready", "limit", "rejected"} \/ hop'[w] >= 1
  <2>1. CASE v = w
    <3>1. Moves(w) /\ hop[w] \in Nat
      BY <1>1, <2>1, StepMoves DEF TypeOK
    <3>. QED  BY <1>0, <3>1 DEF Moves
  <2>2. CASE v # w
    BY <1>0, <1>1, <2>2, StepControl DEF Control, TypeOK
  <2>. QED  BY <2>1, <2>2
<1>2. ASSUME NEW v \in Worker, Return(v) \/ Close(v) \/ (\E t \in Timestamp : New(v, t))
                                \/ (\E i \in InvCid : Validate(v, i))
      PROVE  pc'[w] \in {"closed", "ready", "limit", "rejected"} \/ hop'[w] >= 1
  BY <1>0, <1>2 DEF Return, Close, New, Validate, TypeOK
<1>3. ASSUME UNCHANGED local
      PROVE  pc'[w] \in {"closed", "ready", "limit", "rejected"} \/ hop'[w] >= 1
  BY <1>0, <1>3 DEF local
<1>. QED
  BY <1>1, <1>2, <1>3 DEF Next, vars, Tick, InsertProof, RemoveProof, Revoke, PruneProofs,
     PruneRevocations, PruneSeen

RefusalsReasoned ==
  \A w \in Worker : pc[w] = "rejected" =>
    Reasoned(inv[w], now[w], outcome[w].error, outcome[w].hop)

LEMMA RefusalsNext ==
  TypeOK /\ EstablishedInv /\ HopsCounted /\ RefusalsReasoned /\ [Next]_vars
    => RefusalsReasoned'
<1>. SUFFICES ASSUME TypeOK, EstablishedInv, HopsCounted, RefusalsReasoned, [Next]_vars,
                     NEW w \in Worker, pc'[w] = "rejected"
              PROVE  Reasoned(inv'[w], now'[w], outcome'[w].error, outcome'[w].hop)
  BY DEF RefusalsReasoned, Reasoned, NothingBefore
<1>0. ASSUME pc'[w] = pc[w], inv'[w] = inv[w], now'[w] = now[w], outcome'[w] = outcome[w]
      PROVE  Reasoned(inv'[w], now'[w], outcome'[w].error, outcome'[w].hop)
  BY <1>0 DEF RefusalsReasoned
<1>1. ASSUME NEW v \in Worker, Step(v)
      PROVE  Reasoned(inv'[w], now'[w], outcome'[w].error, outcome'[w].hop)
  <2>0. inv' = inv /\ now' = now
    BY <1>1, StepControl DEF Kept, Record
  <2>1. CASE v = w
    <3>1. Passing(w)
      BY <1>1, <2>1, StepControl DEF TypeOK, EstablishedInv
    <3>. QED  BY <1>1, <2>0, <2>1, <3>1, StepIsReasoned
  <2>2. CASE v # w
    BY <1>0, <1>1, <2>0, <2>2, StepControl DEF Control, TypeOK
  <2>. QED  BY <2>1, <2>2
<1>2. ASSUME NEW v \in Worker, Return(v) \/ Close(v) \/ (\E t \in Timestamp : New(v, t))
                                \/ (\E i \in InvCid : Validate(v, i))
      PROVE  Reasoned(inv'[w], now'[w], outcome'[w].error, outcome'[w].hop)
  BY <1>0, <1>2 DEF Return, Close, New, Validate, TypeOK
<1>3. ASSUME UNCHANGED local
      PROVE  Reasoned(inv'[w], now'[w], outcome'[w].error, outcome'[w].hop)
  BY <1>0, <1>3 DEF local
<1>. QED
  BY <1>1, <1>2, <1>3 DEF Next, vars, Tick, InsertProof, RemoveProof, Revoke, PruneProofs,
     PruneRevocations, PruneSeen

\* The error validate returns is the first the chain has, in the order of the
\* documented table but for the one walk of the linkage checks, and at the first
\* position that has it, for chains of every length and whatever the stores say.
THEOREM RefusalNamesTheFirst == Spec => []RefusalIsEarliest
<1>1. Init => HopsCounted /\ RefusalsReasoned
  BY DEF Init, HopsCounted, RefusalsReasoned
<1>2. RefusalsReasoned => RefusalIsEarliest
  BY DEF RefusalsReasoned, RefusalIsEarliest, Reasoned, NothingBefore, IsEarliest, Row
<1>. QED
  BY <1>1, <1>2, TypeInit, TypeNext, EstablishedInit, EstablishedNext, HopsCountedNext,
     RefusalsNext, PTL DEF Spec

----------------------------------------------------------------------------
(* The stores.  Every theorem here needs PrunesLate: the skew given to     *)
(* prune_expired outlasts the skew tokens are judged with, by as much as   *)
(* the clock of any caller may lag.  Without it MCReplay.cfg shows a       *)
(* replay.                                                                 *)

PrunesLate == PruneSkew >= Skew + Lag

----------------------------------------------------------------------------
(* Time only moves forward, so what is dead stays dead.                    *)

LEMMA PrunedIsDead ==
  ASSUME TypeOK, PrunesLate, NEW t \in Timestamp, MayPrune(t),
         NEW exp \in Expiry, IsPast(exp, t, PruneSkew)
  PROVE  Dead(exp)
<1>1. /\ clock \in Int /\ t \in Int /\ exp \in Int /\ MaxTime \in Int
      /\ t <= MaxTime /\ t <= clock
      /\ Lag \in Nat /\ Skew \in Nat /\ PruneSkew \in Nat
      /\ exp # Never
  BY TimeAssumption, ValidatorAssumption DEF TypeOK, Timestamp, Expiry, IsPast, MayPrune
<1>2. exp + PruneSkew < t
  BY <1>1 DEF IsPast, PlusSeconds
<1>. SUFFICES ASSUME NEW u \in Timestamp,
                     clock - Lag <= u \/ (\E w \in Worker : Open(w) /\ now[w] = u)
              PROVE  IsPast(exp, u, Skew)
  BY DEF Dead
<1>3. u \in Int
  BY DEF Timestamp
<1>4. t - Lag <= u
  <2>1. CASE clock - Lag <= u
    BY <1>1, <1>3, <2>1
  <2>2. CASE \E w \in Worker : Open(w) /\ now[w] = u
    <3>1. PICK w \in Worker : Open(w) /\ now[w] = u
      BY <2>2
    <3>2. t - now[w] <= Lag
      BY <3>1 DEF MayPrune
    <3>. QED  BY <1>1, <1>3, <3>1, <3>2
  <2>. QED  BY <2>1, <2>2
<1>5. exp + Skew < u /\ exp + Skew <= MaxTime
  BY <1>1, <1>2, <1>3, <1>4 DEF PrunesLate
<1>. QED  BY <1>1, <1>3, <1>5 DEF IsPast, PlusSeconds

\* A Validator made later reads a time no earlier than what already was dead.
LEMMA DeadForever ==
  ASSUME TypeOK, [Next]_vars, NEW exp \in Expiry, Dead(exp)
  PROVE  Dead(exp)'
<1>1. clock \in Int /\ Lag \in Nat /\ clock' \in Int /\ clock <= clock'
  <2>1. clock \in Int /\ Lag \in Nat
    BY ValidatorAssumption DEF TypeOK, Timestamp
  <2>2. clock' = clock \/ clock' = clock + 1
    BY StepControl DEF Next, Kept, Record, Return, Close, New, Validate, Tick, InsertProof,
       RemoveProof, Revoke, PruneProofs, PruneRevocations, PruneSeen, shared, vars
  <2>. QED  BY <2>1, <2>2
<1>2. ASSUME NEW w \in Worker, Open(w)'
      PROVE  (Open(w) /\ now'[w] = now[w]) \/ clock - Lag <= now'[w]
  <2>1. ASSUME NEW v \in Worker, Step(v) PROVE Open(w) /\ now'[w] = now[w]
    <3>1. now' = now /\ pc[v] # "closed" /\ Control(v)
      BY <2>1, StepControl DEF Kept, Record
    <3>. QED  BY <1>2, <3>1 DEF Open, Control, TypeOK
  <2>2. ASSUME NEW v \in Worker, Return(v) \/ Close(v) \/ (\E i \in InvCid : Validate(v, i))
        PROVE  Open(w) /\ now'[w] = now[w]
    BY <1>2, <2>2 DEF Open, Return, Close, Validate, TypeOK
  <2>3. ASSUME NEW v \in Worker, NEW t \in Timestamp, New(v, t)
        PROVE  (Open(w) /\ now'[w] = now[w]) \/ clock - Lag <= now'[w]
    BY <1>2, <2>3 DEF Open, New, Reading, TypeOK
  <2>4. CASE UNCHANGED local
    BY <1>2, <2>4 DEF Open, local
  <2>. QED
    BY <2>1, <2>2, <2>3, <2>4 DEF Next, Tick, InsertProof, RemoveProof, Revoke, PruneProofs,
       PruneRevocations, PruneSeen, vars
<1>. SUFFICES ASSUME NEW u \in Timestamp,
                     clock' - Lag <= u \/ (\E w \in Worker : Open(w)' /\ now'[w] = u)
              PROVE  IsPast(exp, u, Skew)
  BY DEF Dead
<1>3. u \in Int
  BY DEF Timestamp
<1>4. clock - Lag <= u \/ (\E w \in Worker : Open(w) /\ now[w] = u)
  BY <1>1, <1>2, <1>3
<1>. QED  BY <1>4 DEF Dead

LEMMA Expiries ==
  /\ \A c \in Cid : Delegations[c].exp \in Expiry
  /\ \A i \in InvCid : Invocations[i].exp \in Expiry
  /\ \A l \in Link : Resolves[l] \in Cid
BY TokensAssumption DEF Delegation, Invocation

\* What leaves a store on its own is dead: removal is the caller's doing.
LEMMA DropsOnlyDead ==
  ASSUME TypeOK, PrunesLate, [Next]_vars
  PROVE  /\ \A l \in (held \ Movable) \ held' : Dead(Delegations[Resolves[l]].exp)
         /\ \A r \in revoked \ revoked' : Dead(Delegations[r[1]].exp)
         /\ \A i \in seen \ seen' : Dead(Invocations[i].exp)
<1>1. ASSUME NEW t \in Timestamp, PruneProofs(t), NEW l \in held \ held'
      PROVE  Dead(Delegations[Resolves[l]].exp)
  BY <1>1, Expiries, PrunedIsDead DEF PruneProofs, TypeOK
<1>2. ASSUME NEW t \in Timestamp, PruneRevocations(t), NEW r \in revoked \ revoked'
      PROVE  Dead(Delegations[r[1]].exp)
  <2>1. r[1] \in Cid
    BY DEF TypeOK
  <2>. QED  BY <1>2, <2>1, Expiries, PrunedIsDead DEF PruneRevocations
<1>3. ASSUME NEW t \in Timestamp, PruneSeen(t), NEW i \in seen \ seen'
      PROVE  Dead(Invocations[i].exp)
  BY <1>3, Expiries, PrunedIsDead DEF PruneSeen, TypeOK
<1>4. CASE UNCHANGED <<held, revoked, seen>>
  BY <1>4
<1>5. ASSUME NEW l \in Link, InsertProof(l) \/ RemoveProof(l)
      PROVE  held \ held' \subseteq Movable /\ UNCHANGED <<revoked, seen>>
  BY <1>5 DEF InsertProof, RemoveProof
<1>6. ASSUME (\E w \in Worker : Record(w)) \/ (\E r \in Arrivals : Revoke(r))
      PROVE  UNCHANGED held /\ revoked \subseteq revoked' /\ seen \subseteq seen'
  BY <1>6 DEF Record, Revoke
<1>7. ASSUME NEW w \in Worker,
             Step(w) \/ Return(w) \/ Close(w) \/ (\E t \in Timestamp : New(w, t))
               \/ (\E i \in InvCid : Validate(w, i))
      PROVE  UNCHANGED <<held, revoked, seen>> \/ Record(w)
  BY <1>7, StepControl DEF Kept, Return, Close, New, Validate, shared
<1>8. ASSUME Tick \/ UNCHANGED vars PROVE UNCHANGED <<held, revoked, seen>>
  BY <1>8 DEF Tick, vars, shared
<1>9. ASSUME NEW t \in Timestamp
      PROVE  /\ PruneProofs(t) => UNCHANGED <<revoked, seen>>
             /\ PruneRevocations(t) => UNCHANGED <<held, seen>>
             /\ PruneSeen(t) => UNCHANGED <<held, revoked>>
  BY DEF PruneProofs, PruneRevocations, PruneSeen
<1>. QED
  BY <1>1, <1>2, <1>3, <1>4, <1>5, <1>6, <1>7, <1>8, <1>9 DEF Next

\* Pruning changes no decision: what it drops, no Validator, running or still to
\* be made, would accept.
THEOREM PruningChangesNothing ==
  ASSUME PrunesLate
  PROVE  Spec => DroppedIsDead
<1>. DEFINE Dropped ==
       /\ \A l \in (held \ Movable) \ held' : Dead(Delegations[Resolves[l]].exp)
       /\ \A r \in revoked \ revoked' : Dead(Delegations[r[1]].exp)
       /\ \A i \in seen \ seen' : Dead(Invocations[i].exp)
<1>1. TypeOK /\ [Next]_vars => [Dropped]_vars
  BY DropsOnlyDead
<1>. QED
  BY <1>1, TypeInit, TypeNext, PTL DEF Spec, DroppedIsDead

----------------------------------------------------------------------------
(* Replay.  The guard remembers an accepted invocation or the invocation   *)
(* has expired for good, which a second validate would find first.         *)

RememberedInv ==
  \A i \in InvCid : /\ executions[i] <= 1
                    /\ executions[i] = 1 => i \in seen \/ Dead(Invocations[i].exp)

\* An invocation that reaches the guard is within its window, so not dead.
LEMMA AliveAtReplay ==
  ASSUME TypeOK, EstablishedInv, NEW w \in Worker, pc[w] = "replay"
  PROVE  ~Dead(Invocations[inv[w]].exp)
<1>1. inv[w] \in InvCid /\ now[w] \in Timestamp /\ Open(w)
  BY DEF TypeOK, Open
<1>. DEFINE exp == Invocations[inv[w]].exp
<1>2. InWindow(Invocations[inv[w]], None, now[w], Skew)
  BY ReplayHasPassed DEF PastExecutor, Authorized, Timely
<1>3. now[w] \in Int /\ exp \in Expiry /\ (exp # Never => PlusSeconds(exp, Skew) \in Int)
  BY <1>1, Expiries, TimeAssumption, ValidatorAssumption DEF Timestamp, Expiry, PlusSeconds
<1>4. ~IsPast(exp, now[w], Skew)
  BY <1>2, <1>3 DEF InWindow, IsPast
<1>. QED  BY <1>1, <1>4 DEF Dead

LEMMA RememberedNext ==
  ASSUME PrunesLate, TypeOK, EstablishedInv, RememberedInv, [Next]_vars
  PROVE  RememberedInv'
<1>. SUFFICES ASSUME NEW i \in InvCid
              PROVE  /\ executions'[i] <= 1
                     /\ executions'[i] = 1 => i \in seen' \/ Dead(Invocations[i].exp)'
  BY DEF RememberedInv
<1>1. executions[i] \in Nat /\ Invocations[i].exp \in Expiry
  BY Expiries DEF TypeOK
<1>2. Dead(Invocations[i].exp) => Dead(Invocations[i].exp)'
  BY <1>1, DeadForever
<1>3. CASE executions'[i] = executions[i]
  <2>1. i \in seen => i \in seen' \/ Dead(Invocations[i].exp)
    BY DropsOnlyDead
  <2>. QED  BY <1>2, <1>3, <2>1 DEF RememberedInv
<1>4. CASE executions'[i] # executions[i]
  <2>1. PICK w \in Worker : Record(w)
    BY <1>4, StepControl DEF Next, Kept, Return, Close, New, Validate, Tick, InsertProof,
       RemoveProof, Revoke, PruneProofs, PruneRevocations, PruneSeen, shared, vars
  <2>2. /\ pc[w] = "replay" /\ inv[w] = i /\ i \notin seen /\ i \in seen'
        /\ executions'[i] = executions[i] + 1
    BY <1>4, <2>1 DEF Record, TypeOK
  <2>3. executions[i] = 0
    BY <1>1, <2>2, AliveAtReplay DEF RememberedInv
  <2>. QED  BY <2>2, <2>3
<1>. QED  BY <1>3, <1>4

\* An invocation is accepted at most once, by however many workers share the
\* guard, and however it is pruned meanwhile.
THEOREM AcceptanceIsOnce ==
  ASSUME PrunesLate
  PROVE  Spec => []AcceptedAtMostOnce
<1>1. Init => RememberedInv
  BY DEF Init, RememberedInv
<1>2. TypeOK /\ EstablishedInv /\ RememberedInv /\ [Next]_vars => RememberedInv'
  BY RememberedNext
<1>3. RememberedInv => AcceptedAtMostOnce
  BY DEF RememberedInv, AcceptedAtMostOnce
<1>. QED
  BY <1>1, <1>2, <1>3, TypeInit, TypeNext, EstablishedInit, EstablishedNext, PTL DEF Spec

----------------------------------------------------------------------------
(* Revocation.  A recorded revocation is still recorded, or the delegation *)
(* it revokes has expired for good, which the window check found first.    *)

RevokedOrDead == \A r \in everRevoked : r \in revoked \/ Dead(Delegations[r[1]].exp)

DoomedInv ==
  \A w \in Worker :
    /\ doomed[w] # {} => inv[w] # None
    /\ inv[w] # None => /\ doomed[w] \subseteq ReachedHops(everRevoked, inv[w])
                        /\ \A k \in doomed[w] : ~RevocationCleared(w, k)

\* A hop whose revocation is asked about has passed its window check.
LEMMA AliveAtRevocation ==
  ASSUME TypeOK, EstablishedInv, NEW w \in Worker, pc[w] = "revocation",
         NEW k \in Hops(inv[w])
  PROVE  ~Dead(Delegations[CidAt(inv[w], k)].exp)
<1>1. /\ inv[w] \in InvCid /\ inv[w] # None /\ now[w] \in Timestamp /\ Open(w)
  BY ValidatorAssumption DEF TypeOK, Open
<1>. DEFINE d == Delegations[CidAt(inv[w], k)]
<1>2. /\ k \in 1 .. InvocationAt(w)
      /\ TokenAt(inv[w], k) = d /\ d \in Delegation
  BY <1>1, ChainType DEF InvocationAt, Hops, TokenAt
<1>3. TimeError(inv[w], k, now[w], Skew) = "Ok"
  BY <1>1, <1>2 DEF EstablishedInv, Passing, WindowCleared, Cleared, PastWindow, PastSignature
<1>4. ~IsPast(d.exp, now[w], Skew)
  BY <1>2, <1>3 DEF TimeError, WindowError
<1>. QED  BY <1>1, <1>4 DEF Dead

LEMMA ReachGrows ==
  ASSUME NEW S, NEW T, S \subseteq T, NEW i
  PROVE  ReachedHops(S, i) \subseteq ReachedHops(T, i)
BY DEF ReachedHops

LEMMA RevokedOrDeadNext ==
  ASSUME PrunesLate, TypeOK, RevokedOrDead, [Next]_vars
  PROVE  RevokedOrDead' /\ everRevoked \subseteq everRevoked'
<1>1. \A r \in everRevoked : r[1] \in Cid
  BY DEF TypeOK
<1>2. CASE UNCHANGED everRevoked
  <2>1. ASSUME NEW r \in everRevoked PROVE r \in revoked' \/ Dead(Delegations[r[1]].exp)'
    <3>1. r \in revoked' \/ Dead(Delegations[r[1]].exp)
      BY DropsOnlyDead DEF RevokedOrDead
    <3>2. Delegations[r[1]].exp \in Expiry
      BY <1>1, Expiries
    <3>. QED  BY <3>1, <3>2, DeadForever
  <2>. QED  BY <1>2, <2>1 DEF RevokedOrDead
<1>3. CASE \E r \in Arrivals : Revoke(r)
  <2>1. PICK s \in Arrivals : Revoke(s)
    BY <1>3
  <2>2. revoked' = revoked \cup {s} /\ everRevoked' = everRevoked \cup {s}
    BY <2>1 DEF Revoke
  <2>3. ASSUME NEW r \in everRevoked' PROVE r \in revoked' \/ Dead(Delegations[r[1]].exp)'
    <3>1. CASE r = s
      BY <2>2, <3>1
    <3>2. CASE r \in everRevoked
      <4>1. Delegations[r[1]].exp \in Expiry
        BY <1>1, <3>2, Expiries
      <4>. QED  BY <2>2, <3>2, <4>1, DeadForever DEF RevokedOrDead
    <3>. QED  BY <2>2, <3>1, <3>2
  <2>. QED  BY <2>2, <2>3 DEF RevokedOrDead
<1>. QED
  BY <1>2, <1>3, StepControl DEF Next, Kept, Record, Return, Close, New, Validate, Tick,
     InsertProof, RemoveProof, PruneProofs, PruneRevocations, PruneSeen, shared, vars

\* Asking about a doomed hop finds it revoked.
LEMMA DoomedIsFound ==
  ASSUME TypeOK, EstablishedInv, RevokedOrDead, NEW w \in Worker, pc[w] = "revocation",
         NEW k \in ReachedHops(everRevoked, inv[w])
  PROVE  RevocationError(inv[w], k) = "Revoked"
<1>1. PICK r \in everRevoked :
        /\ r[1] = CidAt(inv[w], k)
        /\ r[2] \in {ChainOf(inv[w])[j].iss.base : j \in Hops(inv[w])} \cup {Everywhere}
  BY DEF ReachedHops, CidAt
<1>2. /\ k \in Hops(inv[w])
      /\ r = <<r[1], r[2]>> /\ r[2] \in Principal \cup {Everywhere}
  BY <1>1 DEF ReachedHops, TypeOK
<1>3. r \in revoked
  BY <1>1, <1>2, AliveAtRevocation DEF RevokedOrDead
<1>4. r[2] \in Issuers(ChainOf(inv[w])) \cup {Everywhere}
  <2>1. inv[w] \in InvCid
    BY <1>2, AliveAtRevocation DEF TypeOK
  <2>2. DOMAIN ChainOf(inv[w]) = Hops(inv[w])
    BY <2>1, ChainType DEF ChainOf
  <2>. QED  BY <1>1, <2>2 DEF Issuers
<1>5. IsRevoked(revoked, CidAt(inv[w], k), Issuers(ChainOf(inv[w])))
  BY <1>1, <1>2, <1>3, <1>4 DEF IsRevoked
<1>. QED  BY <1>5 DEF RevocationError

LEMMA DoomedNext ==
  ASSUME PrunesLate, TypeOK, EstablishedInv, RevokedOrDead, DoomedInv, [Next]_vars
  PROVE  DoomedInv'
<1>. DEFINE D(w) == /\ doomed[w] # {} => inv[w] # None
                    /\ inv[w] # None => /\ doomed[w] \subseteq ReachedHops(everRevoked, inv[w])
                                        /\ \A k \in doomed[w] : ~RevocationCleared(w, k)
<1>1. everRevoked \subseteq everRevoked'
  BY RevokedOrDeadNext
<1>. SUFFICES ASSUME NEW w \in Worker PROVE D(w)'
  BY DEF DoomedInv
<1>2. D(w)
  BY DEF DoomedInv
<1>3. ASSUME UNCHANGED <<pc[w], hop[w], inv[w], doomed[w]>> PROVE D(w)'
  BY <1>1, <1>2, <1>3, ReachGrows DEF RevocationCleared, Cleared
<1>4. ASSUME NEW v \in Worker, Step(v) PROVE D(w)'
  <2>1. inv' = inv /\ doomed' = doomed /\ Control(v) /\ pc[v] \notin {"closed", "ready"}
    BY <1>4, StepControl DEF Kept, Record
  <2>2. CASE v # w
    BY <1>3, <2>1, <2>2 DEF Control, TypeOK
  <2>3. CASE v = w
    <3>1. inv[w] \in InvCid /\ inv[w] # None
      BY <2>1, <2>3, ValidatorAssumption DEF TypeOK
    <3>2. doomed[w] \subseteq ReachedHops(everRevoked, inv[w])
      BY <1>2, <3>1
    <3>3. ASSUME NEW k \in doomed[w], RevocationCleared(w, k)' PROVE FALSE
      <4>1. k \in ReachedHops(everRevoked, inv[w]) /\ k \in Hops(inv[w])
        BY <3>2 DEF ReachedHops
      <4>2. k \in 1 .. InvocationAt(w)
        BY <3>1, <4>1, ChainType DEF InvocationAt, Hops
      <4>3. pc[w] = "revocation" /\ RevocationError(inv[w], k) = "Ok"
        BY <1>2, <1>4, <2>3, <3>1, <3>3, <4>1, <4>2, StepClears
      <4>. QED  BY <4>1, <4>3, DoomedIsFound
    <3>. QED  BY <1>1, <2>1, <3>1, <3>2, <3>3, ReachGrows
  <2>. QED  BY <2>2, <2>3
<1>5. ASSUME NEW v \in Worker, NEW i \in InvCid, Validate(v, i) PROVE D(w)'
  <2>1. CASE v # w
    BY <1>3, <1>5, <2>1 DEF Validate, TypeOK
  <2>2. CASE v = w
    <3>1. /\ pc'[w] = "limit" /\ inv'[w] = i /\ i # None
          /\ doomed'[w] = ReachedHops(everRevoked, i)
          /\ everRevoked' = everRevoked
      BY <1>5, <2>2, ValidatorAssumption DEF Validate, shared, TypeOK
    <3>2. \A k : ~RevocationCleared(w, k)'
      BY <3>1 DEF RevocationCleared, Cleared, PastRevocation, PastPolicy, PastExecutor
    <3>. QED  BY <3>1, <3>2
  <2>. QED  BY <2>1, <2>2
<1>6. ASSUME NEW v \in Worker, Return(v) PROVE D(w)'
  <2>1. CASE v # w
    BY <1>3, <1>6, <2>1 DEF Return, TypeOK
  <2>2. CASE v = w
    BY <1>6, <2>2 DEF Return, TypeOK
  <2>. QED  BY <2>1, <2>2
<1>7. ASSUME NEW v \in Worker, Close(v) \/ (\E t \in Timestamp : New(v, t)) PROVE D(w)'
  <2>1. CASE v # w
    BY <1>3, <1>7, <2>1 DEF Close, New, TypeOK
  <2>2. CASE v = w
    <3>1. inv[w] = None /\ inv' = inv /\ doomed' = doomed
      BY <1>7, <2>2 DEF Close, New, TypeOK
    <3>. QED  BY <1>2, <3>1
  <2>. QED  BY <2>1, <2>2
<1>8. CASE UNCHANGED local
  BY <1>3, <1>8 DEF local
<1>. QED
  BY <1>4, <1>5, <1>6, <1>7, <1>8 DEF Next, Tick, InsertProof, RemoveProof, Revoke, PruneProofs,
     PruneRevocations, PruneSeen, vars

\* A chain a recorded revocation reached when validate began is never accepted,
\* though the record may have been pruned since, before the call or during it.
THEOREM RevocationStays ==
  ASSUME PrunesLate
  PROVE  Spec => []RevocationIsIrreversible
<1>1. Init => RevokedOrDead /\ DoomedInv
  BY DEF Init, RevokedOrDead, DoomedInv
<1>2. /\ TypeOK /\ EstablishedInv /\ RevokedOrDead /\ DoomedInv /\ [Next]_vars
         => RevokedOrDead' /\ DoomedInv'
  BY RevokedOrDeadNext, DoomedNext
<1>3. TypeOK /\ DoomedInv => RevocationIsIrreversible
  BY DEF DoomedInv, RevocationIsIrreversible, RevocationCleared, Cleared, PastRevocation,
         PastPolicy, PastExecutor, TypeOK
<1>. QED
  BY <1>1, <1>2, <1>3, TypeInit, TypeNext, EstablishedInit, EstablishedNext, PTL DEF Spec

----------------------------------------------------------------------------
(* The function, as twelve checks in a row.                                *)

\* In a loop, the first failure is what is reported.
LEMMA FirstFailure ==
  ASSUME NEW n \in Nat, NEW errors, DOMAIN errors = 1 .. n,
         NEW k \in 1 .. n, errors[k] # "Ok", \A j \in 1 .. n : j < k => errors[j] = "Ok"
  PROVE  FirstOf(errors) = errors[k]
<1>. DEFINE failed == {j \in DOMAIN errors : errors[j] # "Ok"}
            first == CHOOSE m \in failed : \A j \in failed : m <= j
<1>1. k \in failed /\ \A j \in failed : k <= j
  OBVIOUS
<1>2. first \in failed /\ \A j \in failed : first <= j
  BY <1>1
<1>3. first = k
  BY <1>1, <1>2
<1>. QED  BY <1>1, <1>3 DEF FirstOf

\* In a row of checks, likewise.
LEMMA FirstOfTwelve ==
  ASSUME NEW s, NEW answer,
         answer = (((((((((s[1] ?? s[2]) ?? ((s[3] ?? s[4]) ?? s[5])) ?? s[6]) ?? s[7])
                      ?? s[8]) ?? s[9]) ?? s[10]) ?? s[11]) ?? s[12])
  PROVE  /\ (\A l \in 1 .. 12 : s[l] = "Ok") => answer = "Ok"
         /\ \A m \in 1 .. 12 :
              s[m] # "Ok" /\ (\A l \in 1 .. 12 : l < m => s[l] = "Ok") => answer = s[m]
<1>. DEFINE p2 == s[1] ?? s[2]
            q4 == s[3] ?? s[4]
            q5 == q4 ?? s[5]
            p5 == p2 ?? q5
            p6 == p5 ?? s[6]
            p7 == p6 ?? s[7]
            p8 == p7 ?? s[8]
            p9 == p8 ?? s[9]
            p10 == p9 ?? s[10]
            p11 == p10 ?? s[11]
<1>1. \A a, b : (a = "Ok" => (a ?? b) = b) /\ (a # "Ok" => (a ?? b) = a)
  BY DEF ??
<1>2. /\ IF s[1] = "Ok" THEN p2 = s[2] ELSE p2 = s[1]
      /\ IF s[3] = "Ok" THEN q4 = s[4] ELSE q4 = s[3]
      /\ IF q4 = "Ok" THEN q5 = s[5] ELSE q5 = q4
      /\ IF p2 = "Ok" THEN p5 = q5 ELSE p5 = p2
      /\ IF p5 = "Ok" THEN p6 = s[6] ELSE p6 = p5
      /\ IF p6 = "Ok" THEN p7 = s[7] ELSE p7 = p6
      /\ IF p7 = "Ok" THEN p8 = s[8] ELSE p8 = p7
      /\ IF p8 = "Ok" THEN p9 = s[9] ELSE p9 = p8
      /\ IF p9 = "Ok" THEN p10 = s[10] ELSE p10 = p9
      /\ IF p10 = "Ok" THEN p11 = s[11] ELSE p11 = p10
      /\ IF p11 = "Ok" THEN answer = s[12] ELSE answer = p11
  BY <1>1
<1>. HIDE DEF p2, q4, q5, p5, p6, p7, p8, p9, p10, p11
<1>3. (\A l \in 1 .. 12 : s[l] = "Ok") => answer = "Ok"
  BY <1>2
<1>4. ASSUME NEW m \in 1 .. 12, s[m] # "Ok", \A l \in 1 .. 12 : l < m => s[l] = "Ok"
      PROVE  answer = s[m]
  <2>1. \/ m = 1 \/ m = 2 \/ m = 3 \/ m = 4 \/ m = 5 \/ m = 6 \/ m = 7 \/ m = 8
        \/ m = 9 \/ m = 10 \/ m = 11 \/ m = 12
    OBVIOUS
  <2>. QED  BY <1>2, <1>4, <2>1
<1>. QED  BY <1>3, <1>4

\* The loops of validate on w's invocation, hop by hop.
HeldOf(w) == [k \in Hops(inv[w]) |-> GetError(inv[w], k)]
SubjectsOf(w) ==
  [k \in Hops(inv[w]) |-> SubjectError(ChainOf(inv[w])[k], Invocations[inv[w]].sub)]
LinksOf(w) ==
  [k \in Hops(inv[w]) |-> LinkageError(ChainOf(inv[w])[k], TokenAt(inv[w], k + 1))]
WindowsOf(w) == [k \in Hops(inv[w]) |-> TimeError(inv[w], k, now[w], Skew)]
SignaturesOf(w) == [k \in Hops(inv[w]) |-> SignatureError(TokenAt(inv[w], k))]
RevocationsOf(w) == [k \in Hops(inv[w]) |-> RevocationError(inv[w], k)]
PoliciesOf(w) ==
  [k \in Hops(inv[w]) |-> PolicyError(ChainOf(inv[w])[k], Invocations[inv[w]].args)]

Checks(w) ==
  << LimitError(inv[w]),
     FirstOf(HeldOf(w)),
     RootError(ChainOf(inv[w]), Invocations[inv[w]].sub),
     FirstOf(SubjectsOf(w)),
     FirstOf(LinksOf(w)),
     FirstOf(WindowsOf(w)),
     TimeError(inv[w], InvocationAt(w), now[w], Skew),
     FirstOf(SignaturesOf(w)),
     SignatureError(Invocations[inv[w]]),
     FirstOf(RevocationsOf(w)),
     FirstOf(PoliciesOf(w)),
     ExecutorError(inv[w]) >>

LEMMA ComputedByChecks ==
  ASSUME TypeOK, NEW w \in Worker, inv[w] \in InvCid
  PROVE  /\ (\A l \in 1 .. 12 : Checks(w)[l] = "Ok") => ComputedError(w) = "Ok"
         /\ \A m \in 1 .. 12 :
              /\ Checks(w)[m] # "Ok"
              /\ \A l \in 1 .. 12 : l < m => Checks(w)[l] = "Ok"
              => ComputedError(w) = Checks(w)[m]
<1>. DEFINE i == inv[w]
            v == [now |-> now[w], skew |-> Skew, max |-> MaxProofs,
                  held |-> held, revoked |-> revoked]
            chain == ChainOf(i)
            n == Len(Invocations[i].prf)
            last == <<Invocations[i]>>
            cids == [k \in Hops(i) |-> CidAt(i, k)]
            s == Checks(w)
<1>1. /\ n \in Nat /\ Hops(i) = 1 .. n /\ DOMAIN Invocations[i].prf = Hops(i)
      /\ DOMAIN chain = Hops(i) /\ InvocationAt(w) = n + 1
      /\ n + 1 \notin Hops(i)
  <2>1. n \in Nat /\ Hops(i) = DOMAIN Invocations[i].prf
    BY ChainType
  <2>2. Hops(i) = 1 .. n /\ DOMAIN chain = DOMAIN Invocations[i].prf /\ InvocationAt(w) = n + 1
    BY DEF ChainOf, Hops, InvocationAt
  <2>. QED  BY <2>1, <2>2
<1>2. s[1] = ProofLimitError(v, n)
  BY DEF Checks, LimitError, ProofLimitError
<1>3. s[2] = HeldError(v, Invocations[i].prf)
  BY <1>1 DEF Checks, HeldOf, HeldError, GetError
<1>4. (s[3] ?? s[4]) ?? s[5] = StructureError(chain, Invocations[i].sub, last)
  <2>1. /\ Len(chain \o last) - 1 = n
        /\ \A k \in Hops(i) : (chain \o last)[k + 1] = TokenAt(i, k + 1)
    BY WalkedTokens
  <2>2. LinksOf(w) = [k \in 1 .. Len(chain \o last) - 1 |-> LinkageError(chain[k], (chain \o last)[k + 1])]
    BY <1>1, <2>1 DEF LinksOf
  <2>3. SubjectsOf(w) = [k \in DOMAIN chain |-> SubjectError(chain[k], Invocations[i].sub)]
    BY <1>1 DEF SubjectsOf
  <2>4. /\ s[3] = RootError(chain, Invocations[i].sub)
        /\ s[4] = FirstOf(SubjectsOf(w)) /\ s[5] = FirstOf(LinksOf(w))
    BY DEF Checks
  <2>. QED  BY <2>2, <2>3, <2>4 DEF StructureError
<1>5. s[6] = WindowsError(v, chain, n)
  <2>1. WindowsOf(w) = [k \in 1 .. n |-> WindowError(chain[k].nbf, chain[k].exp, v.now, v.skew)]
    BY <1>1 DEF WindowsOf, TimeError, TokenAt
  <2>. QED  BY <2>1 DEF Checks, WindowsError
<1>6. s[7] = InvocationWindowError(v, i)
  BY <1>1 DEF Checks, InvocationWindowError, TimeError, TokenAt
<1>7. s[8] = SignaturesError(chain)
  <2>1. SignaturesOf(w) = [k \in DOMAIN chain |-> SignatureError(chain[k])]
    BY <1>1 DEF SignaturesOf, TokenAt
  <2>. QED  BY <2>1 DEF Checks, SignaturesError
<1>8. s[9] = SignatureError(Invocations[i])
  BY DEF Checks
<1>9. s[10] = RevocationsError(v, cids, chain, n)
  <2>1. RevocationsOf(w) = [k \in 1 .. n |-> IF IsRevoked(v.revoked, cids[k], Issuers(chain))
                                           THEN "Revoked" ELSE "Ok"]
    BY <1>1 DEF RevocationsOf, RevocationError
  <2>. QED  BY <2>1 DEF Checks, RevocationsError
<1>10. /\ s[11] = FirstOf([k \in Hops(i) |-> PolicyError(chain[k], Invocations[i].args)])
       /\ s[12] = ExecutorError(i)
  BY DEF Checks, PoliciesOf
<1>11. ComputedError(w) =
         (((((((((s[1] ?? s[2]) ?? ((s[3] ?? s[4]) ?? s[5])) ?? s[6]) ?? s[7])
             ?? s[8]) ?? s[9]) ?? s[10]) ?? s[11]) ?? s[12])
  <2>1. ComputedError(w) = PipelineError(v, i) ?? ExecutorError(i)
    BY DEF ComputedError
  <2>2. PipelineError(v, i) =
         ((((((((ProofLimitError(v, n) ?? HeldError(v, Invocations[i].prf))
          ?? StructureError(chain, Invocations[i].sub, last))
          ?? WindowsError(v, chain, n)) ?? InvocationWindowError(v, i))
          ?? SignaturesError(chain)) ?? SignatureError(Invocations[i]))
          ?? RevocationsError(v, cids, chain, n))
          ?? FirstOf([k \in Hops(i) |-> PolicyError(chain[k], Invocations[i].args)]))
    BY DEF PipelineError
  <2>. HIDE DEF v, chain, last, cids, s, n
  <2>. QED  BY <1>2, <1>3, <1>4, <1>5, <1>6, <1>7, <1>8, <1>9, <1>10, <2>1, <2>2
<1>. HIDE DEF s
<1>12. /\ (\A l \in 1 .. 12 : s[l] = "Ok") => ComputedError(w) = "Ok"
       /\ \A m \in 1 .. 12 :
            s[m] # "Ok" /\ (\A l \in 1 .. 12 : l < m => s[l] = "Ok") => ComputedError(w) = s[m]
  BY <1>11, FirstOfTwelve
<1>. QED  BY <1>12 DEF s

----------------------------------------------------------------------------
(* What has passed when validate is where it is.  To Passing this adds what *)
(* the validator and its stores said, which stands while nobody writes them. *)

PastProofs == {"root"} \cup PastRoot
PastLimit == {"proofs"} \cup PastProofs

HeldCleared(w, k) == Cleared(w, "proofs", PastProofs, k)

Asked(w) ==
  /\ pc[w] \in PastLimit => LimitError(inv[w]) = "Ok"
  /\ \A k \in Hops(inv[w]) :
       /\ HeldCleared(w, k) => GetError(inv[w], k) = "Ok"
       /\ RevocationCleared(w, k) => RevocationError(inv[w], k) = "Ok"

AskedInv == \A w \in Worker : inv[w] # None => Asked(w)

LEMMA NothingChanges ==
  ASSUME ~Shared, NEW w \in Worker, pc[w] # "closed", [Next]_vars
  PROVE  UNCHANGED <<held, revoked>>
<1>1. ~Writable
  BY DEF Writable, Idle, Open
<1>2. ASSUME NEW v \in Worker, Step(v) PROVE UNCHANGED <<held, revoked>>
  BY <1>2 DEF Step, CheckLimit, GetProof, CheckRoot, CheckSubject, CheckLinkage, CheckWindow,
     VerifySignature, AskRevocation, CheckPolicy, CheckExecutor, Record, Kept, shared
<1>. QED
  BY <1>1, <1>2 DEF Next, vars, shared, Return, Close, New, Validate, Tick, InsertProof,
     RemoveProof, Revoke, PruneProofs, PruneRevocations, PruneSeen, MayPrune

LEMMA StepAsked ==
  ASSUME TypeOK, NEW w \in Worker, Step(w), Asked(w), UNCHANGED <<held, revoked>>
  PROVE  Asked(w)'
<1>. DEFINE i == inv[w]
<1>1. /\ i \in InvCid /\ inv'[w] = i
      /\ InvocationAt(w) \in Nat /\ Hops(i) = 1 .. InvocationAt(w) - 1
      /\ Moves(w)
  <2>1. i \in InvCid /\ inv' = inv
    BY StepControl DEF TypeOK, Kept, Record
  <2>. QED  BY <2>1, StepMoves, ChainType DEF InvocationAt, Hops
<1>2. ASSUME pc'[w] \in PastLimit PROVE LimitError(i) = "Ok"
  <2>1. CASE CheckLimit(w)
    <3>1. Once(w, LimitError(i), 0, "proofs") /\ pc[w] = "limit"
      BY <2>1 DEF CheckLimit
    <3>2. LimitError(i) # "Ok" => pc'[w] = "rejected"
      BY <3>1 DEF Once, Refuse, TypeOK
    <3>3. "rejected" \notin PastLimit
      BY DEF PastLimit, PastProofs, PastRoot, PastSubject, PastLinkage, PastWindow,
             PastSignature, PastRevocation, PastPolicy, PastExecutor
    <3>. QED  BY <1>2, <3>2, <3>3
  <2>2. CASE pc[w] # "limit"
    <3>1. pc[w] \in PastLimit
      BY <1>1, <1>2, <2>2 DEF Moves, Follows, PastLimit, PastProofs, PastRoot, PastSubject,
         PastLinkage, PastWindow, PastSignature, PastRevocation, PastPolicy, PastExecutor
    <3>. QED  BY <3>1 DEF Asked
  <2>. QED
    BY <2>1, <2>2 DEF Step, CheckLimit, GetProof, CheckRoot, CheckSubject, CheckLinkage,
       CheckWindow, VerifySignature, AskRevocation, CheckPolicy, CheckExecutor, Record
<1>3. ASSUME NEW k \in Hops(i), HeldCleared(w, k)' PROVE GetError(i, k) = "Ok"
  <2>1. CASE pc[w] # "proofs"
    <3>1. /\ "rejected" \notin PastProofs
          /\ \A f \in Follows : f[2] \in PastProofs => f[1] \in PastProofs \cup {"proofs"}
      BY DEF Follows, PastProofs, PastRoot, PastSubject, PastLinkage, PastWindow,
             PastSignature, PastRevocation, PastPolicy, PastExecutor
    <3>2. HeldCleared(w, k)
      BY <1>1, <1>3, <2>1, <3>1, OtherClears DEF HeldCleared
    <3>. QED  BY <3>2 DEF Asked
  <2>2. CASE pc[w] = "proofs"
    <3>1. GetProof(w)
      BY <2>2 DEF Step, CheckLimit, GetProof, CheckRoot, CheckSubject, CheckLinkage,
         CheckWindow, VerifySignature, AskRevocation, CheckPolicy, CheckExecutor, Record
    <3>. DEFINE error == GetError(i, hop[w])
    <3>2. ForEach(w, InvocationAt(w) - 1, error, "root")
      BY <3>1 DEF GetProof
    <3>3. "rejected" \notin PastProofs /\ "proofs" \notin PastProofs
      BY DEF PastProofs, PastRoot, PastSubject, PastLinkage, PastWindow,
             PastSignature, PastRevocation, PastPolicy, PastExecutor
    <3>4. k \in Nat /\ InvocationAt(w) - 1 \in Nat /\ k <= InvocationAt(w) - 1
      BY <1>1, <1>3
    <3>5. HeldCleared(w, k) \/ (k = hop[w] /\ error = "Ok")
      <4>. HIDE DEF error
      <4>. QED  BY <1>3, <2>2, <3>2, <3>3, <3>4, OwnClears DEF HeldCleared
    <3>. QED  BY <3>5 DEF Asked
  <2>. QED  BY <2>1, <2>2
<1>4. ASSUME NEW k \in Hops(i), RevocationCleared(w, k)' PROVE RevocationError(i, k) = "Ok"
  <2>1. k \in 1 .. InvocationAt(w)
    BY <1>1
  <2>. QED  BY <1>4, <2>1, StepClears DEF Asked
<1>5. \A k : GetError(i, k)' = GetError(i, k) /\ RevocationError(i, k)' = RevocationError(i, k)
  BY <1>1 DEF GetError, RevocationError
<1>6. (LimitError(inv[w]) = "Ok")' <=> LimitError(i) = "Ok"
  BY <1>1
<1>. QED  BY <1>1, <1>2, <1>3, <1>4, <1>5, <1>6 DEF Asked, GetError, RevocationError

LEMMA AskedNext ==
  ASSUME ~Shared, TypeOK, AskedInv, [Next]_vars
  PROVE  AskedInv'
<1>. SUFFICES ASSUME NEW w \in Worker, inv'[w] # None PROVE Asked(w)'
  BY DEF AskedInv
<1>0. ASSUME pc'[w] = pc[w], inv'[w] = inv[w], hop'[w] = hop[w] PROVE Asked(w)'
  <2>1. pc[w] # "closed"
    BY <1>0 DEF TypeOK
  <2>2. UNCHANGED <<held, revoked>>
    BY <2>1, NothingChanges
  <2>3. Asked(w)
    BY <1>0 DEF AskedInv
  <2>. QED
    BY <1>0, <2>2, <2>3 DEF Asked, GetError, RevocationError, HeldCleared, RevocationCleared,
       Cleared
<1>1. ASSUME NEW v \in Worker, Step(v) PROVE Asked(w)'
  <2>1. CASE v = w
    <3>1. inv[w] # None /\ pc[w] # "closed"
      BY <1>1, <2>1, StepControl DEF TypeOK
    <3>. QED  BY <1>1, <2>1, <3>1, NothingChanges, StepAsked DEF AskedInv
  <2>2. CASE v # w
    <3>1. pc'[w] = pc[w] /\ inv'[w] = inv[w] /\ hop'[w] = hop[w]
      BY <1>1, <2>2, StepControl DEF Control, Kept, Record, TypeOK
    <3>. QED  BY <1>0, <3>1
  <2>. QED  BY <2>1, <2>2
<1>2. ASSUME NEW v \in Worker, NEW i \in InvCid, Validate(v, i) PROVE Asked(w)'
  <2>1. CASE v = w
    <3>1. pc'[w] = "limit"
      BY <1>2, <2>1 DEF Validate, TypeOK
    <3>. QED
      BY <3>1 DEF Asked, HeldCleared, RevocationCleared, Cleared, PastLimit, PastProofs,
         PastRoot, PastSubject, PastLinkage, PastWindow, PastSignature, PastRevocation,
         PastPolicy, PastExecutor
  <2>2. CASE v # w
    BY <1>0, <1>2, <2>2 DEF Validate, TypeOK
  <2>. QED  BY <2>1, <2>2
<1>3. ASSUME NEW v \in Worker, Return(v) \/ Close(v) \/ (\E t \in Timestamp : New(v, t))
      PROVE  Asked(w)'
  <2>1. CASE v = w
    <3>1. inv'[w] = None
      BY <1>3, <2>1 DEF Return, Close, New, TypeOK
    <3>. QED  BY <3>1
  <2>2. CASE v # w
    BY <1>0, <1>3, <2>2 DEF Return, Close, New, TypeOK
  <2>. QED  BY <2>1, <2>2
<1>4. ASSUME UNCHANGED local PROVE Asked(w)'
  BY <1>0, <1>4 DEF local
<1>. QED
  BY <1>1, <1>2, <1>3, <1>4 DEF Next, vars, Tick, InsertProof, RemoveProof, Revoke,
     PruneProofs, PruneRevocations, PruneSeen

----------------------------------------------------------------------------
(* The answer.                                                             *)

\* A loop along the hops that has gone by all of them reports nothing; at its
\* first failure it reports that.
LEMMA LoopReports ==
  ASSUME NEW i \in InvCid, NEW errors, DOMAIN errors = Hops(i), NEW k,
         \A j \in Hops(i) : j < k => errors[j] = "Ok"
  PROVE  /\ k \in Hops(i) /\ errors[k] # "Ok" => FirstOf(errors) = errors[k]
         /\ (\A j \in Hops(i) : j < k) => FirstOf(errors) = "Ok"
<1>1. /\ Len(Invocations[i].prf) \in Nat
      /\ Hops(i) = 1 .. Len(Invocations[i].prf)
  BY ChainType DEF Hops
<1>2. ASSUME k \in Hops(i), errors[k] # "Ok" PROVE FirstOf(errors) = errors[k]
  BY <1>1, <1>2, FirstFailure
<1>3. ASSUME \A j \in Hops(i) : j < k PROVE FirstOf(errors) = "Ok"
  BY <1>3, NothingFailed
<1>. QED  BY <1>2, <1>3

\* The checks that lie behind validate.
LEMMA ChecksPassed ==
  ASSUME TypeOK, NEW w \in Worker, inv[w] # None, Passing(w), Asked(w)
  PROVE  /\ pc[w] \in PastLimit => Checks(w)[1] = "Ok"
         /\ pc[w] \in PastProofs => Checks(w)[2] = "Ok"
         /\ pc[w] \in PastRoot => Checks(w)[3] = "Ok"
         /\ pc[w] \in PastSubject => Checks(w)[4] = "Ok"
         /\ pc[w] \in PastLinkage => Checks(w)[5] = "Ok"
         /\ pc[w] \in PastWindow => Checks(w)[6] = "Ok" /\ Checks(w)[7] = "Ok"
         /\ pc[w] \in PastSignature => Checks(w)[8] = "Ok" /\ Checks(w)[9] = "Ok"
         /\ pc[w] \in PastRevocation => Checks(w)[10] = "Ok"
         /\ pc[w] \in PastPolicy => Checks(w)[11] = "Ok"
         /\ pc[w] \in PastExecutor => Checks(w)[12] = "Ok"
<1>. DEFINE i == inv[w]
            n == Len(Invocations[i].prf)
<1>1. /\ i \in InvCid /\ n \in Nat /\ Hops(i) = 1 .. n /\ InvocationAt(w) = n + 1
      /\ Hops(i) \subseteq 1 .. n + 1 /\ n + 1 \in 1 .. n + 1 /\ n + 1 \notin Hops(i)
  <2>1. i \in InvCid
    BY DEF TypeOK
  <2>2. n \in Nat /\ Hops(i) = 1 .. n /\ InvocationAt(w) = n + 1
    BY <2>1, ChainType DEF Hops, InvocationAt
  <2>. QED  BY <2>1, <2>2
<1>2. pc[w] \in PastLimit => Checks(w)[1] = "Ok"
  BY DEF Asked, Checks
<1>3. ASSUME pc[w] \in PastProofs PROVE Checks(w)[2] = "Ok"
  <2>1. \A k \in DOMAIN HeldOf(w) : HeldOf(w)[k] = "Ok"
    BY <1>3 DEF Asked, HeldOf, HeldCleared, Cleared
  <2>. QED  BY <2>1, NothingFailed DEF Checks
<1>4. pc[w] \in PastRoot => Checks(w)[3] = "Ok"
  BY DEF Passing, Checks
<1>5. ASSUME pc[w] \in PastSubject PROVE Checks(w)[4] = "Ok"
  <2>1. \A k \in DOMAIN SubjectsOf(w) : SubjectsOf(w)[k] = "Ok"
    BY <1>5 DEF Passing, SubjectsOf, SubjectCleared, Cleared
  <2>. QED  BY <2>1, NothingFailed DEF Checks
<1>6. ASSUME pc[w] \in PastLinkage PROVE Checks(w)[5] = "Ok"
  <2>1. \A k \in DOMAIN LinksOf(w) : LinksOf(w)[k] = "Ok"
    BY <1>6 DEF Passing, LinksOf, LinkageCleared, Cleared
  <2>. QED  BY <2>1, NothingFailed DEF Checks
<1>7. ASSUME pc[w] \in PastWindow PROVE Checks(w)[6] = "Ok" /\ Checks(w)[7] = "Ok"
  <2>1. \A k \in DOMAIN WindowsOf(w) : WindowsOf(w)[k] = "Ok"
    BY <1>1, <1>7 DEF Passing, WindowsOf, WindowCleared, Cleared
  <2>2. TimeError(i, InvocationAt(w), now[w], Skew) = "Ok"
    BY <1>1, <1>7 DEF Passing, WindowCleared, Cleared
  <2>. QED  BY <2>1, <2>2, NothingFailed DEF Checks
<1>8. ASSUME pc[w] \in PastSignature PROVE Checks(w)[8] = "Ok" /\ Checks(w)[9] = "Ok"
  <2>1. \A k \in DOMAIN SignaturesOf(w) : SignaturesOf(w)[k] = "Ok"
    BY <1>1, <1>8 DEF Passing, SignaturesOf, SignatureCleared, Cleared
  <2>2. SignatureError(Invocations[i]) = "Ok"
    <3>1. SignatureError(TokenAt(i, n + 1)) = "Ok"
      BY <1>1, <1>8 DEF Passing, SignatureCleared, Cleared
    <3>. QED  BY <1>1, <3>1 DEF TokenAt
  <2>. QED  BY <2>1, <2>2, NothingFailed DEF Checks
<1>9. ASSUME pc[w] \in PastRevocation PROVE Checks(w)[10] = "Ok"
  <2>1. \A k \in DOMAIN RevocationsOf(w) : RevocationsOf(w)[k] = "Ok"
    BY <1>9 DEF Asked, RevocationsOf, RevocationCleared, Cleared
  <2>. QED  BY <2>1, NothingFailed DEF Checks
<1>10. ASSUME pc[w] \in PastPolicy PROVE Checks(w)[11] = "Ok"
  <2>1. \A k \in DOMAIN PoliciesOf(w) : PoliciesOf(w)[k] = "Ok"
    BY <1>10 DEF Passing, PoliciesOf, PolicyCleared, Cleared
  <2>. QED  BY <2>1, NothingFailed DEF Checks
<1>11. pc[w] \in PastExecutor => Checks(w)[12] = "Ok"
  BY DEF Passing, Checks
<1>. QED
  BY <1>2, <1>3, <1>4, <1>5, <1>6, <1>7, <1>8, <1>9, <1>10, <1>11

AnswersSo(w) ==
  outcome[w].error = ComputedError(w)
    ?? (IF pc[w] = "rejected" THEN "Replay" ELSE "Ok")

\* Only a refusal names an error.
SilentInv == \A w \in Worker : pc[w] # "rejected" => outcome[w].error = "Ok"

\* The step in which validate's answer is known.
LEMMA StepAnswers ==
  ASSUME TypeOK, HopsCounted, SilentInv, NEW w \in Worker, Step(w), Passing(w), Asked(w),
         pc'[w] \in {"accepted", "rejected"}
  PROVE  /\ outcome'[w].error = ComputedError(w)
              ?? (IF pc'[w] = "rejected" THEN "Replay" ELSE "Ok")
         /\ pc[w] # "replay" => ComputedError(w) # "Ok"
         /\ pc[w] = "replay" => ComputedError(w) = "Ok"
<1>. DEFINE i == inv[w]
            k == hop[w]
            n == Len(Invocations[i].prf)
            c == Checks(w)
            said == outcome'[w].error
<1>1. /\ pc[w] \notin {"closed", "ready", "accepted", "rejected"}
      /\ i \in InvCid /\ i # None /\ k \in Nat
      /\ n \in Nat /\ Hops(i) = 1 .. n /\ InvocationAt(w) = n + 1
  <2>1. pc[w] \notin {"closed", "ready", "accepted", "rejected"}
    BY DEF Step, CheckLimit, GetProof, CheckRoot, CheckSubject, CheckLinkage,
       CheckWindow, VerifySignature, AskRevocation, CheckPolicy, CheckExecutor, Record
  <2>2. i \in InvCid /\ i # None /\ k \in Nat
    BY <2>1, ValidatorAssumption DEF TypeOK
  <2>. QED  BY <2>1, <2>2, ChainType DEF Hops, InvocationAt
<1>. DEFINE PassedUpTo(m) == \A l \in 1 .. 12 : l < m => c[l] = "Ok"
<1>2. ASSUME NEW m \in 1 .. 12, PassedUpTo(m), c[m] = said, said # "Ok", pc[w] # "replay"
      PROVE  /\ said = ComputedError(w) ?? (IF pc'[w] = "rejected" THEN "Replay" ELSE "Ok")
             /\ pc[w] # "replay" /\ ComputedError(w) # "Ok"
  <2>1. ComputedError(w) = said
    BY <1>1, <1>2, ComputedByChecks
  <2>. QED  BY <1>2, <2>1 DEF ??
<1>3. /\ pc[w] \in PastLimit => c[1] = "Ok"
      /\ pc[w] \in PastProofs => c[2] = "Ok"
      /\ pc[w] \in PastRoot => c[3] = "Ok"
      /\ pc[w] \in PastSubject => c[4] = "Ok"
      /\ pc[w] \in PastLinkage => c[5] = "Ok"
      /\ pc[w] \in PastWindow => c[6] = "Ok" /\ c[7] = "Ok"
      /\ pc[w] \in PastSignature => c[8] = "Ok" /\ c[9] = "Ok"
      /\ pc[w] \in PastRevocation => c[10] = "Ok"
      /\ pc[w] \in PastPolicy => c[11] = "Ok"
      /\ pc[w] \in PastExecutor => c[12] = "Ok"
  BY <1>1, ChecksPassed
<1>4. /\ pc[w] = "proofs" => PassedUpTo(2)
      /\ pc[w] = "root" => PassedUpTo(3)
      /\ pc[w] = "subject" => PassedUpTo(4)
      /\ pc[w] = "linkage" => PassedUpTo(5)
      /\ pc[w] = "window" => PassedUpTo(6)
      /\ pc[w] = "signature" => PassedUpTo(8)
      /\ pc[w] = "revocation" => PassedUpTo(10)
      /\ pc[w] = "policy" => PassedUpTo(11)
      /\ pc[w] = "executor" => PassedUpTo(12)
      /\ pc[w] = "replay" => PassedUpTo(13)
  <2>. HIDE DEF c
  <2>. QED
    BY <1>3 DEF PastLimit, PastProofs, PastRoot, PastSubject, PastLinkage, PastWindow,
       PastSignature, PastRevocation, PastPolicy, PastExecutor
<1>5. ASSUME NEW last, NEW error, NEW next,
             next \notin {"accepted", "rejected"}, ForEach(w, last, error, next)
      PROVE  k <= last /\ error # "Ok" /\ said = error
  <2>1. pc'[w] = "rejected"
    BY <1>1, <1>5 DEF ForEach, Proceed, Refuse, TypeOK
  <2>. QED  BY <1>1, <1>5, <2>1, RefusedInLoop
<1>6. ASSUME NEW error, NEW at, NEW next,
             next \notin {"accepted", "rejected"}, Once(w, error, at, next)
      PROVE  error # "Ok" /\ said = error
  <2>1. pc'[w] = "rejected"
    BY <1>1, <1>6 DEF Once, Proceed, Refuse, TypeOK
  <2>. QED  BY <1>6, <2>1, RefusedOnce
<1>. HIDE DEF PassedUpTo
<1>7. CASE CheckLimit(w)
  <2>1. LimitError(i) # "Ok" /\ said = LimitError(i) /\ pc[w] # "replay"
    BY <1>6, <1>7 DEF CheckLimit
  <2>2. c[1] = LimitError(i) /\ PassedUpTo(1)
    BY DEF Checks, PassedUpTo
  <2>. QED  BY <1>2, <2>1, <2>2
<1>8. CASE GetProof(w)
  <2>1. /\ k <= n /\ GetError(i, k) # "Ok" /\ said = GetError(i, k)
        /\ pc[w] = "proofs"
    BY <1>1, <1>5, <1>8 DEF GetProof
  <2>2. k \in Hops(i) /\ \A j \in Hops(i) : j < k => HeldOf(w)[j] = "Ok"
    BY <1>1, <2>1 DEF HopsCounted, Asked, HeldCleared, Cleared, HeldOf
  <2>3. c[2] = FirstOf(HeldOf(w)) /\ FirstOf(HeldOf(w)) = GetError(i, k)
    <3>1. DOMAIN HeldOf(w) = Hops(i) /\ HeldOf(w)[k] = GetError(i, k)
      BY <2>2 DEF HeldOf
    <3>. QED  BY <1>1, <2>1, <2>2, <3>1, LoopReports DEF Checks
  <2>. QED  BY <1>2, <1>4, <2>1, <2>3
<1>9. CASE CheckRoot(w)
  <2>. DEFINE error == RootError(ChainOf(i), Invocations[i].sub)
  <2>1. error # "Ok" /\ said = error /\ pc[w] = "root"
    BY <1>6, <1>9 DEF CheckRoot
  <2>2. c[3] = error
    BY DEF Checks
  <2>. QED  BY <1>2, <1>4, <2>1, <2>2
<1>10. CASE CheckSubject(w)
  <2>. DEFINE error == SubjectError(ChainOf(i)[k], Invocations[i].sub)
  <2>1. k <= n /\ error # "Ok" /\ said = error /\ pc[w] = "subject"
    BY <1>1, <1>5, <1>10 DEF CheckSubject
  <2>2. k \in Hops(i) /\ \A j \in Hops(i) : j < k => SubjectsOf(w)[j] = "Ok"
    BY <1>1, <2>1 DEF HopsCounted, Passing, SubjectCleared, Cleared, SubjectsOf
  <2>3. c[4] = error
    <3>1. DOMAIN SubjectsOf(w) = Hops(i) /\ SubjectsOf(w)[k] = error
      BY <2>2 DEF SubjectsOf
    <3>. QED  BY <1>1, <2>1, <2>2, <3>1, LoopReports DEF Checks
  <2>. QED  BY <1>2, <1>4, <2>1, <2>3
<1>11. CASE CheckLinkage(w)
  <2>. DEFINE error == LinkageError(ChainOf(i)[k], TokenAt(i, k + 1))
  <2>1. k <= n /\ error # "Ok" /\ said = error /\ pc[w] = "linkage"
    BY <1>1, <1>5, <1>11 DEF CheckLinkage
  <2>2. k \in Hops(i) /\ \A j \in Hops(i) : j < k => LinksOf(w)[j] = "Ok"
    BY <1>1, <2>1 DEF HopsCounted, Passing, LinkageCleared, Cleared, LinksOf
  <2>3. c[5] = error
    <3>1. DOMAIN LinksOf(w) = Hops(i) /\ LinksOf(w)[k] = error
      BY <2>2 DEF LinksOf
    <3>. QED  BY <1>1, <2>1, <2>2, <3>1, LoopReports DEF Checks
  <2>. QED  BY <1>2, <1>4, <2>1, <2>3
<1>12. CASE CheckWindow(w)
  <2>. DEFINE error == TimeError(i, k, now[w], Skew)
  <2>1. k <= n + 1 /\ error # "Ok" /\ said = error /\ pc[w] = "window"
    BY <1>1, <1>5, <1>12 DEF CheckWindow
  <2>2. k \in 1 .. n + 1 /\ \A j \in Hops(i) : j < k => WindowsOf(w)[j] = "Ok"
    BY <1>1, <2>1 DEF HopsCounted, Passing, WindowCleared, Cleared, WindowsOf
  <2>3. DOMAIN WindowsOf(w) = Hops(i) /\ c[6] = FirstOf(WindowsOf(w))
        /\ c[7] = TimeError(i, n + 1, now[w], Skew)
    BY <1>1 DEF WindowsOf, Checks
  <2>4. CASE k \in Hops(i)
    <3>1. c[6] = error
      <4>1. WindowsOf(w)[k] = error
        BY <2>4 DEF WindowsOf
      <4>. QED  BY <1>1, <2>1, <2>2, <2>3, <2>4, <4>1, LoopReports
    <3>. QED  BY <1>2, <1>4, <2>1, <3>1
  <2>5. CASE k = n + 1
    <3>1. c[6] = "Ok"
      <4>1. \A j \in Hops(i) : j < k
        BY <1>1, <2>5
      <4>. QED  BY <1>1, <2>2, <2>3, <4>1, LoopReports
    <3>2. PassedUpTo(7)
      BY <1>4, <2>1, <3>1 DEF PassedUpTo
    <3>. QED  BY <1>2, <2>1, <2>3, <2>5, <3>2
  <2>. QED  BY <1>1, <2>2, <2>4, <2>5
<1>13. CASE VerifySignature(w)
  <2>. DEFINE error == SignatureError(TokenAt(i, k))
  <2>1. k <= n + 1 /\ error # "Ok" /\ said = error /\ pc[w] = "signature"
    BY <1>1, <1>5, <1>13 DEF VerifySignature
  <2>2. k \in 1 .. n + 1 /\ \A j \in Hops(i) : j < k => SignaturesOf(w)[j] = "Ok"
    BY <1>1, <2>1 DEF HopsCounted, Passing, SignatureCleared, Cleared, SignaturesOf
  <2>3. DOMAIN SignaturesOf(w) = Hops(i) /\ c[8] = FirstOf(SignaturesOf(w))
        /\ c[9] = SignatureError(Invocations[i])
    BY DEF SignaturesOf, Checks
  <2>4. CASE k \in Hops(i)
    <3>1. c[8] = error
      <4>1. SignaturesOf(w)[k] = error
        BY <2>4 DEF SignaturesOf
      <4>. QED  BY <1>1, <2>1, <2>2, <2>3, <2>4, <4>1, LoopReports
    <3>. QED  BY <1>2, <1>4, <2>1, <3>1
  <2>5. CASE k = n + 1
    <3>1. c[8] = "Ok"
      <4>1. \A j \in Hops(i) : j < k
        BY <1>1, <2>5
      <4>. QED  BY <1>1, <2>2, <2>3, <4>1, LoopReports
    <3>2. PassedUpTo(9)
      BY <1>4, <2>1, <3>1 DEF PassedUpTo
    <3>3. error = c[9]
      BY <1>1, <2>3, <2>5 DEF TokenAt
    <3>. QED  BY <1>2, <2>1, <3>2, <3>3
  <2>. QED  BY <1>1, <2>2, <2>4, <2>5
<1>14. CASE AskRevocation(w)
  <2>. DEFINE error == RevocationError(i, k)
  <2>1. k <= n /\ error # "Ok" /\ said = error /\ pc[w] = "revocation"
    BY <1>1, <1>5, <1>14 DEF AskRevocation
  <2>2. k \in Hops(i) /\ \A j \in Hops(i) : j < k => RevocationsOf(w)[j] = "Ok"
    BY <1>1, <2>1 DEF HopsCounted, Asked, RevocationCleared, Cleared, RevocationsOf
  <2>3. c[10] = error
    <3>1. DOMAIN RevocationsOf(w) = Hops(i) /\ RevocationsOf(w)[k] = error
      BY <2>2 DEF RevocationsOf
    <3>. QED  BY <1>1, <2>1, <2>2, <3>1, LoopReports DEF Checks
  <2>. QED  BY <1>2, <1>4, <2>1, <2>3
<1>15. CASE CheckPolicy(w)
  <2>. DEFINE error == PolicyError(ChainOf(i)[k], Invocations[i].args)
  <2>1. k <= n /\ error # "Ok" /\ said = error /\ pc[w] = "policy"
    BY <1>1, <1>5, <1>15 DEF CheckPolicy
  <2>2. k \in Hops(i) /\ \A j \in Hops(i) : j < k => PoliciesOf(w)[j] = "Ok"
    BY <1>1, <2>1 DEF HopsCounted, Passing, PolicyCleared, Cleared, PoliciesOf
  <2>3. c[11] = error
    <3>1. DOMAIN PoliciesOf(w) = Hops(i) /\ PoliciesOf(w)[k] = error
      BY <2>2 DEF PoliciesOf
    <3>. QED  BY <1>1, <2>1, <2>2, <3>1, LoopReports DEF Checks
  <2>. QED  BY <1>2, <1>4, <2>1, <2>3
<1>16. CASE CheckExecutor(w)
  <2>1. ExecutorError(i) # "Ok" /\ said = ExecutorError(i) /\ pc[w] = "executor"
    BY <1>6, <1>16 DEF CheckExecutor
  <2>2. c[12] = ExecutorError(i)
    BY DEF Checks
  <2>. QED  BY <1>2, <1>4, <2>1, <2>2
<1>17. CASE Record(w)
  <2>1. pc[w] = "replay"
    BY <1>17 DEF Record
  <2>2. ComputedError(w) = "Ok"
    <3>1. \A l \in 1 .. 12 : c[l] = "Ok"
      BY <1>4, <2>1 DEF PassedUpTo
    <3>. QED  BY <1>1, <3>1, ComputedByChecks
  <2>3. \/ pc'[w] = "accepted" /\ outcome' = outcome
        \/ pc'[w] = "rejected" /\ said = "Replay"
    BY <1>17 DEF Record, Proceed, Refuse, TypeOK
  <2>. QED  BY <2>1, <2>2, <2>3 DEF SilentInv, ??
<1>. QED
  BY <1>7, <1>8, <1>9, <1>10, <1>11, <1>12, <1>13, <1>14, <1>15, <1>16, <1>17 DEF Step

LEMMA SilentNext == TypeOK /\ SilentInv /\ [Next]_vars => SilentInv'
<1>. SUFFICES ASSUME TypeOK, SilentInv, [Next]_vars, NEW w \in Worker, pc'[w] # "rejected"
              PROVE  outcome'[w].error = "Ok"
  BY DEF SilentInv
<1>0. ASSUME pc'[w] = pc[w], outcome'[w] = outcome[w] PROVE outcome'[w].error = "Ok"
  BY <1>0 DEF SilentInv
<1>1. ASSUME NEW v \in Worker, Step(v) PROVE outcome'[w].error = "Ok"
  <2>1. CASE v = w
    <3>1. pc[w] # "rejected"
      BY <1>1, <2>1 DEF Step, CheckLimit, GetProof, CheckRoot, CheckSubject, CheckLinkage,
         CheckWindow, VerifySignature, AskRevocation, CheckPolicy, CheckExecutor, Record
    <3>2. \/ \E error, k, next : Once(w, error, k, next)
          \/ \E last, error, next : ForEach(w, last, error, next)
          \/ Record(w)
      BY <1>1, <2>1 DEF Step, CheckLimit, GetProof, CheckRoot, CheckSubject, CheckLinkage,
         CheckWindow, VerifySignature, AskRevocation, CheckPolicy, CheckExecutor
    <3>3. outcome' = outcome
      BY <3>2 DEF Once, ForEach, Record, Proceed, Refuse, TypeOK
    <3>. QED  BY <3>1, <3>3 DEF SilentInv
  <2>2. CASE v # w
    BY <1>0, <1>1, <2>2, StepControl DEF Control, TypeOK
  <2>. QED  BY <2>1, <2>2
<1>2. ASSUME NEW v \in Worker, Return(v) PROVE outcome'[w].error = "Ok"
  <2>1. CASE v = w
    BY <1>2, <2>1 DEF Return, Passed, TypeOK
  <2>2. CASE v # w
    BY <1>0, <1>2, <2>2 DEF Return, TypeOK
  <2>. QED  BY <2>1, <2>2
<1>3. ASSUME NEW v \in Worker, Close(v) \/ (\E t \in Timestamp : New(v, t))
                                \/ (\E i \in InvCid : Validate(v, i))
      PROVE  outcome'[w].error = "Ok"
  BY <1>3 DEF Close, New, Validate, SilentInv, TypeOK
<1>4. ASSUME UNCHANGED local PROVE outcome'[w].error = "Ok"
  BY <1>0, <1>4 DEF local
<1>. QED
  BY <1>1, <1>2, <1>3, <1>4 DEF Next, vars, Tick, InsertProof, RemoveProof, Revoke,
     PruneProofs, PruneRevocations, PruneSeen

\* What the function computes for w depends on nothing but its call and the
\* stores.
LEMMA ComputedStays ==
  ASSUME NEW w \in Worker, inv'[w] = inv[w], now'[w] = now[w], UNCHANGED <<held, revoked>>
  PROVE  ComputedError(w)' = ComputedError(w)
BY DEF ComputedError

LEMMA AnswersNext ==
  ASSUME ~Shared, TypeOK, EstablishedInv, HopsCounted, AskedInv, SilentInv,
         AnswerIsComputed, [Next]_vars
  PROVE  AnswerIsComputed'
<1>. SUFFICES ASSUME NEW w \in Worker, pc'[w] \in {"accepted", "rejected"}
              PROVE  AnswersSo(w)'
  BY DEF AnswerIsComputed, AnswersSo
<1>0. ASSUME pc'[w] = pc[w], inv'[w] = inv[w], now'[w] = now[w], outcome'[w] = outcome[w]
      PROVE  AnswersSo(w)'
  <2>1. UNCHANGED <<held, revoked>>
    BY <1>0, NothingChanges
  <2>2. ComputedError(w)' = ComputedError(w)
    BY <1>0, <2>1, ComputedStays
  <2>. QED  BY <1>0, <2>2 DEF AnswersSo, AnswerIsComputed
<1>1. ASSUME NEW v \in Worker, Step(v) PROVE AnswersSo(w)'
  <2>0. inv' = inv /\ now' = now
    BY <1>1, StepControl DEF Kept, Record
  <2>1. CASE v = w
    <3>1. inv[w] # None /\ pc[w] # "closed"
      BY <1>1, <2>1, StepControl DEF TypeOK
    <3>2. UNCHANGED <<held, revoked>>
      BY <3>1, NothingChanges
    <3>3. ComputedError(w)' = ComputedError(w)
      BY <2>0, <3>2, ComputedStays
    <3>4. outcome'[w].error = ComputedError(w)
            ?? (IF pc'[w] = "rejected" THEN "Replay" ELSE "Ok")
      BY <1>1, <2>1, <3>1, StepAnswers DEF EstablishedInv, AskedInv
    <3>. QED  BY <3>3, <3>4 DEF AnswersSo
  <2>2. CASE v # w
    BY <1>0, <1>1, <2>0, <2>2, StepControl DEF Control, TypeOK
  <2>. QED  BY <2>1, <2>2
<1>2. ASSUME NEW v \in Worker, Return(v) \/ Close(v) \/ (\E t \in Timestamp : New(v, t))
                                \/ (\E i \in InvCid : Validate(v, i))
      PROVE  AnswersSo(w)'
  <2>1. v # w
    BY <1>2 DEF Return, Close, New, Validate, TypeOK
  <2>. QED  BY <1>0, <1>2, <2>1 DEF Return, Close, New, Validate, TypeOK
<1>3. ASSUME UNCHANGED local PROVE AnswersSo(w)'
  BY <1>0, <1>3 DEF local
<1>. QED
  BY <1>1, <1>2, <1>3 DEF Next, vars, Tick, InsertProof, RemoveProof, Revoke, PruneProofs,
     PruneRevocations, PruneSeen

AtomicInv ==
  TypeOK /\ EstablishedInv /\ HopsCounted /\ AskedInv /\ SilentInv /\ AnswerIsComputed

LEMMA AtomicInit == Init => AtomicInv
<1>. SUFFICES ASSUME Init PROVE AtomicInv
  OBVIOUS
<1>1. TypeOK /\ EstablishedInv
  BY TypeInit, EstablishedInit
<1>2. HopsCounted /\ AskedInv /\ SilentInv /\ AnswerIsComputed
  BY DEF Init, HopsCounted, AskedInv, SilentInv, AnswerIsComputed, Passed
<1>. QED  BY <1>1, <1>2 DEF AtomicInv

LEMMA AtomicNext == ~Shared /\ AtomicInv /\ [Next]_vars => AtomicInv'
BY TypeNext, EstablishedNext, HopsCountedNext, AskedNext, SilentNext, AnswersNext
   DEF AtomicInv

\* Over borrowed stores, the loops of validate come to what the pipeline is as a
\* function, for chains of every length, whatever happens between calls.
THEOREM LoopsComputeThePipeline ==
  ASSUME ~Shared
  PROVE  Spec => []AnswerIsComputed
<1>1. AtomicInv /\ [Next]_vars => AtomicInv'
  BY AtomicNext
<1>2. AtomicInv => AnswerIsComputed
  BY DEF AtomicInv
<1>. QED  BY <1>1, <1>2, AtomicInit, PTL DEF Spec

----------------------------------------------------------------------------
(* The refinement.                                                         *)

\* Gatekeeper has the pipeline by the name Gate!PipelineError: part by part it is
\* the same function.
LEMMA SamePipeline ==
  ASSUME NEW v, NEW i
  PROVE  Gate!PipelineError(v, i) = PipelineError(v, i)
<1>1. \A a, b : Gate!??(a, b) = (a ?? b)
  BY DEF Gate!??, ??
<1>2. ASSUME NEW errors PROVE Gate!FirstOf(errors) = FirstOf(errors)
  BY DEF Gate!FirstOf, FirstOf
<1>3. \A n : Gate!ProofLimitError(v, n) = ProofLimitError(v, n)
  BY DEF Gate!ProofLimitError, ProofLimitError
<1>4. ASSUME NEW prf PROVE Gate!HeldError(v, prf) = HeldError(v, prf)
  BY DEF Gate!HeldError, HeldError, Gate!FirstOf, FirstOf
<1>5. \A d, e : Gate!SamePrincipal(d, e) = SamePrincipal(d, e)
  BY DEF Gate!SamePrincipal, SamePrincipal
<1>6. ASSUME NEW chain, NEW subject, NEW last
      PROVE  Gate!StructureError(chain, subject, last) = StructureError(chain, subject, last)
  <2>1. \A c, s : Gate!RootError(c, s) = RootError(c, s)
    BY <1>5 DEF Gate!RootError, RootError
  <2>2. \A d, s : Gate!SubjectError(d, s) = SubjectError(d, s)
    BY <1>5 DEF Gate!SubjectError, SubjectError
  <2>3. \A d, e : Gate!LinkageError(d, e) = LinkageError(d, e)
    BY <1>5 DEF Gate!LinkageError, LinkageError, Gate!Covers, Covers, Gate!IsPrefix, IsPrefix
  <2>4. [k \in DOMAIN chain |-> Gate!SubjectError(chain[k], subject)]
          = [k \in DOMAIN chain |-> SubjectError(chain[k], subject)]
    BY <2>2
  <2>5. [k \in 1 .. Len(chain \o last) - 1 |-> Gate!LinkageError(chain[k], (chain \o last)[k + 1])]
          = [k \in 1 .. Len(chain \o last) - 1 |-> LinkageError(chain[k], (chain \o last)[k + 1])]
    BY <2>3
  <2>. QED  BY <1>1, <1>2, <2>1, <2>4, <2>5 DEF Gate!StructureError, StructureError
<1>7. \A nbf, exp, t, s : Gate!WindowError(nbf, exp, t, s) = WindowError(nbf, exp, t, s)
  BY DEF Gate!WindowError, WindowError, Gate!NotYetValid, NotYetValid, Gate!IsPast, IsPast,
         Gate!PlusSeconds, PlusSeconds, Gate!MinusSeconds, MinusSeconds
<1>8. ASSUME NEW chain, NEW n PROVE Gate!WindowsError(v, chain, n) = WindowsError(v, chain, n)
  BY <1>2, <1>7 DEF Gate!WindowsError, WindowsError
<1>9. Gate!InvocationWindowError(v, i) = InvocationWindowError(v, i)
  BY <1>7 DEF Gate!InvocationWindowError, InvocationWindowError
<1>10. \A token : Gate!SignatureError(token) = SignatureError(token)
  BY DEF Gate!SignatureError, SignatureError
<1>11. ASSUME NEW chain PROVE Gate!SignaturesError(chain) = SignaturesError(chain)
  BY <1>2, <1>10 DEF Gate!SignaturesError, SignaturesError
<1>12. ASSUME NEW cids, NEW chain, NEW n
       PROVE  Gate!RevocationsError(v, cids, chain, n) = RevocationsError(v, cids, chain, n)
  BY DEF Gate!RevocationsError, RevocationsError, Gate!FirstOf, FirstOf, Gate!IsRevoked,
         IsRevoked, Gate!Issuers, Issuers, Gate!Everywhere, Everywhere
<1>13. \A d, args : Gate!PolicyError(d, args) = PolicyError(d, args)
  BY DEF Gate!PolicyError, PolicyError
<1>14. /\ Gate!ChainOf(i) = ChainOf(i) /\ Gate!Hops(i) = Hops(i)
       /\ \A k : Gate!CidAt(i, k) = CidAt(i, k)
  BY DEF Gate!ChainOf, ChainOf, Gate!Hops, Hops, Gate!CidAt, CidAt
<1>15. /\ [k \in Hops(i) |-> Gate!CidAt(i, k)] = [k \in Hops(i) |-> CidAt(i, k)]
       /\ [k \in Hops(i) |-> Gate!PolicyError(ChainOf(i)[k], Invocations[i].args)]
            = [k \in Hops(i) |-> PolicyError(ChainOf(i)[k], Invocations[i].args)]
  BY <1>13, <1>14
<1>. QED
  BY <1>1, <1>2, <1>3, <1>4, <1>6, <1>8, <1>9, <1>10, <1>11, <1>12, <1>14, <1>15
     DEF Gate!PipelineError, PipelineError

LEMMA SameDecision ==
  ASSUME NEW w \in Worker
  PROVE  Gate!DecisionError(inv[w], now[w]) =
           ComputedError(w) ?? (IF inv[w] \in seen THEN "Replay" ELSE "Ok")
<1>1. ASSUME NEW a, NEW b PROVE Gate!??(a, b) = (a ?? b)
  BY DEF Gate!??, ??
<1>2. ASSUME NEW t PROVE Gate!ExecutorOf(t) = ExecutorOf(t)
  BY DEF ExecutorOf, Gate!ExecutorOf
<1>3. ASSUME NEW d, NEW e PROVE Gate!SamePrincipal(d, e) = SamePrincipal(d, e)
  BY DEF SamePrincipal, Gate!SamePrincipal
<1>4. Gate!DecisionError(inv[w], now[w]) =
        (PipelineError([now |-> now[w], skew |-> Skew, max |-> MaxProofs,
                        held |-> held, revoked |-> revoked], inv[w])
         ?? (IF Me # None /\ ~SamePrincipal(ExecutorOf(Invocations[inv[w]]), Me)
             THEN "WrongExecutor" ELSE "Ok"))
        ?? (IF inv[w] \in seen THEN "Replay" ELSE "Ok")
  BY <1>1, <1>2, <1>3, SamePipeline DEF Gate!DecisionError
<1>. QED  BY <1>4 DEF ComputedError, ExecutorError

answers == [w \in Worker |-> AnswerOf(w)]

\* A worker whose call is not touched answers as before.
LEMMA SameAnswer ==
  ASSUME NEW w, pc'[w] = pc[w], inv'[w] = inv[w], now'[w] = now[w], outcome'[w] = outcome[w]
  PROVE  AnswerOf(w)' = AnswerOf(w)
BY DEF AnswerOf

LEMMA OnlyOneAnswers ==
  ASSUME NEW w \in Worker, NEW answer, AnswerOf(w)' = answer,
         \A v \in Worker : v # w => AnswerOf(v)' = AnswerOf(v)
  PROVE  answers' = [answers EXCEPT ![w] = answer]
BY DEF answers

\* A step of validate is a decision, or nobody sees it.
LEMMA StepIsDecision ==
  ASSUME ~Shared, AtomicInv, AtomicInv', NEW w \in Worker, Step(w)
  PROVE  \/ Gate!Decide(w, inv[w], now[w])
         \/ UNCHANGED <<held, revoked, seen, answers>>
<1>. DEFINE i == inv[w]
<1>0. /\ TypeOK /\ TypeOK' /\ HopsCounted /\ SilentInv
      /\ AnswerIsComputed'
  BY DEF AtomicInv
<1>1. /\ inv' = inv /\ now' = now /\ UNCHANGED <<held, revoked>>
      /\ pc[w] \notin {"closed", "ready"} /\ Control(w)
  BY <1>0, StepControl DEF Kept, Record, shared
<1>2. pc[w] \notin {"accepted", "rejected"}
  BY DEF Step, CheckLimit, GetProof, CheckRoot, CheckSubject, CheckLinkage, CheckWindow,
     VerifySignature, AskRevocation, CheckPolicy, CheckExecutor, Record
<1>3. i \in InvCid /\ i # None /\ Passing(w) /\ Asked(w)
  BY <1>0, <1>1, ValidatorAssumption DEF AtomicInv, TypeOK, EstablishedInv, AskedInv
<1>4. AnswerOf(w) = None
  BY <1>2 DEF AnswerOf
<1>5. ASSUME NEW v \in Worker, v # w PROVE AnswerOf(v)' = AnswerOf(v)
  BY <1>0, <1>1, <1>5, SameAnswer DEF Control, TypeOK
<1>6. CASE pc'[w] \notin {"accepted", "rejected"}
  <2>1. AnswerOf(w)' = None
    BY <1>6 DEF AnswerOf
  <2>2. answers' = answers
    BY <1>4, <1>5, <2>1 DEF answers
  <2>3. UNCHANGED seen
    BY <1>6, <1>0 DEF Step, CheckLimit, GetProof, CheckRoot, CheckSubject, CheckLinkage,
       CheckWindow, VerifySignature, AskRevocation, CheckPolicy, CheckExecutor, Record,
       Kept, shared, Proceed, Refuse, TypeOK
  <2>. QED  BY <1>1, <2>2, <2>3
<1>7. CASE pc'[w] \in {"accepted", "rejected"}
  <2>. DEFINE decided == Gate!DecisionError(i, now[w])
              said == outcome'[w].error
  <2>1. decided = ComputedError(w) ?? (IF i \in seen THEN "Replay" ELSE "Ok")
    BY SameDecision
  <2>2. /\ said = ComputedError(w) ?? (IF pc'[w] = "rejected" THEN "Replay" ELSE "Ok")
        /\ pc[w] # "replay" => ComputedError(w) # "Ok"
        /\ pc[w] = "replay" => ComputedError(w) = "Ok"
    BY <1>0, <1>3, <1>7, StepAnswers
  <2>3. CASE pc[w] # "replay"
    <3>1. decided = said /\ said # "Ok"
      BY <2>1, <2>2, <2>3 DEF ??
    <3>2. UNCHANGED seen
      BY <2>3 DEF Step, CheckLimit, GetProof, CheckRoot, CheckSubject, CheckLinkage,
         CheckWindow, VerifySignature, AskRevocation, CheckPolicy, CheckExecutor, Record,
         Kept, shared
    <3>3. AnswerOf(w)' = Gate!Answered(i, now[w], decided)
      BY <1>1, <1>7, <3>1 DEF AnswerOf, Gate!Answered
    <3>4. answers' = [answers EXCEPT ![w] = Gate!Answered(i, now[w], decided)]
      BY <1>5, <3>3, OnlyOneAnswers
    <3>. QED  BY <1>1, <1>4, <3>1, <3>2, <3>4 DEF Gate!Decide, answers
  <2>4. CASE pc[w] = "replay"
    <3>0. Record(w)
      BY <2>4 DEF Step, CheckLimit, GetProof, CheckRoot, CheckSubject, CheckLinkage,
         CheckWindow, VerifySignature, AskRevocation, CheckPolicy, CheckExecutor, Record
    <3>1. /\ seen' = seen \cup {i}
          /\ \/ i \notin seen /\ pc'[w] = "accepted"
             \/ i \in seen /\ pc'[w] = "rejected"
      BY <1>0, <3>0 DEF Record, Proceed, Refuse, TypeOK
    <3>2. /\ decided = (IF i \in seen THEN "Replay" ELSE "Ok")
          /\ said = decided
      BY <2>1, <2>2, <2>4, <3>1 DEF ??
    <3>3. seen' = IF decided = "Ok" THEN seen \cup {i} ELSE seen
      BY <3>1, <3>2
    <3>4. AnswerOf(w)' = Gate!Answered(i, now[w], decided)
      BY <1>1, <1>7, <3>2 DEF AnswerOf, Gate!Answered
    <3>5. answers' = [answers EXCEPT ![w] = Gate!Answered(i, now[w], decided)]
      BY <1>5, <3>4, OnlyOneAnswers
    <3>. QED  BY <1>1, <1>4, <3>3, <3>5 DEF Gate!Decide, answers
  <2>. QED  BY <2>3, <2>4
<1>. QED  BY <1>6, <1>7

LEMMA GateNext ==
  ASSUME ~Shared, AtomicInv, AtomicInv', [Next]_vars
  PROVE  [Gate!Next]_(Gate!vars)
<1>0. TypeOK /\ TypeOK'
  BY DEF AtomicInv
<1>1. UNCHANGED <<held, revoked, seen, answers>> => UNCHANGED Gate!vars
  BY DEF Gate!vars, answers
<1>2. ASSUME NEW w \in Worker, Step(w) PROVE [Gate!Next]_(Gate!vars)
  <2>1. CASE Gate!Decide(w, inv[w], now[w])
    <3>1. inv[w] \in InvCid /\ now[w] \in Timestamp
      BY <1>0, <1>2, StepControl DEF TypeOK
    <3>2. inv[w] \in InvCid /\ now[w] \in Gate!Timestamp
      BY <3>1 DEF Timestamp, Gate!Timestamp
    <3>. QED  BY <2>1, <3>2 DEF Gate!Next
  <2>. QED  BY <1>1, <1>2, <2>1, StepIsDecision
<1>3. ASSUME NEW w \in Worker, Return(w) PROVE [Gate!Next]_(Gate!vars)
  <2>1. AnswerOf(w) # None
    <3>1. /\ inv[w] \in InvCid /\ now[w] \in Timestamp
          /\ outcome[w].error \in Errors \cup {"Ok"}
      BY <1>0, <1>3 DEF Return, TypeOK
    <3>. QED  BY <1>3, <3>1, AnswerAssumption DEF Return, AnswerOf
  <2>2. AnswerOf(w)' = None
    BY <1>0, <1>3 DEF Return, AnswerOf, TypeOK
  <2>3. ASSUME NEW v \in Worker, v # w PROVE AnswerOf(v)' = AnswerOf(v)
    BY <1>0, <1>3, <2>3, SameAnswer DEF Return, TypeOK
  <2>4. answers' = [answers EXCEPT ![w] = None]
    BY <2>2, <2>3, OnlyOneAnswers
  <2>5. UNCHANGED <<held, revoked, seen>>
    BY <1>3 DEF Return, shared
  <2>6. Gate!Acknowledge(w)
    BY <2>1, <2>4, <2>5 DEF Gate!Acknowledge, answers
  <2>. QED  BY <2>6 DEF Gate!Next
<1>4. ASSUME NEW w \in Worker, Close(w) \/ (\E t \in Timestamp : New(w, t))
                                \/ (\E i \in InvCid : Validate(w, i))
      PROVE  [Gate!Next]_(Gate!vars)
  <2>1. /\ UNCHANGED <<held, revoked, seen>>
        /\ pc[w] \notin {"accepted", "rejected"} /\ pc'[w] \notin {"accepted", "rejected"}
    BY <1>0, <1>4 DEF Close, New, Validate, shared, TypeOK
  <2>2. AnswerOf(w)' = AnswerOf(w)
    BY <2>1 DEF AnswerOf
  <2>3. ASSUME NEW v \in Worker, v # w PROVE AnswerOf(v)' = AnswerOf(v)
    BY <1>0, <1>4, <2>3, SameAnswer DEF Close, New, Validate, TypeOK
  <2>4. answers' = answers
    BY <2>2, <2>3 DEF answers
  <2>. QED  BY <1>1, <2>1, <2>4
<1>5. ASSUME UNCHANGED local PROVE answers' = answers
  BY <1>5 DEF local, answers, AnswerOf
<1>6. ASSUME Tick \/ UNCHANGED vars PROVE [Gate!Next]_(Gate!vars)
  BY <1>1, <1>5, <1>6 DEF Tick, vars, shared
<1>7. ASSUME Writable, UNCHANGED local, held' \subseteq Link, seen' \subseteq seen,
             revoked' \subseteq Cid \X (Principal \cup {Everywhere})
      PROVE  [Gate!Next]_(Gate!vars)
  <2>1. \A w \in Worker : pc[w] = "closed"
    BY <1>7 DEF Writable, Idle, Open
  <2>2. \A w \in Worker : answers[w] = None
    BY <2>1 DEF answers, AnswerOf
  <2>3. revoked' \subseteq Cid \X (Principal \cup {Gate!Everywhere})
    BY <1>7 DEF Everywhere, Gate!Everywhere
  <2>4. Gate!StoresChange
    BY <1>5, <1>7, <2>2, <2>3 DEF Gate!StoresChange, answers
  <2>. QED  BY <2>4 DEF Gate!Next
<1>8. ASSUME (\E l \in Link : InsertProof(l) \/ RemoveProof(l))
               \/ (\E r \in Arrivals : Revoke(r))
               \/ (\E t \in Timestamp : PruneProofs(t) \/ PruneRevocations(t) \/ PruneSeen(t))
      PROVE  [Gate!Next]_(Gate!vars)
  <2>1. Writable /\ UNCHANGED local
    BY <1>8 DEF InsertProof, RemoveProof, Revoke, PruneProofs, PruneRevocations, PruneSeen,
       MayPrune
  <2>2. seen' \subseteq seen
    BY <1>8 DEF InsertProof, RemoveProof, Revoke, PruneProofs, PruneRevocations, PruneSeen
  <2>3. held' \subseteq Link /\ revoked' \subseteq Cid \X (Principal \cup {Everywhere})
    BY <1>0 DEF TypeOK
  <2>. QED  BY <1>7, <2>1, <2>2, <2>3
<1>. QED
  BY <1>2, <1>3, <1>4, <1>6, <1>8 DEF Next

\* Over borrowed stores validate is atomic: a run of any number of Validators,
\* step by step through their checks, is a run of Gatekeeper, where each call is
\* answered in one go from the stores as they stand.
THEOREM ValidateIsAtomic ==
  ASSUME ~Shared
  PROVE  Spec => IsAtomic
<1>1. Init => Gate!Init
  BY ValidatorAssumption DEF Init, Gate!Init, AnswerOf
<1>2. AtomicInv /\ [Next]_vars => AtomicInv'
  BY AtomicNext
<1>3. AtomicInv /\ AtomicInv' /\ [Next]_vars => [Gate!Next]_(Gate!vars)
  BY GateNext
<1>. QED  BY <1>1, <1>2, <1>3, AtomicInit, PTL DEF Spec, IsAtomic, Gate!Spec
=============================================================================
