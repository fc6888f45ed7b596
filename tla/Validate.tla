------------------------------ MODULE Validate ------------------------------
(***************************************************************************)
(* Validator::validate as the state machine it is, with the stores it asks *)
(* and the clock it was given (src/validate.rs).                           *)
(*                                                                         *)
(* Each worker is an executor thread that makes a Validator, runs          *)
(* invocations through it and drops it.  A Validator keeps the time it was *)
(* made with.  Every call it makes to a store (ProofStore::get,            *)
(* RevocationStore::is_revoked, ReplayGuard::record) is a step of its own, *)
(* because those are traits: with Shared = TRUE they stand before state    *)
(* that others change between two calls.  With Shared = FALSE they are the *)
(* in-memory types, which a live Validator borrows: nobody changes them    *)
(* while one lives, and a second Validator cannot borrow the replay guard. *)
(* Every option of the Validator is attached; a revocation store nobody    *)
(* writes to answers as an unattached one does.                            *)
(***************************************************************************)
EXTENDS Authority, FiniteSets

CONSTANTS
  Worker,
  Skew,         \* Validator::skew
  PruneSkew,    \* the skew given to the prune_expired of every store
  Lag,          \* how far a clock reading may fall behind the latest one: a
                \* clock set back, a time read early or a Validator kept long
  MaxProofs,    \* Validator::max_proofs, None for no limit
  Me,           \* Validator::executor, None when not attached
  Shared,       \* stores behind the traits change while a Validator lives
  Movable,      \* bound: links the proof store gains and loses; it starts with
                \* all the others
  Arrivals      \* bound: revocations that may be recorded

ASSUME ValidatorAssumption ==
  /\ Skew \in Nat
  /\ PruneSkew \in Nat
  /\ Lag \in Nat
  /\ MaxProofs \in Nat \cup {None}
  /\ Me \in Did \cup {None}
  /\ Shared \in BOOLEAN
  /\ Movable \subseteq Link
  /\ Arrivals \subseteq Cid \X (Principal \cup {Everywhere})
  /\ None \notin InvCid

VARIABLES
  clock,        \* the latest time the clock has shown
  held,         \* ProofStore: the links it answers
  revoked,      \* RevocationStore: <<CID, principal>> recorded
  seen,         \* ReplayGuard: CIDs of invocations recorded
  pc,           \* worker -> where its Validator is
  now,          \* worker -> the time its Validator was made with
  inv,          \* worker -> the invocation being validated
  hop,          \* worker -> position in the chain, in the loops
  outcome,      \* worker -> why the invocation was refused, and where
  everRevoked,  \* history: every revocation ever recorded
  doomed,       \* history: worker -> hops already revoked when validate began
  executions    \* history: invocation -> how often it was accepted

shared == <<clock, held, revoked, seen, everRevoked, executions>>
local == <<pc, now, inv, hop, outcome, doomed>>
vars == <<shared, local>>

\* Where a Validator is: not made, waiting for a call, at one of the checks of
\* validate in their order, or about to return.
Pc == {"closed", "ready", "limit", "proofs", "root", "subject", "linkage",
       "window", "signature", "revocation", "policy", "executor", "replay",
       "accepted", "rejected"}
Errors ==
  {"TooManyProofs", "MissingProof", "EmptyChain", "RootNotSubject",
   "PowerlineAtRoot", "SubjectMismatch", "PrincipalMismatch",
   "CommandNotCovered", "NotYetValid", "Expired", "Unresolvable",
   "BadSignature", "Revoked", "PolicyRejected", "WrongExecutor", "Replay"}
Passed == [error |-> "Ok", hop |-> 0]

TypeOK ==
  /\ clock \in Timestamp
  /\ held \subseteq Link
  /\ revoked \subseteq Cid \X (Principal \cup {Everywhere})
  /\ seen \subseteq InvCid
  /\ pc \in [Worker -> Pc]
  /\ now \in [Worker -> Timestamp]
  /\ inv \in [Worker -> InvCid \cup {None}]
  /\ hop \in [Worker -> Nat]
  /\ outcome \in [Worker -> [error : Errors \cup {"Ok"}, hop : Nat]]
  /\ everRevoked \subseteq Cid \X (Principal \cup {Everywhere})
  /\ doomed \in [Worker -> SUBSET Nat]
  /\ executions \in [InvCid -> Nat]
  /\ \A w \in Worker : inv[w] = None <=> pc[w] \in {"closed", "ready"}

Init ==
  /\ clock \in Timestamp
  /\ held \in {(Link \ Movable) \cup some : some \in SUBSET Movable}
  /\ revoked = {}
  /\ seen = {}
  /\ pc = [w \in Worker |-> "closed"]
  /\ now = [w \in Worker |-> 0]
  /\ inv = [w \in Worker |-> None]
  /\ hop = [w \in Worker |-> 0]
  /\ outcome = [w \in Worker |-> Passed]
  /\ everRevoked = {}
  /\ doomed = [w \in Worker |-> {}]
  /\ executions = [i \in InvCid |-> 0]

----------------------------------------------------------------------------
(* The life of a Validator.                                                *)

Open(w) == pc[w] # "closed"
Idle == \A w \in Worker : ~Open(w)

\* A clock reading a caller may be holding.
Reading(t) == t \in Timestamp /\ clock - Lag <= t /\ t <= clock

\* Validator::new and its setters.
New(w, t) ==
  /\ pc[w] = "closed"
  /\ Shared \/ Idle
  /\ Reading(t)
  /\ pc' = [pc EXCEPT ![w] = "ready"]
  /\ now' = [now EXCEPT ![w] = t]
  /\ UNCHANGED <<shared, inv, hop, outcome, doomed>>

\* The Validator goes out of scope.
Close(w) ==
  /\ pc[w] = "ready"
  /\ pc' = [pc EXCEPT ![w] = "closed"]
  /\ now' = [now EXCEPT ![w] = 0]
  /\ UNCHANGED <<shared, inv, hop, outcome, doomed>>

\* The caller hands validate an invocation.
Validate(w, i) ==
  /\ pc[w] = "ready"
  /\ pc' = [pc EXCEPT ![w] = "limit"]
  /\ inv' = [inv EXCEPT ![w] = i]
  /\ doomed' = [doomed EXCEPT ![w] = ReachedHops(everRevoked, i)]
  /\ UNCHANGED <<shared, now, hop, outcome>>

\* validate returns; its locals are gone.
Return(w) ==
  /\ pc[w] \in {"accepted", "rejected"}
  /\ pc' = [pc EXCEPT ![w] = "ready"]
  /\ inv' = [inv EXCEPT ![w] = None]
  /\ hop' = [hop EXCEPT ![w] = 0]
  /\ outcome' = [outcome EXCEPT ![w] = Passed]
  /\ doomed' = [doomed EXCEPT ![w] = {}]
  /\ UNCHANGED <<shared, now>>

----------------------------------------------------------------------------
(* The steps of validate.  Each returns on its first failure.              *)

Refuse(w, error, k) ==
  /\ pc' = [pc EXCEPT ![w] = "rejected"]
  /\ outcome' = [outcome EXCEPT ![w] = [error |-> error, hop |-> k]]
  /\ UNCHANGED hop

Proceed(w, next) ==
  /\ pc' = [pc EXCEPT ![w] = next]
  /\ hop' = [hop EXCEPT ![w] = 1]
  /\ UNCHANGED outcome

\* Mutant: the loop stays at a position that passed.
ForEachStuck(w, last, error, next) ==
  \/ hop[w] > last /\ Proceed(w, next)
  \/ /\ hop[w] <= last
     /\ error # "Ok"
     /\ Refuse(w, error, hop[w])
  \/ /\ hop[w] <= last
     /\ error = "Ok"
     /\ UNCHANGED <<pc, hop, outcome>>

\* One iteration of a loop over positions 1 .. last, or the end of the loop.
ForEach(w, last, error, next) ==
  \/ hop[w] > last /\ Proceed(w, next)
  \/ /\ hop[w] <= last
     /\ error # "Ok"
     /\ Refuse(w, error, hop[w])
  \/ /\ hop[w] <= last
     /\ error = "Ok"
     /\ hop' = [hop EXCEPT ![w] = hop[w] + 1]
     /\ UNCHANGED <<pc, outcome>>

\* A check made once.
Once(w, error, k, next) ==
  \/ error = "Ok" /\ Proceed(w, next)
  \/ error # "Ok" /\ Refuse(w, error, k)

InvocationAt(w) == Len(Invocations[inv[w]].prf) + 1
Kept == UNCHANGED <<shared, now, inv, doomed>>

\* Mutant: a revocation counts only at hops its authority issued.
RevocationErrorOwnHop(i, k) ==
  IF IsRevoked(revoked, CidAt(i, k), {ChainOf(i)[k].iss.base}) THEN "Revoked" ELSE "Ok"

\* What the validator's own limit, its stores and its executor say.
LimitError(i) ==
  IF MaxProofs # None /\ Len(Invocations[i].prf) > MaxProofs
  THEN "TooManyProofs" ELSE "Ok"
GetError(i, k) ==
  IF Invocations[i].prf[k] \in held THEN "Ok" ELSE "MissingProof"
RevocationError(i, k) ==
  IF IsRevoked(revoked, CidAt(i, k), Issuers(ChainOf(i))) THEN "Revoked" ELSE "Ok"
ExecutorError(i) ==
  IF Me # None /\ ~SamePrincipal(ExecutorOf(Invocations[i]), Me)
  THEN "WrongExecutor" ELSE "Ok"

CheckLimit(w) ==
  /\ pc[w] = "limit"
  /\ Once(w, LimitError(inv[w]), 0, "proofs")
  /\ Kept

\* self.store.get for one link; `collect` stops at the first that is missing.
GetProof(w) ==
  /\ pc[w] = "proofs"
  /\ ForEach(w, InvocationAt(w) - 1, GetError(inv[w], hop[w]), "root")
  /\ Kept

CheckRoot(w) ==
  /\ pc[w] = "root"
  /\ Once(w, RootError(ChainOf(inv[w]), Invocations[inv[w]].sub), 0, "subject")
  /\ Kept

CheckSubject(w) ==
  /\ pc[w] = "subject"
  /\ ForEach(w, InvocationAt(w) - 1,
             SubjectError(ChainOf(inv[w])[hop[w]], Invocations[inv[w]].sub),
             "linkage")
  /\ Kept

CheckLinkage(w) ==
  /\ pc[w] = "linkage"
  /\ ForEach(w, InvocationAt(w) - 1,
             LinkageError(ChainOf(inv[w])[hop[w]], TokenAt(inv[w], hop[w] + 1)),
             "window")
  /\ Kept

\* Mutant: the invocation's own expiry is not looked at.
CheckWindowProofsOnly(w) ==
  /\ pc[w] = "window"
  /\ ForEach(w, InvocationAt(w) - 1, TimeError(inv[w], hop[w], now[w], Skew), "signature")
  /\ Kept

CheckWindow(w) ==
  /\ pc[w] = "window"
  /\ ForEach(w, InvocationAt(w), TimeError(inv[w], hop[w], now[w], Skew), "signature")
  /\ Kept

VerifySignature(w) ==
  /\ pc[w] = "signature"
  /\ ForEach(w, InvocationAt(w), SignatureError(TokenAt(inv[w], hop[w])), "revocation")
  /\ Kept

\* is_revoked for one hop.
AskRevocation(w) ==
  /\ pc[w] = "revocation"
  /\ ForEach(w, InvocationAt(w) - 1, RevocationError(inv[w], hop[w]), "policy")
  /\ Kept

CheckPolicy(w) ==
  /\ pc[w] = "policy"
  /\ ForEach(w, InvocationAt(w) - 1,
             PolicyError(ChainOf(inv[w])[hop[w]], Invocations[inv[w]].args),
             "executor")
  /\ Kept

\* Mutant: records the invocation as soon as its policies pass.
CheckExecutorRecording(w) ==
  /\ pc[w] = "executor"
  /\ Once(w, ExecutorError(inv[w]), 0, "replay")
  /\ seen' = seen \cup {inv[w]}
  /\ UNCHANGED <<clock, held, revoked, everRevoked, executions, now, inv, doomed>>

CheckExecutor(w) ==
  /\ pc[w] = "executor"
  /\ Once(w, ExecutorError(inv[w]), 0, "replay")
  /\ Kept

\* ReplayGuard::record: the insert and the test are one call.  validate returns
\* the Proof at once when it passes.
Record(w) ==
  /\ pc[w] = "replay"
  /\ seen' = seen \cup {inv[w]}
  /\ \/ /\ inv[w] \notin seen
        /\ Proceed(w, "accepted")
        /\ executions' = [executions EXCEPT ![inv[w]] = @ + 1]
     \/ /\ inv[w] \in seen
        /\ Refuse(w, "Replay", 0)
        /\ UNCHANGED executions
  /\ UNCHANGED <<clock, held, revoked, everRevoked, now, inv, doomed>>

----------------------------------------------------------------------------
(* What happens around the validators.                                     *)

\* Mutant: SystemClock without its clamp.
TickUnclamped ==
  /\ clock <= MaxTime
  /\ clock' = clock + 1
  /\ UNCHANGED <<held, revoked, seen, everRevoked, executions, local>>

Tick ==
  /\ clock < MaxTime
  /\ clock' = clock + 1
  /\ UNCHANGED <<held, revoked, seen, everRevoked, executions, local>>

\* The stores are open to change, and by a caller whose reading t is no more
\* than Lag ahead of any Validator still running.
Writable == Shared \/ Idle
MayPrune(t) ==
  /\ Writable
  /\ t \in Timestamp
  /\ t <= clock
  /\ \A w \in Worker : Open(w) => t - now[w] <= Lag

\* MemoryStore::insert, or a shared store learning a delegation under a link.
InsertProof(l) ==
  /\ Writable
  /\ l \in Movable \ held
  /\ held' = held \cup {l}
  /\ UNCHANGED <<clock, revoked, seen, everRevoked, executions, local>>

\* MemoryStore::remove.
RemoveProof(l) ==
  /\ Writable
  /\ l \in Movable \cap held
  /\ held' = held \ {l}
  /\ UNCHANGED <<clock, revoked, seen, everRevoked, executions, local>>

\* MemoryRevocationStore::record and ::revoke.
Revoke(r) ==
  /\ Writable
  /\ revoked' = revoked \cup {r}
  /\ everRevoked' = everRevoked \cup {r}
  /\ UNCHANGED <<clock, held, seen, executions, local>>

\* Mutant: expiries judged without the skew.
PruneProofsUnskewed(t) ==
  /\ MayPrune(t)
  /\ held' = {l \in held : ~IsPast(Delegations[Resolves[l]].exp, t, 0)}
  /\ UNCHANGED <<clock, revoked, seen, everRevoked, executions, local>>

\* MemoryStore::prune_expired.
PruneProofs(t) ==
  /\ MayPrune(t)
  /\ held' = {l \in held : ~IsPast(Delegations[Resolves[l]].exp, t, PruneSkew)}
  /\ UNCHANGED <<clock, revoked, seen, everRevoked, executions, local>>

\* MemoryRevocationStore::prune_expired keeps the whole entry of a CID that was
\* ever revoked everywhere.
PruneRevocations(t) ==
  /\ MayPrune(t)
  /\ revoked' = {r \in revoked : \/ <<r[1], Everywhere>> \in revoked
                                 \/ ~IsPast(Delegations[r[1]].exp, t, PruneSkew)}
  /\ UNCHANGED <<clock, held, seen, everRevoked, executions, local>>

\* Mutant: the expiry itself is taken to be past.
PruneSeenExclusive(t) ==
  /\ MayPrune(t)
  /\ seen' = {i \in seen : \/ Invocations[i].exp = Never
                          \/ t < PlusSeconds(Invocations[i].exp, PruneSkew)}
  /\ UNCHANGED <<clock, held, revoked, everRevoked, executions, local>>

\* MemoryReplayGuard::prune_expired.
PruneSeen(t) ==
  /\ MayPrune(t)
  /\ seen' = {i \in seen : ~IsPast(Invocations[i].exp, t, PruneSkew)}
  /\ UNCHANGED <<clock, held, revoked, everRevoked, executions, local>>

Step(w) ==
  \/ CheckLimit(w) \/ GetProof(w) \/ CheckRoot(w) \/ CheckSubject(w)
  \/ CheckLinkage(w) \/ CheckWindow(w) \/ VerifySignature(w)
  \/ AskRevocation(w) \/ CheckPolicy(w) \/ CheckExecutor(w) \/ Record(w)

Next ==
  \/ \E w \in Worker : Step(w) \/ Return(w) \/ Close(w)
  \/ \E w \in Worker, t \in Timestamp : New(w, t)
  \/ \E w \in Worker, i \in InvCid : Validate(w, i)
  \/ Tick
  \/ \E l \in Link : InsertProof(l) \/ RemoveProof(l)
  \/ \E r \in Arrivals : Revoke(r)
  \/ \E t \in Timestamp : PruneProofs(t) \/ PruneRevocations(t) \/ PruneSeen(t)

Spec == Init /\ [][Next]_vars /\ \A w \in Worker : WF_vars(Step(w))

----------------------------------------------------------------------------
(* Properties.                                                             *)

\* An accepted invocation carries its subject's authority at the time its
\* Validator was made with, judged over the whole chain: the hop-by-hop checks
\* of check_structure add up to attenuation and subject inheritance along it.
AcceptedIsAuthorized ==
  \A w \in Worker : pc[w] = "accepted" =>
    /\ Authorized(inv[w], now[w], Skew)
    /\ Me # None => SamePrincipal(ExecutorOf(Invocations[inv[w]]), Me)

\* A refusal names a failure the chain has, at its first position, and nothing
\* that comes earlier in the pipeline fails: rows 6 and 7 of the table are one
\* walk along the chain.
RefusalIsEarliest ==
  \A w \in Worker : pc[w] = "rejected" =>
    LET reported == outcome[w] IN
    /\ \/ reported.error \in {"TooManyProofs", "MissingProof", "Revoked", "Replay"}
       \/ Fails(inv[w], now[w], Skew, Me, reported.error, reported.hop)
    /\ reported.error \notin {"TooManyProofs", "MissingProof"} =>
         IsEarliest(inv[w], now[w], Skew, Me, reported.error, reported.hop,
                    [TableRow EXCEPT !.CommandNotCovered = 6])

\* The same with rows 6 and 7 as two walks, which is what docs/validation.md
\* says of the pipeline: "these checks in this order".
RefusalFollowsTable ==
  \A w \in Worker :
    pc[w] = "rejected" /\ outcome[w].error \notin {"TooManyProofs", "MissingProof"} =>
      IsEarliest(inv[w], now[w], Skew, Me, outcome[w].error, outcome[w].hop, TableRow)

\* No invocation is accepted twice, by any of the workers, however the guard is
\* pruned meanwhile.  Needs a guard pruned no sooner than tokens stop passing.
AcceptedAtMostOnce == \A i \in InvCid : executions[i] <= 1

\* A chain that a recorded revocation reached when validate began is refused,
\* though the record may since have been pruned, before or during the call.
RevocationIsIrreversible ==
  \A w \in Worker : pc[w] = "accepted" => doomed[w] = {}

\* A sweep of a store drops only what no Validator, running or still to be made,
\* would accept for its time: pruning changes no decision.
Dead(exp) ==
  \A t \in Timestamp :
    clock - Lag <= t \/ (\E w \in Worker : Open(w) /\ now[w] = t) => IsPast(exp, t, Skew)

DroppedIsDead ==
  [][/\ \A l \in (held \ Movable) \ held' : Dead(Delegations[Resolves[l]].exp)
     /\ \A r \in revoked \ revoked' : Dead(Delegations[r[1]].exp)
     /\ \A i \in seen \ seen' : Dead(Invocations[i].exp)]_vars

\* The replay guard learns of an invocation only in a call that got past every
\* other check, so a refused invocation can be presented again.
OnlyPassingIsRecorded ==
  [][\A i \in seen' \ seen : \E w \in Worker :
       inv[w] = i /\ pc'[w] = "accepted" /\ Authorized(i, now[w], Skew)]_vars

\* validate always comes back.
ValidateReturns ==
  \A w \in Worker : pc[w] = "limit" ~> pc[w] \in {"accepted", "rejected"}
=============================================================================
