------------------------------- MODULE Intake -------------------------------
(***************************************************************************)
(* An executor that takes in revocations as they arrive and keeps those it *)
(* accepts for one subject, in a MemoryRevocationStore.                    *)
(*                                                                         *)
(* Revocations travel by gossip: any of Messages arrives at any time, in   *)
(* any order, any number of times or never.  check_revocation borrows the  *)
(* store, so a check is one step; what it accepts is a value of its own,   *)
(* and the caller records it in a later step, after other checks, other    *)
(* records or a sweep.                                                     *)
(***************************************************************************)
EXTENDS Revocation, Authority

CONSTANTS
  Subject,      \* whose revocations are kept
  Messages,     \* bound: revocations on their way, each with its chain
  Held,         \* links the proof store answers, for grants
  Skew, MaxProofs,
  PruneSkew,    \* the skew given to prune_expired
  Lag,          \* how far a clock reading may fall behind the latest one
  Operator      \* bound: CIDs the operator may revoke on their own judgement

Message == [inv : InvCid, chain : Seq(Cid)]

ASSUME IntakeAssumption ==
  /\ Subject \in Did
  /\ Messages \subseteq Message
  /\ Held \subseteq Link
  /\ Skew \in Nat /\ PruneSkew \in Nat /\ Lag \in Nat
  /\ MaxProofs \in Nat \cup {None}
  /\ Operator \subseteq Cid

VARIABLES
  clock,
  revoked,      \* the store: <<CID, authority>> recorded
  pending,      \* accepted and not yet recorded
  checked,      \* history: messages that were ever checked
  accepted,     \* history: those accepted at least once
  everRevoked   \* history: every record ever made

vars == <<clock, revoked, pending, checked, accepted, everRevoked>>

Record == Cid \X (Principal \cup {Everywhere})

TypeOK ==
  /\ clock \in Timestamp
  /\ revoked \subseteq Record
  /\ pending \subseteq accepted
  /\ accepted \subseteq checked
  /\ checked \subseteq Messages
  /\ everRevoked \subseteq Record
  /\ revoked \subseteq everRevoked

Init ==
  /\ clock \in Timestamp
  /\ revoked = {}
  /\ pending = {}
  /\ checked = {}
  /\ accepted = {}
  /\ everRevoked = {}

----------------------------------------------------------------------------
Reading(t) == t \in Timestamp /\ clock - Lag <= t /\ t <= clock

\* The Validator a caller makes for the check.
Validator(t) ==
  [now |-> t, skew |-> Skew, max |-> MaxProofs, held |-> Held, revoked |-> revoked]

\* What check_revocation answers about m at time t.
Verdict(m, t) == CheckRevocationError(Validator(t), Subject, m.inv, m.chain)

\* What an accepted revocation is recorded as.
Entry(m) == <<Last(m.chain), AuthorityOf(m.inv, m.chain).base>>

Accept(m, t) ==
  /\ Reading(t)
  /\ Verdict(m, t) = "Ok"
  /\ pending' = pending \cup {m}
  /\ checked' = checked \cup {m}
  /\ accepted' = accepted \cup {m}
  /\ UNCHANGED <<clock, revoked, everRevoked>>

Refuse(m, t) ==
  /\ Reading(t)
  /\ Verdict(m, t) # "Ok"
  /\ checked' = checked \cup {m}
  /\ UNCHANGED <<clock, revoked, pending, accepted, everRevoked>>

\* Mutant: a new record of a CID replaces what was recorded of it.
RecordReplacing(m) ==
  /\ m \in pending
  /\ pending' = pending \ {m}
  /\ revoked' = {r \in revoked : r[1] # Entry(m)[1]} \cup {Entry(m)}
  /\ everRevoked' = everRevoked \cup {Entry(m)}
  /\ UNCHANGED <<clock, checked, accepted>>

\* MemoryRevocationStore::record.
RecordAccepted(m) ==
  /\ m \in pending
  /\ pending' = pending \ {m}
  /\ revoked' = revoked \cup {Entry(m)}
  /\ everRevoked' = everRevoked \cup {Entry(m)}
  /\ UNCHANGED <<clock, checked, accepted>>

\* MemoryRevocationStore::revoke.
RevokeEverywhere(c) ==
  /\ revoked' = revoked \cup {<<c, Everywhere>>}
  /\ everRevoked' = everRevoked \cup {<<c, Everywhere>>}
  /\ UNCHANGED <<clock, pending, checked, accepted>>

\* MemoryRevocationStore::prune_expired keeps the whole entry of a CID that was
\* ever revoked everywhere.
Prune(t) ==
  /\ Reading(t)
  /\ revoked' = {r \in revoked : \/ <<r[1], Everywhere>> \in revoked
                                 \/ ~IsPast(Delegations[r[1]].exp, t, PruneSkew)}
  /\ UNCHANGED <<clock, pending, checked, accepted, everRevoked>>

\* Mutant: SystemClock without its clamp.
TickUnclamped ==
  /\ clock <= MaxTime
  /\ clock' = clock + 1
  /\ UNCHANGED <<revoked, pending, checked, accepted, everRevoked>>

Tick ==
  /\ clock < MaxTime
  /\ clock' = clock + 1
  /\ UNCHANGED <<revoked, pending, checked, accepted, everRevoked>>

Next ==
  \/ \E m \in Messages, t \in Timestamp : Accept(m, t) \/ Refuse(m, t)
  \/ \E m \in Messages : RecordAccepted(m)
  \/ \E c \in Operator : RevokeEverywhere(c)
  \/ \E t \in Timestamp : Prune(t)
  \/ Tick

Spec == Init /\ [][Next]_vars

----------------------------------------------------------------------------
(* What a revocation must be to count, stated over the whole chain.        *)

\* A signed line of delegations from the subject to whoever received the last,
\* along which no command is widened and no principal issues twice.
IsLine(chain) ==
  /\ chain # << >>
  /\ SamePrincipal(chain[1].iss, Subject)
  /\ chain[1].sub # Powerline
  /\ \A k \in DOMAIN chain :
       /\ chain[k].sub # Powerline => SamePrincipal(chain[k].sub, Subject)
       /\ Signed(chain[k])
  /\ \A j, k \in DOMAIN chain : j < k =>
       /\ Covers(chain[j].cmd, chain[k].cmd)
       /\ ~SamePrincipal(chain[j].iss, chain[k].iss)
       /\ k = j + 1 => SamePrincipal(chain[j].aud, chain[k].iss)

\* i asks for the delegation c to be revoked.
Revokes(i, c) ==
  /\ Invocations[i].cmd = RevokeCommand
  /\ <<c>> \in Named(i, "revoke")

\* The principal `by` issued in a line that ends in c, and signed a revocation
\* of c, or is the subject of one that carries their authority at time t.
EarnedBy(m, c, by) ==
  LET chain == Presented(m.chain)
      inv == Invocations[m.inv]
  IN  /\ IsLine(chain)
      /\ Last(m.chain) = c
      /\ Revokes(m.inv, c)
      /\ Signed(inv)
      /\ \E k \in DOMAIN chain : chain[k].iss.base = by
      /\ \/ inv.iss.base = by
         \/ inv.sub.base = by /\ \E t \in Timestamp : Authorized(m.inv, t, Skew)

\* The hops of m's chain above the right it uses.
Above(m) == {k \in DOMAIN m.chain :
               \E j \in DOMAIN m.chain :
                 /\ k < j
                 /\ SamePrincipal(Presented(m.chain)[j].iss, AuthorityOf(m.inv, m.chain))}

\* `records` reach a hop of the chain `cids`.
IsReached(records, cids, k) == IsRevoked(records, cids[k], Issuers(Presented(cids)))

\* Everything a revocation must satisfy when `records` are those in the store.
Entitled(m, records, t) ==
  LET chain == Presented(m.chain)
      inv == Invocations[m.inv]
      isIssuer == \E k \in DOMAIN chain : SamePrincipal(chain[k].iss, inv.iss)
  IN  /\ \A k \in DOMAIN ArgumentsOf[inv.args] :
           ArgumentError(ArgumentsOf[inv.args][k]) = "Ok"
      /\ MaxProofs # None => Len(m.chain) <= MaxProofs
      /\ IsLine(chain)
      /\ Revokes(m.inv, Last(m.chain))
      /\ Named(m.inv, "path") \subseteq {m.chain}
      /\ Signed(inv)
      /\ InWindow(inv, None, t, Skew)
      /\ \E k \in DOMAIN chain : SamePrincipal(chain[k].iss, inv.sub)
      /\ \/ isIssuer
         \/ /\ inv.prf # << >>
            /\ MaxProofs # None => Len(inv.prf) <= MaxProofs
            /\ \A k \in DOMAIN inv.prf : inv.prf[k] \in Held
            /\ Authorized(m.inv, t, Skew)
            /\ ReachedHops(records, m.inv) = {}
      /\ \A k \in Above(m) : /\ InWindow(chain[k], chain[k].nbf, t, Skew)
                             /\ ~IsReached(records, m.chain, k)

----------------------------------------------------------------------------
(* Properties.                                                             *)

\* check_revocation accepts what an independent reading of the whole chain says
\* is entitled to be recorded, and nothing else: its fail-fast checks add up.
AcceptsTheEntitled ==
  [][\A m \in checked' \ checked :
       IF m \in accepted'
       THEN \E t \in Timestamp : Reading(t) /\ Entitled(m, revoked, t)
       ELSE \E t \in Timestamp : Reading(t) /\ ~Entitled(m, revoked, t)]_vars

\* No principal's revocation is recorded unless that principal issued in a chain
\* of this subject that ends in the delegation, and asked for it or handed on
\* the right to: nobody can cut a chain they are not in.
RecordsAreEarned ==
  \A r \in revoked \cup {Entry(m) : m \in pending} :
    r[2] # Everywhere => \E m \in Messages : EarnedBy(m, r[1], r[2])

\* Whoever lost their own authority can no longer take others down with them,
\* though the record that took it, or the delegation itself, may since be gone.
LostAuthorityRevokesNothing ==
  [][\A m \in accepted' \ accepted :
       /\ \A k \in Above(m) : ~IsReached(everRevoked, m.chain, k)
       /\ IsDelegated(m.inv, m.chain) => ReachedHops(everRevoked, m.inv) = {}]_vars

\* Nothing that the check of m looks at ever lapses, and m needs no grant.
Lasting(m) ==
  /\ Invocations[m.inv].exp = Never
  /\ \A k \in DOMAIN m.chain : LET d == Presented(m.chain)[k]
                               IN  d.exp = Never /\ d.nbf = None
  /\ ~IsDelegated(m.inv, m.chain)

\* The order in which revocations arrive does not matter to the chains they
\* came with: once a lasting one that an empty store would accept has been
\* checked, and recorded if it was accepted, its chain is refused, because a
\* later one is turned down only when an earlier one already cut the chain.
PresentedChainIsCut ==
  \A m \in checked \ pending :
    /\ Lasting(m)
    /\ CheckRevocationError([Validator(clock) EXCEPT !.revoked = {}],
                            Subject, m.inv, m.chain) = "Ok"
    => \E k \in DOMAIN m.chain : IsReached(revoked, m.chain, k)
=============================================================================
