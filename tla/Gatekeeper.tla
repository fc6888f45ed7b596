----------------------------- MODULE Gatekeeper -----------------------------
(***************************************************************************)
(* What Validator::validate promises a caller: an answer computed in one   *)
(* go from the stores as they stand, an invocation recorded exactly when   *)
(* it is accepted, and stores that change only between calls.              *)
(***************************************************************************)
EXTENDS Pipeline

CONSTANTS Worker, Skew, MaxProofs, Me

VARIABLES
  held, revoked, seen,  \* the stores
  answer                \* worker -> what its last call answered, None otherwise

vars == <<held, revoked, seen, answer>>

Answered(i, t, error) == [inv |-> i, now |-> t, error |-> error]

Init ==
  /\ held \subseteq Link
  /\ revoked = {}
  /\ seen = {}
  /\ answer = [w \in Worker |-> None]

\* validate: the pipeline, then the executor, then the replay guard.
DecisionError(i, t) ==
  PipelineError([now |-> t, skew |-> Skew, max |-> MaxProofs,
                 held |-> held, revoked |-> revoked], i)
  ?? (IF Me # None /\ ~SamePrincipal(ExecutorOf(Invocations[i]), Me)
      THEN "WrongExecutor" ELSE "Ok")
  ?? (IF i \in seen THEN "Replay" ELSE "Ok")

Decide(w, i, t) ==
  /\ answer[w] = None
  /\ answer' = [answer EXCEPT ![w] = Answered(i, t, DecisionError(i, t))]
  /\ seen' = IF DecisionError(i, t) = "Ok" THEN seen \cup {i} ELSE seen
  /\ UNCHANGED <<held, revoked>>

Acknowledge(w) ==
  /\ answer[w] # None
  /\ answer' = [answer EXCEPT ![w] = None]
  /\ UNCHANGED <<held, revoked, seen>>

\* Whoever owns the stores changes them when no answer is outstanding; only
\* validate adds to what the replay guard has seen.
StoresChange ==
  /\ \A w \in Worker : answer[w] = None
  /\ held' \subseteq Link
  /\ revoked' \subseteq Cid \X (Principal \cup {Everywhere})
  /\ seen' \subseteq seen
  /\ UNCHANGED answer

Next ==
  \/ \E w \in Worker, i \in InvCid, t \in Timestamp : Decide(w, i, t)
  \/ \E w \in Worker : Acknowledge(w)
  \/ StoresChange

Spec == Init /\ [][Next]_vars
=============================================================================
