------------------------------- MODULE Atomic -------------------------------
(***************************************************************************)
(* Over stores a Validator borrows, validate is one step: the state machine *)
(* of Validate implements Gatekeeper.  A call takes its step where it       *)
(* returns, at the check that fails or in the replay guard.                 *)
(***************************************************************************)
EXTENDS Validate, Pipeline

ASSUME AnswerAssumption ==
  None \notin [inv : InvCid, now : Timestamp, error : Errors \cup {"Ok"}]

\* What the worker's call has answered, until it is back with its caller.
AnswerOf(w) ==
  IF pc[w] \in {"accepted", "rejected"}
  THEN [inv |-> inv[w], now |-> now[w], error |-> outcome[w].error]
  ELSE None

Gate == INSTANCE Gatekeeper WITH answer <- [w \in Worker |-> AnswerOf(w)]

\* What the pipeline and then the executor say of w's invocation, from the stores
\* as they now stand.
ComputedError(w) ==
  PipelineError([now |-> now[w], skew |-> Skew, max |-> MaxProofs,
                 held |-> held, revoked |-> revoked], inv[w])
  ?? ExecutorError(inv[w])

\* The loops of validate, check by check and hop by hop, come to the answer the
\* pipeline has as a function: a call over borrowed stores sees one state of
\* them, and only the replay guard can turn down what that function passes.
AnswerIsComputed ==
  \A w \in Worker : pc[w] \in {"accepted", "rejected"} =>
    outcome[w].error = ComputedError(w)
      ?? (IF pc[w] = "rejected" THEN "Replay" ELSE "Ok")

\* Every step is a decision made in one go, its delivery, a change of stores
\* between calls, or invisible.
IsAtomic == Gate!Spec
=============================================================================
