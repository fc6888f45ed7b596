SPECIFICATION Spec
CONSTANTS
  MaxTime = 2
  None = None
  Never = Never
  Powerline = Powerline
  Principal <- MCPrincipal
  DidPart <- MCDidPart
  Segment = {"x"}
  Args = {"a"}
  Key <- MCPrincipal
  Cid = {1}
  Link = {1, 2}
  InvCid = {1}
  Delegations <- MCDelegations
  Invocations <- MCInvocations
  Resolves <- MCResolves
  KeyOf <- MCKeyOf
  Worker = {w1, w2}
  Skew = 0
  PruneSkew = 1
  Lag = 1
  MaxProofs = None
  Me = None
  Shared = TRUE
  Movable = {2}
  Arrivals <- MCArrivals
INVARIANTS
  TypeOK
  AcceptedAtMostOnce
  RevocationIsIrreversible
PROPERTIES
  OnlyPassingIsRecorded
  DroppedIsDead
CHECK_DEADLOCK FALSE
