SPECIFICATION Spec
CONSTANTS
  MaxTime = 2
  None = None
  Never = Never
  Powerline = Powerline
  Principal <- MCPrincipal
  DidPart <- MCDidPart
  Segment = {"x"}
  Args = {"a"}
  Key <- MCPrincipal
  Cid = {1}
  Link = {1, 2}
  InvCid = {1}
  Delegations <- MCDelegations
  Invocations <- MCInvocations
  Resolves <- MCResolves
  KeyOf <- MCKeyOf
  Worker = {w1}
  Skew = 1
  PruneSkew = 0
  Lag = 0
  MaxProofs = None
  Me = None
  Shared = FALSE
  Movable = {2}
  Arrivals <- MCArrivals
INVARIANTS
  AcceptedAtMostOnce
CHECK_DEADLOCK FALSE
