SPECIFICATION Spec
CONSTANTS
  MaxTime = 1
  None = None
  Never = Never
  Powerline = Powerline
  Principal <- MCPrincipals4
  DidPart <- MCDidPart
  Segment = {"x"}
  Args = {"a"}
  Key <- MCPrincipals4
  Cid = {1, 2, 3, 4}
  Link = {1, 2, 3, 4}
  InvCid = {1, 2}
  Delegations <- MCTwoDelegations
  Invocations <- MCTwoInvocations
  Resolves <- MCTwoResolves
  KeyOf <- MCKeyOf4
  Worker = {w1}
  Skew = 0
  PruneSkew = 0
  Lag = 0
  MaxProofs = None
  Me = None
  Shared = FALSE
  Movable = {4}
  Arrivals <- MCTwoArrivals
INVARIANTS
  RevocationIsIrreversible
PROPERTIES
  ValidateReturns
  IsAtomic
CHECK_DEADLOCK FALSE
