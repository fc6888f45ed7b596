SPECIFICATION OneCallSpec
CONSTANTS
  None = None
  Never = Never
  Powerline = Powerline
  MaxTime = 2
  Principal <- MCPrincipal
  DidPart <- MCDidPart
  Segment <- MCSegment
  Args <- MCArgs
  Key <- MCKey
  Cid <- MCCid
  Link <- MCCid
  InvCid <- MCInvCid
  Delegations <- MCDelegations
  Invocations <- MCInvocations
  Resolves <- MCResolves
  KeyOf <- MCKeyOf
  Skew = 1
  PruneSkew = 1
  Lag = 0
  MaxProofs = 3
  Me <- MCMe
  Shared = FALSE
  Movable = {}
  Arrivals <- MCArrivals
  Worker = {w1}
INVARIANTS
  RefusalFollowsTable
CHECK_DEADLOCK FALSE
