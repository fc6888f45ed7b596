SPECIFICATION OneCheckSpec
CONSTANTS
  MaxTime = 2
  None = None
  Never = Never
  Powerline = Powerline
  Principal <- MCPrincipal
  DidPart <- MCDidPart
  Segment <- MCSegment
  Args <- MCArgs
  Key <- MCKey
  Cid <- MCCid
  Link <- MCCid
  InvCid <- MCInvCid
  Delegations <- MCDelegations
  Invocations <- MCInvocations
  Resolves <- MCResolves
  KeyOf <- MCKeyOf
  RevokeCommand <- MCRevokeCommand
  ArgumentsOf <- MCArgumentsOf
  Subject <- MCSubject
  Messages <- MCMessages
  Held = {15, 16, 17, 18}
  Skew = 0
  MaxProofs = 3
  PruneSkew = 0
  Lag = 0
  Operator = {1, 2, 15}
PROPERTIES
  AcceptsTheEntitled
CHECK_DEADLOCK FALSE
