SPECIFICATION Spec
CONSTANTS
  MaxTime = 1
  None = None
  Never = Never
  Powerline = Powerline
  Principal <- MCPrincipal
  DidPart <- MCDidPart
  Segment <- MCSegment
  Args = {1, 2, 3, 4, 5}
  Key <- MCPrincipal
  Cid = {1, 2, 3, 4, 5}
  Link = {1, 2, 3, 4, 5}
  InvCid = {1, 2, 3, 4, 5, 6}
  Delegations <- MCDelegations
  Invocations <- MCInvocations
  Resolves <- MCResolves
  KeyOf <- MCKeyOf
  RevokeCommand <- MCRevokeCommand
  ArgumentsOf <- MCArgumentsOf
  Subject <- MCSubject
  Messages <- MCMessages
  Held = {5}
  Skew = 0
  MaxProofs = 3
  PruneSkew = 1
  Lag = 1
  Operator = {4}
INVARIANTS
  TypeOK
  RecordsAreEarned
  PresentedChainIsCut
PROPERTIES
  LostAuthorityRevokesNothing
CHECK_DEADLOCK FALSE
