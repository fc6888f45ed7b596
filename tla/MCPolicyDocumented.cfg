SPECIFICATION Spec
CONSTANTS
  None = None
  Significand = 8
  FloatLimit = 40
  KeyOrder <- MCKeyOrder
  Values <- MCValues
  Depth <- MCDepth
  MaxDepth = 8
  SelectorOf <- MCSelectorOf
  MatchesOf <- MCMatchesOf
  Wires <- MCWires
  Arguments <- MCArguments
  Numbers <- MCNumbers
  Positions <- MCPositions
INVARIANTS
  UnevaluableIsFalse
CHECK_DEADLOCK FALSE
