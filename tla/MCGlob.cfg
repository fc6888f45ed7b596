SPECIFICATION Spec
CONSTANTS
  AnyToken = AnyToken
  Char <- MCChar
  Texts <- MCTexts
  Patterns <- MCPatterns
  Inputs <- MCInputs
INVARIANTS
  TypeOK
  AnswerIsMeaning
  TextKeepsItsMeaning
PROPERTIES
  Advances
  Answers
CHECK_DEADLOCK FALSE
