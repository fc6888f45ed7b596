SPECIFICATION Spec
CONSTANTS
  None = None
  Infos = 16
  Direct = 4
  Widths = 3
  MaxDepth = 4
  CidTag = 2
  NotUtf8 = 127
  FloatBytes = 1
  Group = 64
  MaxGroups = 3
  MaxTop = 1
  IndexMax = 15
  Cids <- MCCids
  CidTexts <- MCCidTexts
  NotFinite <- MCNotFinite
  Zero <- MCZero
  NegativeZero <- MCNegativeZero
  KeyLen <- MCKeyLen
  SignatureLen <- MCSignatureLen
  Available <- MCAvailable
  NotKeys <- MCNotKeys
  Twins <- MCTwins
  Policies <- MCPolicies
  TimeMax <- MCTimeMax
  Values <- MCValues
  Alphabet <- MCAlphabet
  MaxLen <- MCMaxLen
  Numbers <- MCNumbers
  Commands <- MCCommands
  Keys <- MCKeys
  Orders <- MCOrders
  SignatureOf <- MCSignatureOf
  Rewordings <- MCRewordings
INVARIANTS
  OneFormPerValue
  EncodedDecodes
  VarintsAreExact
  EmittedIsReadBack
  WhatVerifiesWasSigned
  SignedIsReadBack
  NothingSignedIsDropped
  SelectorReadsItsGrammar
  CoverageIsOnSegments
  KeyAndDidNameEachOther
CHECK_DEADLOCK FALSE
