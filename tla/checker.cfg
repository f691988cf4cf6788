SPECIFICATION Spec
CONSTANTS
  Words <- MCWords
  Stold <- MCStold
  Pointed <- MCPointed
  NoConversion = NoConversion
  NaN = NaN
  Inf = Inf
  NoFile = NoFile
  One = 10
  kDefaultThreshold = 1
  kBufSize = 2
  Cases <- MCCases
INVARIANTS
  DecidesReference
  StricterImplies
  MatchAccepted
PROPERTIES
  Ends
CHECK_DEADLOCK FALSE
