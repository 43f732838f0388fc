SPECIFICATION Spec
CONSTANTS
  Pages = {0, 1}
  NWays = 2
  NSets = 2
  Matches <- MCMatches
  Attributes <- MCAttributes
INVARIANTS TranslationExact
PROPERTIES LockExact Protected
