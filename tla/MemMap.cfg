SPECIFICATION FairSpec
CONSTANTS
  NAreas = 3
  Owned <- MCAll
INVARIANTS ControllerExact LookupExact
PROPERTIES ResetEnds
