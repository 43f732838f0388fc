SPECIFICATION FairSpec
CONSTANTS
  N = 4
  BranchAt = 1
  Target = 0
  Sessions <- MCSessions
INVARIANTS BreakpointsExact ClientInformed OneInsnPerStep
PROPERTIES TransparentUndisturbed StepReturns
