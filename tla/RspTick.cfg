SPECIFICATION Spec
CONSTANTS
  N = 4
  BranchAt = 1
  Target = 0
  Sessions <- MCTicking
PROPERTIES Transparent
