SPECIFICATION FairSpec
CONSTANTS
  TP_MOD = 3
  TTCR_MOD = 6
  SCHED_TIME_MAX = 5
  CHECK_INT_TIME = 3
  TPs <- MCTPs
  MaxCycles = 2
  MaxWrites = 2
INVARIANTS TimerJobsExact
PROPERTIES Tick_refines MatchDelivered DrainEnds
