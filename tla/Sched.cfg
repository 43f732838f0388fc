SPECIFICATION FairSpec
CONSTANTS
  dev = dev
  step = step
  sched_guard = sched_guard
  check_int = check_int
  Jobs <- MCJobs
  NextJobs <- MCNextJobs
  PromptJobs <- MCPromptJobs
  InsnDelays <- MCInsnDelays
  JobDelays <- MCJobDelays
  SCHED_HEAP_SIZE = 8
  SCHED_TIME_MAX = 6
  CHECK_INT_TIME = 3
  MaxCycles = 2
  MaxPast = 3
  MaxCopies = 2
INVARIANTS NoLeak OnlyHeadLate PopSafe HeapSuffices
PROPERTIES NothingLeftDue Sched_refines PromptPolled
