SPECIFICATION FairSpec
CONSTANTS
  uart = uart
  eth = eth
  Lines <- MCLines
  ExtLines <- MCExtLines
  NMI <- MCNMI
  EdgeTriggers = {TRUE, FALSE}
  Libraries = {TRUE, FALSE}
  pm_enabled = 1
  SCHED_TIME_MAX = 4
  CHECK_INT_TIME = 2
  slowdown = 2
  PMRs = {0, 16}
  TickDelays = {2}
  MaxCycles = 1
  MaxReports = 1
INVARIANTS NoLostInterrupt
PROPERTIES TakenAfterInsn DeliverableIsTaken
