------------------------------- MODULE MCSched ------------------------------
(* Instances of Sched for TLC.                                             *)
EXTENDS Sched

CONSTANTS dev, step      \* a peripheral's job; a job added with sched_next_insn

MCJobs == {dev, step}
MCNextJobs == {step}
MCPromptJobs == {step}
MCInsnDelays == {-2, 0, 1, 3}
MCJobDelays == {1, 2}
=============================================================================
