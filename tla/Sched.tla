------------------------------- MODULE Sched --------------------------------
(***************************************************************************)
(* The scheduler of support/sched.c under the callers it has: register     *)
(* handlers that add and remove jobs while an instruction executes, job    *)
(* functions that do the same while do_scheduler drains the queue, the     *)
(* guard and check_int jobs that keep the queue from emptying, and         *)
(* sim_reset, which any command prompt may call.                           *)
(*                                                                         *)
(* Everything runs in one thread; what is interleaved is the order in      *)
(* which instructions, job functions and the command prompt call the       *)
(* scheduler.  "phase" says who is running:                                *)
(*   "insn"     an instruction of exec_main / or1ksim_run,                 *)
(*   "restart"  the rest of an iteration of it in which there was a reset, *)
(*   "drain"    the loop of do_scheduler, about to pop the head,           *)
(*   a job      that job's function, called by do_scheduler.               *)
(***************************************************************************)
EXTENDS SchedOps, FiniteSets

CONSTANTS
  Jobs,            \* client jobs: pairs (function, parameter) of peripherals, tick, PIC, CLI
  NextJobs,        \* those that are only ever added with sched_next_insn
  PromptJobs,      \* those that may open a command prompt (check_insn_exec, print_insn_exec)
  sched_guard,     \* the guard job
  check_int,       \* the perpetual poll of the command prompt
  SCHED_HEAP_SIZE, \* entries allocated by sched_init (128)
  SCHED_TIME_MAX,  \* INT32_MAX
  CHECK_INT_TIME,  \* period of check_int (100000)
  InsnDelays,      \* bound: job_time arguments used by instructions
  JobDelays,       \* bound: job_time arguments used by job functions
  MaxCycles,       \* bound: cycles one instruction takes
  MaxPast,         \* bound: cycles simulated before an in-loop reset
  MaxCopies        \* bound: entries one client job has in the queue

VARIABLES
  queue,           \* scheduler.job_queue
  free,            \* length of scheduler.free_job_queue
  phase            \* who is running

vars == <<queue, free, phase>>

AllJobs == Jobs \cup {sched_guard, check_int}

ASSUME SchedConstants ==
  /\ IsFiniteSet(Jobs) /\ NextJobs \subseteq Jobs /\ PromptJobs \subseteq Jobs
  /\ sched_guard \notin Jobs /\ check_int \notin Jobs
  /\ sched_guard # check_int
  /\ {"insn", "restart", "drain"} \cap AllJobs = {}
  /\ SCHED_HEAP_SIZE \in Nat /\ SCHED_HEAP_SIZE >= 2
  /\ SCHED_TIME_MAX \in Nat /\ SCHED_TIME_MAX > 0
  /\ CHECK_INT_TIME \in Nat /\ CHECK_INT_TIME > 0
  /\ InsnDelays \subseteq Int /\ JobDelays \subseteq Int
  /\ MaxCycles \in Nat /\ MaxPast \in Nat /\ MaxCopies \in Nat

Copies(job) == Cardinality({i \in 1..Len(queue) : queue[i].job = job})

-----------------------------------------------------------------------------
(* sched_init allocates the heap and calls sched_guard on the empty queue; *)
(* sim_reset (called by sim_init's callers before the first instruction)   *)
(* then adds the first check_int.                                          *)
GuardOnly == << Entry(sched_guard, SCHED_TIME_MAX) >>

AfterReset == sched_add(GuardOnly, check_int, 1)

Init ==
  /\ queue = AfterReset
  /\ free = SCHED_HEAP_SIZE - 2
  /\ phase = "insn"

-----------------------------------------------------------------------------
(* Calls of the scheduler's interface.  They are made by an instruction or *)
(* by a job function, never by do_scheduler itself.                        *)
Running == phase # "drain"

Delays == IF phase \in {"insn", "restart"} THEN InsnDelays ELSE JobDelays

(* SCHED_ADD (job, param, t).  The entry comes from the free list, which   *)
(* the code does not test for exhaustion: see HeapSuffices.                *)
SchedAdd(job, t) ==
  /\ Running
  /\ t \in Delays
  /\ Copies(job) < MaxCopies
  /\ free > 0
  /\ queue' = sched_add(queue, job, t)
  /\ free' = free - 1
  /\ UNCHANGED phase

SchedNextInsn(job) ==
  /\ Running
  /\ Copies(job) < MaxCopies
  /\ free > 0
  /\ queue' = sched_next_insn(queue, job)
  /\ free' = free - 1
  /\ UNCHANGED phase

(* Faulty variant: the unlinked entry is not put on the free list.         *)
SchedFindRemove_leak(job) ==
  /\ Running
  /\ IsQueued(queue, job)
  /\ queue' = sched_find_remove(queue, job)
  /\ UNCHANGED <<free, phase>>

(* SCHED_FIND_REMOVE (job, param) of a job that is queued; otherwise the   *)
(* call changes nothing.                                                   *)
SchedFindRemove(job) ==
  /\ Running
  /\ IsQueued(queue, job)
  /\ queue' = sched_find_remove(queue, job)
  /\ free' = free + 1
  /\ UNCHANGED phase

-----------------------------------------------------------------------------
(* The end of an iteration of the execution loop.                          *)
LoopTest(q) == IF HeadDue(q) THEN "drain" ELSE "insn"

Clock(n) ==
  /\ phase = "insn"
  /\ queue' = Elapse(queue, n)
  /\ phase' = LoopTest(Elapse(queue, n))
  /\ UNCHANGED free

(* Faulty variant: the popped entry is not put on the free list.           *)
RunJob_leak ==
  /\ phase = "drain"
  /\ queue[1].job # sched_guard
  /\ queue' = PopHead(queue)
  /\ phase' = queue[1].job
  /\ UNCHANGED free

(* One iteration of do_scheduler: pop the head, then call its function.    *)
(* The guard's function puts the guard back, all other functions are the   *)
(* steps between RunJob and EndJob.                                        *)
RunJob ==
  /\ phase = "drain"
  /\ queue[1].job # sched_guard
  /\ queue' = PopHead(queue)
  /\ free' = free + 1
  /\ phase' = queue[1].job

RunGuard ==
  /\ phase = "drain"
  /\ queue[1].job = sched_guard
  /\ queue' = sched_add(PopHead(queue), sched_guard, SCHED_TIME_MAX)
  /\ phase' = LoopTest(sched_add(PopHead(queue), sched_guard, SCHED_TIME_MAX))
  /\ UNCHANGED free

(* The function returns and do_scheduler tests the head.  check_int puts   *)
(* itself back last thing.                                                 *)
EndJob ==
  /\ phase \in Jobs
  /\ phase' = LoopTest(queue)
  /\ UNCHANGED <<queue, free>>

(* Faulty variant: check_int does not put itself back.                     *)
EndCheckInt_once ==
  /\ phase = check_int
  /\ phase' = LoopTest(queue)
  /\ UNCHANGED <<queue, free>>

EndCheckInt ==
  /\ phase = check_int
  /\ free > 0
  /\ queue' = sched_add(queue, check_int, CHECK_INT_TIME)
  /\ phase' = LoopTest(sched_add(queue, check_int, CHECK_INT_TIME))
  /\ free' = free - 1

-----------------------------------------------------------------------------
(* The "reset" command at a prompt opened by a job function (check_int,    *)
(* check_insn_exec, print_insn_exec): sched_reset frees the whole queue    *)
(* and puts the guard in, and sim_reset adds check_int with time 1.        *)
Reset ==
  /\ phase \in PromptJobs \cup {check_int}
  /\ queue' = AfterReset
  /\ free' = free + Len(queue) - 2
  /\ UNCHANGED phase

(* The same command at the prompt that a breakpoint or a stall opens in    *)
(* the middle of exec_main's iteration.  In both cases what the reset      *)
(* hooks of the peripherals add and remove are the steps that follow.      *)
ResetInLoop ==
  /\ phase \in {"insn", "restart"}
  /\ queue' = AfterReset
  /\ free' = free + Len(queue) - 2
  /\ phase' = "restart"

(* The end of that iteration.  cpu_reset zeroed sim.cycles while           *)
(* time_start kept the value it had, so the iteration that started after   *)
(* "past" cycles ends by ADDING them to the head: n - past have elapsed.   *)
ClockAfterReset(past, n) ==
  /\ phase = "restart"
  /\ queue' = Elapse(queue, n - past)
  /\ phase' = LoopTest(Elapse(queue, n - past))
  /\ UNCHANGED free

-----------------------------------------------------------------------------
Next ==
  \/ \E job \in Jobs \ NextJobs, t \in InsnDelays \cup JobDelays : SchedAdd(job, t)
  \/ \E job \in NextJobs : SchedNextInsn(job)
  \/ \E job \in Jobs : SchedFindRemove(job)
  \/ \E n \in 0..MaxCycles : Clock(n)
  \/ RunJob
  \/ RunGuard
  \/ EndJob
  \/ EndCheckInt
  \/ Reset
  \/ ResetInLoop
  \/ \E past \in 0..MaxPast, n \in 0..MaxCycles : ClockAfterReset(past, n)

Spec == Init /\ [][Next]_vars

(* The simulated processor executes instructions for ever and every job    *)
(* function returns.  Instruction fetches take cycles in a configuration   *)
(* whose memory has a read delay, so that among infinitely many            *)
(* instructions there are always more that take some, although others may  *)
(* take none.                                                              *)
Fairness ==
  /\ SF_vars(\E n \in 1..MaxCycles : Clock(n))
  /\ WF_vars(\E past \in 0..MaxPast, n \in 0..MaxCycles : ClockAfterReset(past, n))
  /\ WF_vars(RunJob)
  /\ WF_vars(RunGuard)
  /\ WF_vars(EndJob)
  /\ WF_vars(EndCheckInt)

FairSpec == Spec /\ Fairness

-----------------------------------------------------------------------------
TypeOK ==
  /\ queue \in Seq([job : AllJobs, time : Int])
  /\ free \in 0..SCHED_HEAP_SIZE
  /\ phase \in {"insn", "restart", "drain", check_int} \cup Jobs

(* No entry is ever lost or duplicated: the list of jobs and the free list *)
(* together hold the SCHED_HEAP_SIZE entries sched_init allocated.         *)
NoLeak == Len(queue) + free = SCHED_HEAP_SIZE

(* Only the head can be late.  sched_add computes the delta of an entry by *)
(* subtraction and sched_find_remove, do_scheduler and the execution loop  *)
(* move deltas between neighbours; do_scheduler stops at the first entry   *)
(* that is not due, so a negative delta behind it would hide a due job.    *)
OnlyHeadLate == \A i \in 2..Len(queue) : queue[i].time >= 0

(* do_scheduler adds the popped time to the NEW head without testing that  *)
(* there is one: whenever it pops, a second entry must be in the queue.    *)
(* The guard alone does not ensure it, because it is itself out of the     *)
(* queue when it is popped; check_int does.                                *)
GuardQueued == IsQueued(queue, sched_guard)
CheckIntQueued == phase = check_int \/ IsQueued(queue, check_int)
PopSafe == phase = "drain" => Len(queue) >= 2

(* sched_add takes its entry from the free list without a test.  As long   *)
(* as the clients have at most MaxCopies entries each, a heap of           *)
(* Cardinality(Jobs) * MaxCopies + 4 entries is never used up: the guard,  *)
(* and two check_int, which a reset typed at check_int's prompt leaves.    *)
HeapSuffices ==
  SCHED_HEAP_SIZE >= Cardinality(Jobs) * MaxCopies + 4 => free > 0

(* When do_scheduler returns to the execution loop nothing is due, though  *)
(* it only looked at the head ("Execute all jobs till now").               *)
NothingLeftDue ==
  [][ (phase # "insn" /\ phase' = "insn")
        => \A i \in 1..Len(queue') : DueIn(queue', i) > 0 ]_vars

(* ctrl-C is polled for ever: however jobs are added, removed and run,     *)
(* check_int runs again and again, unless the user keeps resetting the     *)
(* simulator before it comes to run.                                       *)
PromptPolled ==
  \/ []<>(phase = check_int)
  \/ []<><<Reset>>_vars
  \/ []<><<ResetInLoop>>_vars

-----------------------------------------------------------------------------
(* The cycles left of every queued job are the prefix sums of the deltas.  *)
Decode(q) == [i \in 1..Len(q) |-> [job |-> q[i].job, left |-> DueIn(q, i)]]

Abs == INSTANCE SchedAbs WITH pend <- Decode(queue)

(* The delta-encoded queue implements the list of absolute times: no       *)
(* operation of sched.c changes the due time of a job it is not about, and *)
(* jobs run in the order of their due times.                               *)
Sched_refines == Abs!Spec
=============================================================================
