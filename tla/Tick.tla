-------------------------------- MODULE Tick --------------------------------
(***************************************************************************)
(* The tick timer (tick/tick.c): the special registers TTMR and TTCR, and  *)
(* the three scheduler jobs that stand for the timer hardware.  The        *)
(* counter itself is never stepped; its value is the number of cycles      *)
(* since cycle_count_at_tick_start, and a match with TTMR[TP] is a job     *)
(* scheduled in advance.  Every register write therefore has to recompute  *)
(* which jobs are queued and when they are due.                            *)
(***************************************************************************)
EXTENDS SchedOps, FiniteSets

CONSTANTS
  TP_MOD,          \* 2^28: TTMR[TP] and the part of TTCR compared with it
  TTCR_MOD,        \* 2^32: width of TTCR
  SCHED_TIME_MAX,  \* INT32_MAX
  CHECK_INT_TIME,  \* period of check_int
  TPs,             \* bound: periods a program writes
  MaxCycles,       \* bound: cycles one instruction takes
  MaxWrites        \* bound: register writes in a behaviour

ASSUME TickConstants ==
  /\ TP_MOD \in Nat /\ TP_MOD > 1
  /\ TTCR_MOD \in Nat /\ TTCR_MOD > 0 /\ TTCR_MOD % TP_MOD = 0
  /\ SCHED_TIME_MAX \in Nat /\ SCHED_TIME_MAX > TP_MOD
  /\ CHECK_INT_TIME \in Nat /\ CHECK_INT_TIME > 0
  /\ TPs \subseteq 0..(TP_MOD - 1)
  /\ MaxCycles \in Nat /\ MaxWrites \in Nat

VARIABLES
  ttmr,      \* SPR_TTMR: fields TP, IP, IE, M
  ttcr,      \* SPR_TTCR as stored, meaningful while the counter is stopped
  since,     \* (runtime.sim.cycles - cycle_count_at_tick_start) as a 32-bit value
  counting,  \* tick_counting
  tee,       \* SR[TEE]
  queue,     \* scheduler.job_queue
  phase,     \* "insn" while an instruction executes, "drain" in do_scheduler
  writes     \* register writes so far

vars == <<ttmr, ttcr, since, counting, tee, queue, phase, writes>>

Modes == {"DIS", "RT", "SR", "CR"}
TickJobs == {"tick_raise_except", "tick_restart", "tick_one_shot"}

LoopTest(q) == IF HeadDue(q) THEN "drain" ELSE "insn"

AfterReset == sched_add(<< Entry("sched_guard", SCHED_TIME_MAX) >>, "check_int", 1)

tick_reset == [TP |-> 0, IP |-> FALSE, IE |-> FALSE, M |-> "DIS"]

Init ==
  /\ ttmr = tick_reset /\ ttcr = 0 /\ counting = FALSE
  /\ since = 0
  /\ tee = FALSE
  /\ queue = AfterReset
  /\ phase = "insn"
  /\ writes = 0

-----------------------------------------------------------------------------
spr_read_ttcr == IF counting THEN since ELSE ttcr

(* Faulty variants of the parts of sched_timer_job: the wrapped distance   *)
(* is one short; a mode change leaves its job; no interrupt is scheduled.  *)
CyclesUntil_short(new, count) ==
  LET match_ttcr == count % TP_MOD
  IN  IF new.TP >= match_ttcr THEN new.TP - match_ttcr
      ELSE new.TP + (TP_MOD - 1 - match_ttcr)

RemoveStale_raise(q, prev, new) ==
  IF prev.IE /\ ~ new.IP THEN sched_find_remove(q, "tick_raise_except") ELSE q

AddRaise_never(q, new, until) == q

(* sched_timer_job: prev and new are the old and new TTMR, count the TTCR  *)
(* value, run the tick_counting flag.  Returns the new job queue.          *)
CyclesUntil(new, count) ==
  LET match_ttcr == count % TP_MOD
  IN  IF new.TP >= match_ttcr THEN new.TP - match_ttcr
      ELSE new.TP + (TP_MOD - 1 - match_ttcr) + 1

RemoveStale(q, prev, new) ==
  LET q1 == IF prev.IE /\ ~ new.IP THEN sched_find_remove(q, "tick_raise_except") ELSE q
  IN  CASE prev.M = "RT" -> sched_find_remove(q1, "tick_restart")
        [] prev.M = "SR" -> sched_find_remove(q1, "tick_one_shot")
        [] OTHER         -> q1

AddRaise(q, new, until) ==
  IF new.IE /\ ~ new.IP THEN sched_add(q, "tick_raise_except", until) ELSE q

sched_timer_job(q0, prev, new, count, run) ==
  LET q     == RemoveStale(q0, prev, new)
      until == CyclesUntil(new, count)
  IN  CASE new.M = "DIS" -> IF until = 0 THEN AddRaise(q, new, 0) ELSE q
        [] new.M = "RT"  -> AddRaise(sched_add(q, "tick_restart", until), new, until)
        [] new.M = "SR"  -> IF run
                            THEN AddRaise(sched_add(q, "tick_one_shot", until), new, until)
                            ELSE q
        [] new.M = "CR"  -> AddRaise(q, new, until)

-----------------------------------------------------------------------------
(* Instructions: l.mtspr to TTMR, TTCR and SR, and the passing of cycles.  *)
(* The debugger's writes to the same registers go through mtspr as well,   *)
(* several of them between two instructions.                               *)
spr_write_ttmr(tp, ie, m) ==
  /\ phase = "insn"
  /\ writes < MaxWrites
  /\ LET new   == [TP |-> tp, IP |-> FALSE, IE |-> ie, M |-> m]
         count == IF counting THEN since ELSE ttcr
         run   == m # "DIS"
     IN  /\ ttmr' = new
         /\ ttcr' = count
         /\ since' = count
         /\ counting' = run
         /\ queue' = sched_timer_job(queue, ttmr, new, count, run)
  /\ writes' = writes + 1
  /\ UNCHANGED <<tee, phase>>

spr_write_ttcr(value) ==
  /\ phase = "insn"
  /\ writes < MaxWrites
  /\ ttcr' = value
  /\ since' = value
  /\ queue' = sched_timer_job(queue, ttmr, ttmr, value, counting)
  /\ writes' = writes + 1
  /\ UNCHANGED <<ttmr, counting, tee, phase>>

(* l.mtspr to SR, or the l.rfe that leaves the exception handler.          *)
WriteTEE ==
  /\ phase = "insn"
  /\ tee' = ~ tee
  /\ UNCHANGED <<ttmr, ttcr, since, counting, queue, phase, writes>>

Clock(n) ==
  /\ phase = "insn"
  /\ since' = (since + n) % TTCR_MOD
  /\ queue' = Elapse(queue, n)
  /\ phase' = LoopTest(queue')
  /\ UNCHANGED <<ttmr, ttcr, counting, tee, writes>>

-----------------------------------------------------------------------------
(* do_scheduler: pop the head and run its function.                        *)
Popped(job) == phase = "drain" /\ queue[1].job = job

(* Faulty variants: the interrupt is raised once, or again at once.        *)
tick_raise_except_once ==
  /\ Popped("tick_raise_except")
  /\ ttmr' = [ttmr EXCEPT !.IP = TRUE]
  /\ queue' = PopHead(queue)
  /\ tee' = FALSE
  /\ phase' = LoopTest(queue')
  /\ UNCHANGED <<ttcr, since, counting, writes>>

tick_raise_except_now ==
  /\ Popped("tick_raise_except")
  /\ ttmr' = [ttmr EXCEPT !.IP = TRUE]
  /\ queue' = sched_add(PopHead(queue), "tick_raise_except", 0)
  /\ tee' = FALSE
  /\ phase' = LoopTest(queue')
  /\ UNCHANGED <<ttcr, since, counting, writes>>

(* The job is queued again for the next instruction until TTMR[IP] is      *)
(* cleared; the exception is only taken with SR[TEE], which it clears.     *)
tick_raise_except ==
  /\ Popped("tick_raise_except")
  /\ ttmr' = [ttmr EXCEPT !.IP = TRUE]
  /\ queue' = sched_next_insn(PopHead(queue), "tick_raise_except")
  /\ tee' = FALSE
  /\ phase' = LoopTest(queue')
  /\ UNCHANGED <<ttcr, since, counting, writes>>

(* Faulty variant: the cycle count of the restart is not noted.            *)
tick_restart_count ==
  /\ Popped("tick_restart")
  /\ ttcr' = 0
  /\ queue' = sched_add(PopHead(queue), "tick_restart", ttmr.TP)
  /\ phase' = LoopTest(queue')
  /\ UNCHANGED <<ttmr, since, counting, tee, writes>>

tick_restart ==
  /\ Popped("tick_restart")
  /\ ttcr' = 0
  /\ since' = 0
  /\ queue' = sched_add(PopHead(queue), "tick_restart", ttmr.TP)
  /\ phase' = LoopTest(queue')
  /\ UNCHANGED <<ttmr, counting, tee, writes>>

tick_one_shot ==
  /\ Popped("tick_one_shot")
  /\ ttcr' = ttmr.TP
  /\ counting' = FALSE
  /\ queue' = PopHead(queue)
  /\ phase' = LoopTest(queue')
  /\ UNCHANGED <<ttmr, since, tee, writes>>

check_int ==
  /\ Popped("check_int")
  /\ queue' = sched_add(PopHead(queue), "check_int", CHECK_INT_TIME)
  /\ phase' = LoopTest(queue')
  /\ UNCHANGED <<ttmr, ttcr, since, counting, tee, writes>>

sched_guard ==
  /\ Popped("sched_guard")
  /\ queue' = sched_add(PopHead(queue), "sched_guard", SCHED_TIME_MAX)
  /\ phase' = LoopTest(queue')
  /\ UNCHANGED <<ttmr, ttcr, since, counting, tee, writes>>

(* "reset" typed at check_int's prompt: the scheduler is reset first, then *)
(* the timer; check_int queues itself once more.  cpu_reset zeroes         *)
(* sim.cycles but nothing resets cycle_count_at_tick_start, so "since" may *)
(* be anything.                                                            *)
sim_reset ==
  /\ Popped("check_int")
  /\ writes < MaxWrites
  /\ ttmr' = tick_reset /\ ttcr' = 0 /\ counting' = FALSE
  /\ since' \in 0..(TTCR_MOD - 1)
  /\ tee' = FALSE
  /\ queue' = sched_add(AfterReset, "check_int", CHECK_INT_TIME)
  /\ phase' = LoopTest(queue')
  /\ writes' = writes + 1

-----------------------------------------------------------------------------
RunJob == tick_raise_except \/ tick_restart \/ tick_one_shot \/ check_int \/ sched_guard

Next ==
  \/ \E tp \in TPs, ie \in BOOLEAN, m \in Modes : spr_write_ttmr(tp, ie, m)
  \/ \E value \in 0..(TTCR_MOD - 1) : spr_write_ttcr(value)
  \/ WriteTEE
  \/ \E n \in 0..MaxCycles : Clock(n)
  \/ RunJob
  \/ sim_reset

Spec == Init /\ [][Next]_vars

(* The processor keeps executing and its fetches take cycles; do_scheduler *)
(* runs to completion if its loop ends.                                    *)
Fairness ==
  /\ WF_vars(\E n \in 1..MaxCycles : Clock(n))
  /\ WF_vars(RunJob)

FairSpec == Spec /\ Fairness

-----------------------------------------------------------------------------
TypeOK ==
  /\ ttmr \in [TP : 0..(TP_MOD - 1), IP : BOOLEAN, IE : BOOLEAN, M : Modes]
  /\ ttcr \in 0..(TTCR_MOD - 1) /\ since \in 0..(TTCR_MOD - 1)
  /\ counting \in BOOLEAN /\ tee \in BOOLEAN
  /\ queue \in Seq([job : TickJobs \cup {"check_int", "sched_guard"}, time : Int])
  /\ phase \in {"insn", "drain"}
  /\ writes \in 0..MaxWrites

Positions(job) == {i \in 1..Len(queue) : queue[i].job = job}
Queued(job) == Positions(job) # {}

(* The jobs in the queue are those the registers call for, whatever the    *)
(* sequence of writes, matches and resets: no job is queued twice, none is *)
(* left behind by a mode change, and an unacknowledged interrupt keeps its *)
(* job.                                                                    *)
JobsFollowRegisters ==
  /\ \A job \in TickJobs : Cardinality(Positions(job)) <= 1
  /\ Queued("tick_restart") <=> ttmr.M = "RT"
  /\ Queued("tick_one_shot") <=> (ttmr.M = "SR" /\ counting)
  /\ Queued("tick_raise_except") =>
       ttmr.IE /\ (ttmr.IP \/ counting \/ ttcr % TP_MOD = ttmr.TP)
  /\ ttmr.IE /\ (ttmr.IP \/ counting) => Queued("tick_raise_except")

(* While the counter runs, every job that stands for a match is due at the *)
(* very cycle the counter reaches TP (before now, if it is late).          *)
MatchOnTime ==
  counting =>
    \A i \in 1..Len(queue) :
      \/ queue[i].job = "tick_raise_except" /\ ~ ttmr.IP
      \/ queue[i].job \in {"tick_restart", "tick_one_shot"}
      => (since + DueIn(queue, i)) % TP_MOD = ttmr.TP

(* The jobs are the right ones and due at the right time: together they    *)
(* are what stands in for a counter that the code never steps.             *)
TimerJobsExact == TypeOK /\ JobsFollowRegisters /\ MatchOnTime

(* A running timer with its interrupt enabled raises it, unless a program  *)
(* stops the timer or masks the interrupt first.  Writes are bounded, so   *)
(* that a program cannot move the counter away from the match for ever.    *)
MatchHappens ==
  (ttmr.IE /\ counting) ~> (ttmr.IP \/ ~ ttmr.IE \/ ~ counting)

(* A pending interrupt is delivered once a program enables tick            *)
(* exceptions.                                                             *)
PendingDelivered == (ttmr.IP /\ tee) ~> (~ ttmr.IP \/ ~ tee)

(* From the match to the exception: neither half is lost.                  *)
MatchDelivered == MatchHappens /\ PendingDelivered

(* do_scheduler, called to "Execute all jobs till now" (sched.c:103),      *)
(* comes to an end and the processor executes the next instruction, except *)
(* for an auto-restart timer with TP = 0: its tick_restart is due again at *)
(* once, and the simulator hangs.                                          *)
ZeroPeriod == ttmr.M = "RT" /\ ttmr.TP = 0

DrainEnds == phase = "drain" ~> (phase = "insn" \/ ZeroPeriod)

-----------------------------------------------------------------------------
(* In the middle of do_scheduler a job that is due counts as done.         *)
Due(job) == phase = "drain" /\ \E i \in Positions(job) : DueIn(queue, i) <= 0

AbsTTCR ==
  IF Due("tick_restart") THEN 0
  ELSE IF Due("tick_one_shot") THEN ttmr.TP
  ELSE spr_read_ttcr

Abs == INSTANCE TickAbs WITH
         tp <- ttmr.TP, ie <- ttmr.IE, mode <- ttmr.M,
         ip <- (ttmr.IP \/ Due("tick_raise_except")),
         ttcr <- AbsTTCR,
         counting <- (counting /\ ~ Due("tick_one_shot")),
         executing <- (phase = "insn")

(* The jobs of tick.c implement the counter, match and interrupt of the    *)
(* timer, for instructions of any number of cycles and register writes at  *)
(* any time.                                                               *)
Tick_refines == Abs!Spec
=============================================================================
