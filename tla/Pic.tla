-------------------------------- MODULE Pic ---------------------------------
(***************************************************************************)
(* Interrupt delivery: the programmable interrupt controller (pic/pic.c),  *)
(* the special registers PICSR, PICMR, SR, ESR and EPCR behind mtspr and   *)
(* l.rfe (cpu/or1k/sprs.c, cpu/or32/insnset.c), except_handle              *)
(* (cpu/or1k/except.c), the external interrupt requests of the library     *)
(* interface (libtoplevel.c), power management (pm/pm.c), which interrupts *)
(* switch off, and the tick exception, which competes for the same SR and  *)
(* the same scheduler queue.                                               *)
(*                                                                         *)
(* An interrupt that may be taken is a pic_rep_int job with time 0, added  *)
(* when the line is reported or when a register write enables it, and run  *)
(* by do_scheduler at the end of the instruction, unless or1ksim_run       *)
(* returns before it gets there.  Lines are reported by instructions that  *)
(* touch a device and by the jobs of devices.  The PIC is configured in    *)
(* (config.pic.enabled) and the DSR stops no exception.                    *)
(***************************************************************************)
EXTENDS SchedOps, FiniteSets

CONSTANTS
  Lines,           \* interrupt lines
  ExtLines,        \* lines that the library's caller drives
  NMI,             \* lines that use_nmi keeps unmasked, {} without use_nmi
  EdgeTriggers,    \* the values of config.pic.edge_trigger
  Libraries,       \* whether or1ksim_run is the loop, or exec_main
  pm_enabled,      \* config.pm.enabled, 0 or 1
  SCHED_TIME_MAX, CHECK_INT_TIME,
  slowdown,        \* cycles between two runs of a device's job, kbd->slowdown
  PMRs,            \* bound: values programs write to PMR, of LowPower
  TickDelays,      \* bound: cycles until a timer match
  MaxCycles,       \* bound: cycles one instruction takes
  MaxReports       \* bound: pic_rep_int jobs that one instruction leaves

ASSUME PicConstants ==
  /\ IsFiniteSet(Lines) /\ ExtLines \subseteq Lines /\ NMI \subseteq Lines
  /\ EdgeTriggers \subseteq BOOLEAN /\ Libraries \subseteq BOOLEAN /\ pm_enabled \in {0, 1}
  /\ SCHED_TIME_MAX \in Nat /\ SCHED_TIME_MAX > 0
  /\ CHECK_INT_TIME \in Nat /\ CHECK_INT_TIME > 0 /\ slowdown \in Nat /\ slowdown > 0
  /\ PMRs \subseteq {0, 16, 32, 48}
  /\ TickDelays \subseteq Nat /\ MaxCycles \in Nat /\ MaxReports \in Nat

VARIABLES
  edge_trigger,    \* config.pic.edge_trigger
  library,         \* or1ksim_run is the loop, not exec_main
  picsr, picmr,    \* sets of lines
  sr, esr,         \* the IEE and TEE bits of SR and ESR
  pc, epcr,        \* "prog" outside, "vec" inside an exception handler
  ext_int_set, ext_int_clr,   \* requests waiting for the run loop
  pmr,             \* the bits DME and SME of PMR, as a number
  queue,           \* scheduler.job_queue
  phase            \* "insn" or "drain", as in Tick; "stopped" between two calls of or1ksim_run

conf == <<edge_trigger, library>>
cpu == <<sr, esr, pc, epcr>>
ext == <<ext_int_set, ext_int_clr>>
vars == <<conf, picsr, picmr, cpu, ext, pmr, queue, phase>>

Bits == [IEE : BOOLEAN, TEE : BOOLEAN]
Off == [IEE |-> FALSE, TEE |-> FALSE]

LoopTest(q) == IF HeadDue(q) THEN "drain" ELSE "insn"

SPR_PMR_DME == 16
SPR_PMR_SME == 32
LowPower == {0, SPR_PMR_DME, SPR_PMR_SME, SPR_PMR_DME + SPR_PMR_SME}

(* An instruction executes.  exec_main skips cpu_clock if the BITWISE and  *)
(* of config.pm.enabled and the two bits is not zero; pm_enabled being 0   *)
(* or 1, that is the lowest bit of pmr.  or1ksim_run does not ask.         *)
Executing ==
  /\ phase = "insn"
  /\ library \/ pm_enabled * (pmr % 2) = 0

Positions(job) == {i \in 1..Len(queue) : queue[i].job = job}
Queued(job) == Positions(job) # {}

(* sched_reset, kbd_reset and the check_int that sim_reset adds.           *)
AfterReset ==
  LET q == sched_add(<< Entry("sched_guard", SCHED_TIME_MAX) >>, "kbd_job", slowdown)
  IN  sched_add(q, "check_int", 1)

(* After sim_reset: pic_reset, pm_reset, the reset exception in cpu_reset. *)
Init ==
  /\ edge_trigger \in EdgeTriggers /\ library \in Libraries
  /\ picsr = {} /\ picmr = NMI
  /\ sr = Off /\ esr = Off /\ pc = "prog" /\ epcr = "prog"
  /\ ext_int_set = {} /\ ext_int_clr = {}
  /\ pmr = 0
  /\ queue = AfterReset
  /\ phase = "insn"

-----------------------------------------------------------------------------
(* Faulty variant: the job is left for the next instruction.               *)
AddReports_later(q, k) ==
  LET add[i \in 0..k] == IF i = 0 THEN q ELSE sched_add(add[i - 1], "pic_rep_int", MaxCycles + 1)
  IN  add[k]

(* SCHED_ADD (pic_rep_int, NULL, 0), k times.                              *)
AddReports(q, k) ==
  LET add[i \in 0..k] == IF i = 0 THEN q ELSE sched_add(add[i - 1], "pic_rep_int", 0)
  IN  add[k]

RoomFor(k) == Cardinality(Positions("pic_rep_int")) + k <= MaxReports

(* Reporting a set of lines: those already pending are ignored, the others *)
(* become pending and each one that is unmasked adds a job if SR[IEE].     *)
Reported(ls) == IF sr.IEE THEN Cardinality((ls \ picsr) \cap picmr) ELSE 0

(* pic_ints_en: one job if anything unmasked is pending.                   *)
pic_ints_en(q, mask) == IF mask \cap picsr # {} THEN sched_add(q, "pic_rep_int", 0) ELSE q

(* except_handle for EXCEPT_INT and EXCEPT_TICK.                           *)
except_handle ==
  /\ esr' = sr
  /\ sr' = Off
  /\ epcr' = pc
  /\ pc' = "vec"

-----------------------------------------------------------------------------
(* Register writes and peripheral accesses of an instruction.              *)
report_interrupt(l) ==
  /\ Executing
  /\ pmr' = 0
  /\ RoomFor(Reported({l}))
  /\ picsr' = picsr \cup {l}
  /\ queue' = AddReports(queue, Reported({l}))
  /\ UNCHANGED <<conf, picmr, cpu, ext, phase>>

clear_interrupt(l) ==
  /\ Executing
  /\ l \in picsr
  /\ picsr' = picsr \ {l}
  /\ UNCHANGED <<conf, picmr, cpu, ext, pmr, queue, phase>>

mtspr_PICMR(mask) ==
  /\ Executing
  /\ RoomFor(1)
  /\ picmr' = mask \cup NMI
  /\ queue' = IF sr.IEE THEN pic_ints_en(queue, mask \cup NMI) ELSE queue
  /\ UNCHANGED <<conf, picsr, cpu, ext, pmr, phase>>

(* Read only when the PIC is level triggered.  Programs clear bits here;   *)
(* one that sets them (and so raises no interrupt) is not considered.      *)
mtspr_PICSR(value) ==
  /\ Executing
  /\ value \subseteq picsr
  /\ picsr' = IF edge_trigger THEN value ELSE picsr
  /\ UNCHANGED <<conf, picmr, cpu, ext, pmr, queue, phase>>

SRHook(value) ==
  /\ RoomFor(1)
  /\ sr' = value
  /\ queue' = IF value.IEE /\ ~ sr.IEE THEN pic_ints_en(queue, picmr) ELSE queue

mtspr_SR(value) ==
  /\ Executing
  /\ SRHook(value)
  /\ UNCHANGED <<conf, picsr, picmr, esr, pc, epcr, ext, pmr, phase>>

(* Faulty variant: l.rfe writes SR without its hook.                       *)
l_rfe_direct ==
  /\ Executing /\ pc = "vec"
  /\ sr' = esr
  /\ pc' = epcr
  /\ UNCHANGED <<conf, picsr, picmr, esr, epcr, ext, pmr, queue, phase>>

(* A handler returns: SR is restored by mtspr, so its hook runs.           *)
l_rfe ==
  /\ Executing /\ pc = "vec"
  /\ SRHook(esr)
  /\ pc' = epcr
  /\ UNCHANGED <<conf, picsr, picmr, esr, epcr, ext, pmr, phase>>

mtspr_PMR(value) ==
  /\ Executing
  /\ pmr' = value
  /\ UNCHANGED <<conf, picsr, picmr, cpu, ext, queue, phase>>

(* The tick timer, reduced to what it does to the queue and to SR (Tick    *)
(* has the rest): a match is scheduled, and acknowledged by a TTMR write.  *)
TickStart(t) ==
  /\ Executing
  /\ ~ Queued("tick_raise_except")
  /\ queue' = sched_add(queue, "tick_raise_except", t)
  /\ UNCHANGED <<conf, picsr, picmr, cpu, ext, pmr, phase>>

TickAck ==
  /\ Executing
  /\ Queued("tick_raise_except")
  /\ queue' = sched_find_remove(queue, "tick_raise_except")
  /\ UNCHANGED <<conf, picsr, picmr, cpu, ext, pmr, phase>>

-----------------------------------------------------------------------------
(* The library interface: requests are flags until the run loop sees them. *)
or1ksim_interrupt(i) ==
  /\ library /\ phase # "drain" /\ edge_trigger
  /\ ext_int_set' = ext_int_set \cup {i}
  /\ UNCHANGED <<conf, picsr, picmr, cpu, ext_int_clr, pmr, queue, phase>>

or1ksim_interrupt_set(i) ==
  /\ library /\ phase # "drain" /\ ~ edge_trigger
  /\ ext_int_set' = ext_int_set \cup {i}
  /\ UNCHANGED <<conf, picsr, picmr, cpu, ext_int_clr, pmr, queue, phase>>

or1ksim_interrupt_clear(i) ==
  /\ library /\ phase # "drain" /\ ~ edge_trigger
  /\ ext_int_clr' = ext_int_clr \cup {i}
  /\ UNCHANGED <<conf, picsr, picmr, cpu, ext_int_set, pmr, queue, phase>>

(* or1ksim_run returns without looking at the requests or the scheduler,   *)
(* because of a breakpoint or of a stall (DMR1[ST] after each              *)
(* instruction), and is called again once the stall is lifted.             *)
ReturnEarly ==
  /\ library /\ phase = "insn"
  /\ phase' = "stopped"
  /\ UNCHANGED <<conf, picsr, picmr, cpu, ext, pmr, queue>>

or1ksim_run ==
  /\ phase = "stopped"
  /\ phase' = "insn"
  /\ UNCHANGED <<conf, picsr, picmr, cpu, ext, pmr, queue>>

(* The end of an iteration of the run loop.  or1ksim_run first reports the *)
(* lines requested to be set, then clears those requested to be cleared;   *)
(* exec_main has no requests.  Then the scheduler is brought up to date.   *)
Iterate(n) ==
  /\ phase = "insn"
  /\ pmr' = IF ext_int_set = {} THEN pmr ELSE 0
  /\ picsr' = (picsr \cup ext_int_set) \ ext_int_clr
  /\ ext_int_set' = {} /\ ext_int_clr' = {}
  /\ queue' = Elapse(AddReports(queue, Reported(ext_int_set)), n)
  /\ phase' = LoopTest(queue')
  /\ UNCHANGED <<conf, picmr, cpu>>

-----------------------------------------------------------------------------
(* do_scheduler's jobs.                                                    *)
Popped(job) == phase = "drain" /\ queue[1].job = job

(* Faulty variant: the job waits for the end of the exception handler.     *)
pic_rep_int_wait ==
  /\ Popped("pic_rep_int")
  /\ IF picsr # {} /\ pc # "vec" THEN except_handle ELSE UNCHANGED cpu
  /\ queue' = IF picsr # {} /\ pc = "vec" THEN sched_add(PopHead(queue), "pic_rep_int", 0)
              ELSE PopHead(queue)
  /\ phase' = LoopTest(queue')
  /\ UNCHANGED <<conf, picsr, picmr, ext, pmr>>

(* The job tests PICSR, not the mask and not SR[IEE].                      *)
pic_rep_int ==
  /\ Popped("pic_rep_int")
  /\ IF picsr # {} THEN except_handle ELSE UNCHANGED cpu
  /\ queue' = PopHead(queue)
  /\ phase' = LoopTest(queue')
  /\ UNCHANGED <<conf, picsr, picmr, ext, pmr>>

tick_raise_except ==
  /\ Popped("tick_raise_except")
  /\ IF sr.TEE THEN except_handle ELSE UNCHANGED cpu
  /\ queue' = sched_next_insn(PopHead(queue), "tick_raise_except")
  /\ phase' = LoopTest(queue')
  /\ UNCHANGED <<conf, picsr, picmr, ext, pmr>>

(* The job of a device: it may report its line, and queues itself again.   *)
(* The keyboard's stands for those of the UART, the Ethernet MAC and DMA   *)
(* too, so that it may report any line.                                    *)
kbd_job(ls) ==
  /\ Popped("kbd_job")
  /\ pmr' = IF ls = {} THEN pmr ELSE 0
  /\ picsr' = picsr \cup ls
  /\ queue' = sched_add(AddReports(PopHead(queue), Reported(ls)), "kbd_job", slowdown)
  /\ phase' = LoopTest(queue')
  /\ UNCHANGED <<conf, picmr, cpu, ext>>

Periodic(job) == IF job = "check_int" THEN CHECK_INT_TIME ELSE SCHED_TIME_MAX

PeriodicJob ==
  /\ \E job \in {"check_int", "sched_guard"} :
       Popped(job) /\ queue' = sched_add(PopHead(queue), job, Periodic(job))
  /\ phase' = LoopTest(queue')
  /\ UNCHANGED <<conf, picsr, picmr, cpu, ext, pmr>>

(* "reset" typed at check_int's prompt.  cpu_reset enters the reset vector *)
(* through except_handle, which leaves EPCR alone, and nothing forgets the *)
(* requests of the library's caller.                                       *)
sim_reset ==
  /\ Popped("check_int")
  /\ picsr' = {} /\ picmr' = NMI /\ pmr' = 0
  /\ esr' = sr /\ sr' = Off /\ pc' = "prog"
  /\ queue' = sched_add(AfterReset, "check_int", CHECK_INT_TIME)
  /\ phase' = LoopTest(queue')
  /\ UNCHANGED <<conf, epcr, ext>>

-----------------------------------------------------------------------------
RunJob ==
  \/ pic_rep_int \/ tick_raise_except \/ PeriodicJob
  \/ kbd_job({}) \/ \E l \in Lines : kbd_job({l})

Next ==
  \/ \E l \in Lines : report_interrupt(l) \/ clear_interrupt(l)
  \/ \E l \in ExtLines :
       \/ or1ksim_interrupt(l) \/ or1ksim_interrupt_set(l) \/ or1ksim_interrupt_clear(l)
  \/ \E mask \in SUBSET Lines : mtspr_PICMR(mask) \/ mtspr_PICSR(mask)
  \/ \E value \in Bits : mtspr_SR(value)
  \/ \E value \in PMRs : mtspr_PMR(value)
  \/ l_rfe
  \/ \E t \in TickDelays : TickStart(t)
  \/ TickAck
  \/ ReturnEarly \/ or1ksim_run
  \/ \E n \in 0..MaxCycles : Iterate(n)
  \/ RunJob
  \/ sim_reset

Spec == Init /\ [][Next]_vars

(* Instructions are executed for ever and take cycles; job functions       *)
(* return.  The library's caller calls or1ksim_run again, and does not     *)
(* have it return early after every single instruction for ever.           *)
Fairness ==
  /\ SF_vars(\E n \in 1..MaxCycles : Iterate(n))
  /\ WF_vars(RunJob)
  /\ WF_vars(or1ksim_run)

FairSpec == Spec /\ Fairness

-----------------------------------------------------------------------------
TypeOK ==
  /\ edge_trigger \in EdgeTriggers /\ library \in Libraries
  /\ picsr \subseteq Lines /\ picmr \subseteq Lines
  /\ sr \in Bits /\ esr \in Bits
  /\ pc \in {"prog", "vec"} /\ epcr \in {"prog", "vec"}
  /\ ext_int_set \subseteq Lines /\ ext_int_clr \subseteq Lines
  /\ pmr \in LowPower
  /\ queue \in Seq([job : {"pic_rep_int", "tick_raise_except", "kbd_job", "check_int",
                           "sched_guard"}, time : Int])
  /\ phase \in {"insn", "drain", "stopped"}

Deliverable == sr.IEE /\ picsr \cap picmr # {}

(* No interrupt is lost: while one is pending, unmasked and enabled, the   *)
(* job that takes it is queued, whichever of the line, the mask and        *)
(* SR[IEE] came last, and whichever way SR was written (l.rfe included).   *)
NoLostInterrupt == TypeOK /\ (Deliverable => Queued("pic_rep_int"))

(* "PIC interrupts are scheduled to take place after the current           *)
(* instruction has completed execution" (pic.c:66): when the loop goes on  *)
(* to the next instruction, after the scheduler's update or after its last *)
(* due job, no report is left in the queue, neither one that was added     *)
(* while another job ran nor one that an early return of or1ksim_run left  *)
(* behind.  Only the step or1ksim_run starts an instruction with reports   *)
(* queued: the early return skipped the update that would have taken them. *)
TakenAfterInsn ==
  [][ phase' = "insn" /\ (phase = "drain" \/ \E n \in 0..MaxCycles : Iterate(n))
        => \A i \in 1..Len(queue') : queue'[i].job # "pic_rep_int" ]_vars

(* A deliverable interrupt leads to an exception (which clears SR[IEE]),   *)
(* unless it is cleared, masked or disabled before the instruction ends:   *)
(* reported by an instruction or by a job, and early returns between.      *)
DeliverableIsTaken == Deliverable ~> ~ Deliverable
=============================================================================
