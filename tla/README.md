# Or1ksim in TLA+

Or1ksim is an instruction-set simulator of the OpenRISC 1000 architecture: a CPU, MMUs, caches, a tick
timer, an interrupt controller, a debug unit, peripherals on a memory map, a GDB server, and a library
interface for embedding, with JTAG access. Everything runs in one thread. Concurrency comes from *order*: instructions,
scheduled jobs, exceptions, prompts, library callers and GDB packets act on shared state between two
steps of one loop. This directory holds TLA+ modules of that core and of its main devices, the TLC configurations that check
them, and TLAPS proofs about the scheduler, the tick timer, the interrupt controller, the GDB server, the MMUs, the
caches, the UART, the Ethernet and DMA controllers and the memory map.

`PROJECT.json` has the same information for tools: components, runs, mutants (for each property a
deliberately wrong form of one definition that must break it), the map from definitions to source lines,
findings, hazards and theorems.

## 1. Inventory

| Component | State | Operations | Talks to | What makes it correct |
|---|---|---|---|---|
| Scheduler (`support/sched.c`) | job list with delta times, free list | `sched_add`, `sched_next_insn`, `sched_find_remove`, `do_scheduler`, `sched_reset` | called by every timed device and both run loops; calls job functions, which call it back | due times unaffected by other jobs; nothing due is left; no entry lost; never empty |
| Run loops (`cpu/or32/execute.c`, `libtoplevel.c`) | `sim.cycles`, stall flag, pc/pcnext/delay_insn, store buffer | one iteration: stall loop, power test, `cpu_clock`, step stall, scheduler update | scheduler, debug unit, RSP, PIC (library requests) | jobs, interrupts and stops happen after the instruction they belong to |
| Tick timer (`tick/tick.c`) | TTMR, TTCR, start cycle, `tick_counting`, three jobs | register writes, three job functions | scheduler, `except_handle` | queued jobs are those the registers ask for; matches on the right cycle |
| PIC (`pic/pic.c`) | PICSR, PICMR, `pic_rep_int` jobs | report/clear, register writes, `pic_ints_en` | scheduler, SR hooks in `sprs.c`, library requests, PM | no interrupt lost, none late |
| Power management (`pm/pm.c`) | PMR | write, cleared by interrupts | run loop | low-power modes stop the CPU until an interrupt |
| Exceptions (`cpu/or1k/except.c`) | EPCR, ESR, EEAR, SR | `except_handle` | debug unit first, then the CPU | the program can be resumed |
| Debug unit (`debug/debug-unit.c`) | DMR/DSR/DRR/DVR/DCR, `cpu.stalled` | stall, `debug_ignore_exception`, watchpoints | run loop, RSP, JTAG | a stopped CPU stays stopped |
| RSP server (`debug/rsp-server.c`) | connection, `client_waiting`, `sigval`, matchpoint table | packet handlers, stop replies | GDB client, debug unit, memory, SPRs | breakpoints are transparent, one reply per request |
| JTAG (`debug/jtag.c`) | instruction, selected module, recorded command | select, read/write command and control, go | debug unit, memory, SPRs, library caller | a block is moved exactly over a wire that fails |
| SPRs, instruction set (`cpu/or1k/sprs.c`, `cpu/or32/insnset.c`) | registers, flags, load lock | one function per instruction, `mtspr` hooks | everything | architecture manual |
| MMUs (`mmu/dmmu.c`, `mmu/immu.c`) | TLB ways with LRU | translate, peek, register writes | `abstract.c`, exceptions | protection; translation and its duplicate agree |
| Caches (`cache/*.c`) | ways, LRU, lines | read, write, fetch, invalidate | memory | a load gets what is in memory |
| Memory map (`cpu/common/abstract.c`), memory controller (`peripheral/mc.c`) | list of areas, area of the last access, CSC/BA_MASK | lookup, register writes, `mc_reset` | every access | each access reaches the one right area |
| UART (`peripheral/16450.c`) | FIFOs, LSR/IIR/IER, pending interrupts, six jobs | register access, job functions | scheduler, PIC, host channel | characters in order, interrupts announced |
| Ethernet (`peripheral/eth.c`) | MODER, INT_SOURCE/MASK, descriptors, two clock jobs | register and descriptor access, clocks | scheduler, PIC, TAP device, driver | packets in order, interrupts not dropped |
| DMA (`peripheral/dma.c`) | channel registers, transfer state, a job per channel | register access, channel clock, descriptors | scheduler, PIC, memory, devices | what was asked for is copied |
| Keyboard (`peripheral/ps2kbd.c`) | buffers, one job | register access, `kbd_job` | scheduler, PIC, host file | its job and its line, in `Pic` |
| ATA, GPIO, VGA, frame buffer, flash, generic | registers, jobs of ATA, GPIO, VGA and frame buffer | register access, jobs | host files, VAPI, upcalls | not modelled |
| Control (`toplevel*.c`, `sim-cmd.c`) | queue of resets, prompt | start-up, reset, ctrl-C poll, commands | everything | a reset leaves a usable simulator |
| Configuration, loader, profilers, CUC, VAPI, vendored code | - | input and output | - | not modelled |

The hard behaviours: a job function that calls the scheduler which is in the middle of its loop; a reset from a prompt
inside a job function; registers written in any order relative to jobs already queued; two jobs on the same cycle;
several reports and a tick in one drain; a library call that returns before the scheduler's update; a tick exception
in the iteration in which the debugger stops the processor; a GDB client that repeats packets, dies with a reply owed,
or reconnects; a JTAG wire that spoils requests and answers or leads them astray; devices and drivers that share
rings, FIFOs and an interrupt line; stores and exceptions between a load-linked and its store-conditional; a refill
that fails half way; a list relinked in place by every reset. They are the entries of `hazards` in `PROJECT.json`,
each at its line.

## 2. Modules and how they correspond to the code

| Module | Models | Composes |
|---|---|---|
| `SchedOps` | the queue algorithms of `sched.c` as operators on sequences | - |
| `SchedOpsProofs` | what these algorithms do to any queue: lemmas for the three proofs that have one | `SchedOps`, TLAPS |
| `Sched` | scheduler with its callers: instructions, job functions, guard, `check_int`, resets; refinement mapping to `SchedAbs` | `SchedOps`, `SchedAbs` |
| `SchedAbs` | abstract specification: a list of jobs with the cycles left of each | - |
| `MCSched` | instance of `Sched` | `Sched` |
| `SchedProofs` | proofs about `Sched` | `Sched`, `SchedOpsProofs` |
| `Tick`, `MCTick` | TTMR/TTCR, the three jobs on the real queue, refinement mapping to `TickAbs` | `SchedOps`, `TickAbs` |
| `TickAbs` | abstract specification: a counter with a comparator, no scheduler | - |
| `Pic`, `MCPic` | PIC, SR/ESR/EPCR, `except_handle`, PMR, library requests, tick exceptions, on the real queue | `SchedOps` |
| `Rsp`, `MCRsp` | GDB client, RSP server, stall state, iteration of `exec_main`, breakpoints in program memory | - |
| `Jtag`, `MCJtag` | JTAG interface, a client that recovers, an unreliable wire | - |
| `Mmu`, `MCMmu` | TLB, loads, stores, fetches, `l.lwa`/`l.swa`, MMU exceptions, DSR | - |
| `Cache` | both caches, memory, accesses around the cache | - |
| `MemMap`, `MCMemMap` | lookup with the remembered area, memory controller, `mc_reset` | - |
| `Uart`, `MCUart` | UART with its jobs, a program, a host channel | - |
| `Eth` | Ethernet controller, its clocks, a driver, a TAP device | - |
| `Dma` | DMA controller, two channels, a program, a requesting device | - |
| `TickProofs`, `PicProofs` | proofs about `Tick` and `Pic` | the component, `SchedOpsProofs` |
| `MmuProofs`, `CacheProofs` | proofs about `Mmu` and `Cache` | the component, TLAPS |
| `DebugProofs` | proofs about `Rsp` and `Jtag` | extends `Rsp`, instantiates `Jtag` |
| `DeviceProofs` | proofs about `Uart`, `Eth`, `Dma` and `MemMap` | extends `Uart`, instantiates the others |

**Scheduler.** `queue` is `scheduler.job_queue`, with `job` for the pair (func, param) and `time` for the
delta. `free` is the length of the free list. `phase` says who is running: an instruction, the loop of
`do_scheduler`, or a job's function. `SchedAdd`, `SchedNextInsn` and `SchedFindRemove` are the interface;
`Clock` ends an iteration of `exec_main`; `RunJob`/`EndJob` surround a job's function, between which it may
call the interface; `RunGuard` and `EndCheckInt` are the two jobs whose functions the scheduler depends on.
`Reset` is the `reset` command typed at a prompt a job opened. `ResetInLoop` is the one typed at a breakpoint
or stall prompt. It leaves phase "restart", in which the reset hooks of the devices add their jobs (`SchedAdd`) before
`ClockAfterReset` ends the iteration: `cpu_reset` zeroed `sim.cycles` while `time_start` kept its old value, so the
cycles before the reset are added to the head instead of taken off.

**Tick timer.** The code never steps a counter. `since` stands for
`runtime.sim.cycles - cycle_count_at_tick_start`, cut to the width of TTCR; `CyclesUntil`, `RemoveStale`,
`AddRaise` and `sched_timer_job` are the parts of that function; the job functions are actions of the same
name. `TP_MOD` and `TTCR_MOD` scale 2^28 and 2^32 down.
`TickAbs` lets an instruction of n cycles do at once what the jobs do one by one when it ends, and lets
registers change otherwise only by a write or a reset; the mapping counts a due job as done while
`do_scheduler` is in its loop, so every job step must be a stutter.

**Interrupts.** An interrupt that may be taken is a `pic_rep_int` job with time 0. `Iterate` ends an iteration of
either loop: `or1ksim_run` first turns the caller's requests into reports and clears, then both update the scheduler.
At a breakpoint or a stall `or1ksim_run` returns before either (`ReturnEarly`, phase "stopped") and leaves what is
queued for the next call (`or1ksim_run`). Lines are reported by instructions and by the jobs of devices in the middle
of a drain; `kbd_job`, the keyboard's, stands for all of them and may report any line. `edge_trigger` and `library`
are fixed by the initial state, so one run covers several configurations. `Executing` keeps the bitwise `and` of
`execute.c:1013`.

**Debugging session.** Memory holds words that are instructions or `l.trap`; `mp_hash` has the saved
instruction. `at` is the place in the loop. The history variable `ideal` follows the program as it would
run without a debugger; `steps` counts instructions since the last step request. One branch with a
delay slot and a one-instruction exception handler are enough to tell apart what EPCR, PPC, NPC and
`delay_insn` do. `session`, chosen by the initial state, says whether ticks happen, whether clients clean up
before they leave, and where breakpoints may be. Impolite clients also write memory over a breakpoint.

**JTAG.** `tgt` is `runtime.debug` with the stall flag and the bytes of memory and SPRs; each register of the protocol
is an operator that returns a new target and a response. A register arrives good, with a CRC that does not match, with
the wrong number of bits, or with spoilt selector bits. These lead it to another handler, of which only
`write_command` changes anything (`stray`: it has dropped its command before it looks at the CRC; `lost` stands for
all others). The answer can be read or not. The client (external: the repository has none but its tests) repeats what
was not confirmed, reads each new command back before it uses it (`fresh`), and uses READ_COMMAND also to find out
whether a GO_COMMAND whose answer it lost was carried out. Cells hold the number of the byte written to them, so that
a byte written twice, to the wrong place or out of order shows.

**MMU.** One TLB set; a page is one word. `cpu` is the state an instruction works on, `translate` and `peek_into_tlb`
the two implementations of translation, `eval_mem32`, `set_mem32`, `l_lwz`, `l_sw`, `l_lwa` and `l_swa` the users,
with misaligned addresses and addresses where nothing answers. `dmmu` and `immu` are the same code up to the names of
the permissions, and a fetch (`eval_insn`) is an aligned load. Software writes whole match registers, the LRU field
included. Interrupts come in either mode. `stored`, `last` and `mru` are histories: words stored to since the last
`l.lwa`, what the last instruction did, and the way that was hit last.

**Cache.** One set, one cache (`kind`) with `nways` ways, both fixed by the initial state, the data of one block in
three parts: two halves of a word, and another word, because narrow writes and word writes take different paths.
`stale` is the set of parts that were changed behind the cache.

**Memory map.** `next`, `mc_areas` and `mine` are the links of `struct mc_area`; `mc_reset` walks them one element per
step (`Grab`, `Pass`, `Grabbed`, `Clear`, `Cleared`). `own`, fixed by the initial state, is the set of memories
configured for the controller, any set. `before` remembers the one stale remembered area that the code is known to
have.

**UART, Ethernet, DMA.** The operators work on a record of the device's registers and are composed as the code calls
them. Jobs are counts of queued jobs (`Eth`, `Dma`), or sets with a history of whether one was ever added while it was
queued (`Uart`, `twice`), rather than the queue: what the properties depend on is that a job added with time 0 runs
before the next instruction and that others run some time. The program or driver acts between any two jobs. To keep
the state small a behaviour *observes* one thing (`observed`: a direction, a ring, the interrupts), and numbers the
characters, packets or words of that one modulo a small number.

## 3. Runs

Passing runs. A property that is a conjunction of named parts is followed by its parts; every part, apart
from the types, has a mutant of its own.

| Run | Checks | Bounds and why they suffice |
|---|---|---|
| `sched` | `NoLeak`, `OnlyHeadLate`, `PopSafe`, `HeapSuffices`, `NothingLeftDue`, refinement `Sched_refines`, liveness `PromptPolled` | two client jobs with two entries each, beside guard and `check_int`: entries land before, between and behind each other with equal and different times. Delays -2..3 include a job time in the past and 0; instructions of 0 to 2 cycles make the head late by more than one job. A heap of 8 is the least for which `HeapSuffices` claims anything. A reset in the loop adds up to three cycles to the head |
| `tick` | `TimerJobsExact` (`TypeOK`, `JobsFollowRegisters`, `MatchOnTime`), refinement `Tick_refines`, liveness `MatchDelivered` (`MatchHappens`, `PendingDelivered`), `DrainEnds` | period counter modulo 3, TTCR modulo 6 (both wraps happen), every mode and period including 0, two register writes or resets at any time: set up, change |
| `pic` | `NoLostInterrupt`, `TakenAfterInsn`, liveness `DeliverableIsTaken` | two lines, one of them the caller's and one not maskable; edge and level, both loops with early returns, power management, a device's job every two cycles, tick competing; an instruction leaves at most one report, and jobs and the loop's requests add more |
| `rsp` | `BreakpointsExact`, `ClientInformed` (`ReplyWhenAwaited`, `ToldStopped`), `OneInsnPerStep`, `TransparentUndisturbed`, liveness `StepReturns` | 4-word program with a branch at 1 to 0; a rough session (ticks, clients that leave anything behind and write over breakpoints, breakpoints at the branch's target and in its delay slot) and a quiet one (no ticks, breakpoints anywhere else) |
| `jtag` | `BlocksExact` (`TypeOK`, `WriteExact`, `ReadExact`), `ClientInformed` (`RefusedRightly`, `KnownStalled`), liveness `TransferEnds` | two blocks in a row, so that a command of the first is there when the second is refused; up to three chunks: first, middle, last; every width, misaligned, leaving the memory, SPR addresses that are cut and that wrap, missing modules; every register may arrive in each of the five ways |
| `mmu` | `TranslationExact` (`TypeOK`, `LruOrder`, `PeekAgrees`), `LockExact` (`StoreBreaksLock`, `ExceptionAborts`), `Protected` | two pages that may map to each other's words (aliases), two ways, two sets: the reload value is 1, and software writes the LRU field 3, which is beyond it |
| `cache` | `CacheExact` (`TypeOK`, `NoDuplicates`, `LoadExact`), `LastKept` | one way (as shipped), two and four ways, four blocks: every block can be evicted; two use states, so that several ways are old |
| `memmap` | `ControllerExact` (`TypeOK`, `Controlled`, `FollowsRegisters`), `LookupExact`, liveness `ResetEnds` | three memories, of which the controller has any subset; any number of resets. `Copes` names the subsets that the claims about the controller are about |
| `uart` | `InterruptsExact` (`TypeOK`, `Identified`, `PendingIsReal`), `JobsExact` (`ShiftJobs`, `TimeoutExact`, no job `twice`), `StreamsExact` (`RxStream`, `TxStream`), liveness `TxLeaves` | FIFOs of one and two characters, trigger levels 1 and 2, one modem line; characters are numbered modulo 4, one more than FIFO and shift register hold |
| `eth` | `RingsExact` (`TypeOK`, `JobsFollowModer`, `TxStream`, `RxStream`), `OwedIsActive`, liveness `TxProceeds` | three descriptors, one or two of them for transmission: rings of length one and two wrap; packets modulo 3 |
| `dma` | `ChannelsExact` (`TypeOK`, `JobsExact`, `CopyExact`), `OwedIsActive`, liveness `TransferEnds` | eight addresses, one to three words, masks that wrap inside a transfer or not; two channels for interrupts |

The run that ends in a violation (the finding):

| Run | Property | What it shows |
|---|---|---|
| `rsp_tick` | `Transparent` | a tick exception in the iteration that hit a breakpoint unstalls the CPU; the instruction under the breakpoint is skipped and the client is not told |

What the models also show, without a run of its own; the properties are stated around these:

- *Scheduler.* A reset typed at `check_int`'s prompt leaves two `check_int` jobs for good (hence the 4 in
  `HeapSuffices`). While the queue is late, `sched_next_insn` schedules later than "after the next
  instruction" (`sched.c:175`). With a late head the delta behind it may exceed an `int32_t`.
- *Tick.* Auto-restart with TTMR[TP] = 0 keeps `do_scheduler` in its loop for ever; `DrainEnds` excepts it.
- *PIC and power.* Two interrupt reports of one instruction enter the handler twice, the second time with SR[IEE]
  clear, because `pic_rep_int` looks at PICSR only. `or1ksim_run` handles requests to set before
  requests to clear, so clear-then-set leaves a level line clear. `config.pm.enabled & (PMR & ...)` is always 0
  (`execute.c:1013`): doze and sleep never stop the CPU, as `or1ksim.texi:2340` says they do. After an early return of
  `or1ksim_run` the next call executes an instruction before the interrupts that were queued are taken, not "after the
  current instruction" (`pic.c:66`); `TakenAfterInsn` is about the instructions that follow a scheduler update.
- *RSP.* A tick exception in a stepped iteration makes the step two instructions long; DMR1[ST] survives a
  detach and stops the program once more; continuing from a breakpoint in a delay slot loses the branch. What
  a client writes over a breakpoint disables it and is lost when the breakpoint is removed.
- *JTAG.* A recorded command is carried out on whichever module is selected at GO_COMMAND (`jtag.c:917`); the
  client of the model sends a new command after each selection. A spoilt GO_COMMAND that reads, READ_COMMAND or
  READ_CONTROL is answered with a CRC that does not match. A refused WRITE_COMMAND reports JS_OK. READ_COMMAND
  without a command looks like a write of one byte to 0. Memory written over JTAG bypasses the caches.
- *MMU.* `l.lwa` takes the lock although its own load has failed (`insnset.c:237`), which `ExceptionAborts` excepts.
  An exception that the debug unit catches is not pending, so the store goes on, to address 0 after a miss. With fewer than
  four sets software can write an LRU field above the reload value, which `|=` does not bring down, against the comment at
  `dmmu.c:112`: `LruOrder` is about hits in a set whose fields are in range.
- *Caches.* A write miss replaces the last way that is not the newest, not the least recently used one
  (`dcache-model.c:285`, comment at 216). The data cache starts with tag 0 in every way, so `NoDuplicates` holds from the
  first invalidation of the set on. With one way every miss replaces the block used last; `LastKept` is about more.
- *Memory controller.* `mc_reset` copes with some sets of memories only (`mc.c:251`, against `mc.c:240`: "Grab control
  over all the devices we are destined to control"), because `prev` follows also an element that was unlinked. Of
  three memories {2, 3} gets memory 1 as well; {1, 2, 3} loses one in the first reset, and the second one walks in a
  circle. `Copes` names the sets that work: no two consecutive ones, or exactly the first two. The run has all of
  them, and for those outside `Copes` shows only the types and the lookup. The remembered area is used although
  `mc_reset` made it invalid (`abstract.c:247`).
- *UART.* `uart_next_int` does not always raise "the next highest priority interrupt" (`16450.c:396`): a cleared one
  of higher rank stays in IIR. The line stays asserted, but IIR names something that is over and hides what is
  pending; `Identified` says that this, `stale`, is the only way to get there. A write to a full transmit FIFO
  replaces the oldest character; a failing channel stops reception for good.
- *Ethernet.* A device reset forgets `int_line_stat` but leaves the line at the PIC; a write to INT_MASK drops an
  active line; the transmitter can be starved by reception (`TxProceeds` excepts it).
- *DMA.* Auto-restart never schedules the channel again (`JobsExact` excepts it); INT_SRC_A is overwritten by the last
  channel that ends; TOT_SZ = 0 is a remainder by zero.

Deadlock is checked in every run: the simulator can always go on.

**Bounds by name.** `MaxCycles` (cycles of one instruction), `MaxPast` (cycles before an in-loop reset),
`MaxCopies` (entries per job), `InsnDelays`/`JobDelays`/`TickDelays` (job times), `MaxWrites` (register
writes in a behaviour of `Tick`), `MaxReports` (reports one instruction leaves), `TPs`, `PMRs`, `IERs`, `TxBdNums`
(values written to registers), `Sizes`, `Masks`, `AddrMod` (DMA transfers), `CharMod`, `PacketMod` (numbers that tell
characters and packets apart), `MaxWaiting` (packets at the TAP device), `Blocks`, `MaxBlocks` (JTAG),
`Matches`, `Attributes` (TLB registers), `NWays`, `UStates` (cache configurations), `Owned` (controller configurations),
`slowdown` (period of the device's job in `Pic`). Job functions only
use positive job times in `sched`: one that requeues itself with time 0 never lets `do_scheduler` return.

**Fairness.** `SF` (in `Sched`, `Pic`) or `WF` (`Tick`) of an instruction that takes at least one cycle: the loops
execute for ever, and a memory with a read delay makes fetches take cycles. In `Pic` this also says that the library's
caller, who calls `or1ksim_run` again (`WF`), does not have it return early after every instruction for ever. In
`Sched` an instruction of no cycles that only runs an immediate job may recur for ever, which weak fairness would
admit and such a configuration does not; the iteration of a reset ends too (`WF` of `ClockAfterReset`). `WF` of the
job steps: `do_scheduler` is a plain loop, and job functions return. The same holds for the jobs of `Uart`, `Eth` and
`Dma`: a queued job's time comes. `Eth` also assumes that the driver acknowledges interrupts. `WF` of the steps of
`mc_reset`, a loop of C. In `Rsp`, `WF` of the processor and of the server, which are the two branches of one loop;
nothing is assumed of the client or of the tick. `PromptPolled` excepts a user who resets for ever. In `Jtag` the
client keeps selecting the DEBUG instruction, and each kind of exchange that is tried again and again gets through at
some time (`SF`), a GO_COMMAND also while the command is in place and a READ_COMMAND also right after the command it
reads back: the protocol cannot help against a wire that fails for ever.

## 4. Proofs

Each theorem holds for every value of the constants that satisfies the component's assumption (`SchedConstants`,
`TickConstants` and so on: sets of the right kind, natural numbers, a heap of at least two entries, finitely many
jobs, numbers of characters that tell those in a FIFO apart). Every passing run evaluates the assumption of its instance.

| Module | Theorem | Statement |
|---|---|---|
| `SchedProofs` | `TypeCorrect` | `Spec => []TypeOK` |
| | `NoEntryLeaks` | `Spec => []NoLeak` |
| | `OnlyTheHeadIsLate` | `Spec => []OnlyHeadLate` |
| | `PopIsSafe` | `Spec => []PopSafe` |
| | `HeapIsEnough` | `Spec => []HeapSuffices` |
| | `NothingIsLeftDue` | `Spec => NothingLeftDue`, an action property |
| | `DeltasImplementTimes` | `Spec => Sched_refines`: `Sched` implements `SchedAbs` |
| `TickProofs` | `TimerJobsAreExact` | `Spec => []TimerJobsExact` |
| | `JobsImplementCounter` | `Spec => Tick_refines`: `Tick` implements `TickAbs` |
| `PicProofs` | `NoInterruptIsLost` | `Spec => []NoLostInterrupt` |
| | `ReportsAreTaken` | `Spec => TakenAfterInsn`, an action property |
| `DebugProofs` | `BreakpointsAreExact` | `Spec => []BreakpointsExact` |
| | `ClientIsInformed` | `Spec => []ClientInformed` |
| | `StepsExecuteOnce` | `Spec => []OneInsnPerStep` |
| | `BreakpointsAreTransparent` | `Spec => TransparentUndisturbed`, an action property |
| | `BlocksAreExact` | `J!Spec => []J!BlocksExact`, `J` an instance of `Jtag` |
| | `JtagClientIsInformed` | `J!Spec => []J!ClientInformed` |
| `MmuProofs` | `TranslationIsExact` | `Spec => []TranslationExact` |
| | `LockIsExact` | `Spec => LockExact`, an invariant and an action property |
| | `StoresAreProtected` | `Spec => Protected`, an action property |
| `CacheProofs` | `CacheIsExact` | `Spec => []CacheExact` |
| | `LastIsKept` | `Spec => LastKept`, an action property |
| `DeviceProofs` | `InterruptsAreExact` | `Spec => []InterruptsExact` |
| | `JobsAreExact` | `Spec => []JobsExact` |
| | `StreamsAreExact` | `Spec => []StreamsExact` |
| | `RingsAreExact` | `E!Spec => []E!RingsExact`, `E` an instance of `Eth` |
| | `EthInterruptsHold` | `E!Spec => []E!OwedIsActive` |
| | `ChannelsAreExact` | `D!Spec => []D!ChannelsExact`, `D` an instance of `Dma` |
| | `DmaInterruptsHold` | `D!Spec => []D!OwedIsActive` |
| | `LookupIsExact` | `M!Spec => []M!LookupExact`, `M` an instance of `MemMap` |
| | `ControllerIsExact` | `M!Spec => []M!ControllerExact`, for every set of owned memories |

**The queue** (`SchedOpsProofs`). `SchedAddFacts` shows that the delta of a new entry and what is left of its
successor's are non-negative, from the choice of the first entry due at or after it; `UnlinkFacts` and
`ElapseFacts` do the same for removal and for the passing of time. Further lemmas say when each job of the new queue
is due (`IsDue`), that a job stays single (`Once`) and that the order of two jobs is kept (`Before`). Prefix sums are
a recursive function; facts about them for every queue would need induction with an operator parameter, which the
installed provers cannot instantiate. `LeastIndex` (a non-empty set of natural numbers has a least element) replaces
it: assume that the set of bad indices is not empty and look at its least element.

**Scheduler.** The inductive invariant is `TypeOK /\ NoLeak /\ OnlyHeadLate /\ GuardQueued /\ CheckIntQueued`.
`PopSafe` is not inductive: that a second entry is there when one is popped follows only from *two* perpetual
jobs, of which the one being run is the only one that may be out of the queue. `NothingLeftDue` adds that with a
positive head and no negative delta behind it every prefix sum is positive. `HeapIsEnough` needs a count per job
(`Few`: at most `MaxCopies` entries of each client job, one guard, and two `check_int`, one of them while its function
runs) and an injection of the entries into pairs of a job and a number. The refinement maps the list of deltas to
the list of prefix sums; each operation is shown to map to the abstract one, and the drain loop's tests of the
head to the abstract scheduler's tests of what is due.

**Tick timer.** `TimerJobsExact` alone is not inductive. The invariant adds that the queue is healthy (non-negative
deltas behind the head, every timer job at most once), that modes and the counting flag agree, and that an interrupt
that is not pending yet comes *before* the restart in the queue: otherwise the restart of an auto-restarting timer
would move the match that the interrupt was queued for. `TimerJobFacts` proves `sched_timer_job` for every pair of
old and new registers. For the refinement a job that is due counts as done. That needs the interrupt before the
one-shot too (`RaiseFirst`), each match job due at the *next* match and not a later one (`Near`), and that no match has
been missed while an instruction executes and only due jobs are popped (`Phased`); `ClockDue` and `UntilIs` turn due
times in the queue into the abstract counter's distance to the match.

**Interrupts.** `IndInv` is `TypeOK`, a healthy queue, and a queued report while an interrupt is deliverable, in every
phase, so that early returns lose nothing. A report has time 0 and no delta behind the head is negative, so that none
is left when the head is not due; the reports that a step leaves are added by a recursive function, whose existence
`AddingExists` shows with a least counterexample.

**Debugging session.** Besides the properties, `IndInv` says where in the loop the server acts (`ServerOK`) and, for a
session that nothing disturbs, that the processor is where the program would be, or at a trap with the saved
instruction behind it (`UndisturbedOK`).

**JTAG.** `BlocksExact` is not inductive: it says nothing of the command that the interface will carry out next.
`JtagInv` says that this command is missing, or the one for the client's position or, while the client has not learnt
whether its last GO_COMMAND got through (`doubt`), the one after it, and that in the last case the chunk in doubt is
in its place already (`Linked`, `Stored`). A stray register may drop the command at any time, which keeps all of this
(`DroppedKeeps`); only the command that the client has just sent (`fresh`) is known not to have been dropped, so that
finding none then means that it was refused. The cells hold the bytes up to the client's position (`Held`) and nothing
else (`Only`). `PlaceInjective` shows that no two bytes of a block have the same place; `RegisterPlace`, that a
register's bytes are where its address cut to `MAX_SPRS` puts them; `AcceptedFacts`, that a command is recorded
exactly for a block that its module supports, in width, size and alignment. Two hypotheses about blocks of registers
(`BlockSizes`, and `JtagConstants`) are needed. They do not wrap onto themselves: the second byte would replace the
first. And they are not sent byte by byte: READ_COMMAND reports that there is no command as a write of one byte to 0,
which such a client could take for its own next command. With a single register the addresses of both commands are
equal, and the client believes the first (`IsPast`).

**MMU and caches.** The LRU fields are or'ed with their reload value, which is an assignment only while they are in range
(`LruBound`). Software can write others, so `mru` names the way hit last only if that hit found the fields in
range, and `Ordered` is what is inductive about it. With one way no block can be in two, and nothing is claimed
of the victim. A cache is coherent with memory only because no block is in two ways, and that holds only from the
first flush on (`enabled => flushed`); that the newest line is unique (`OneNewest`) makes the victim another one.

**UART.** Every function is shown to preserve `Good`, which is split into interrupts, transmitter and receiver, each
about a few fields. It adds to the properties that LCR[SBC] decides which of its two jobs a busy shift register has
(or a write to LCR while the other is queued would leave both) and that the receiver never has both of its jobs. For
the interrupts, `Shown` says that no enabled one has a higher rank than IIR and `Apt` that IIR names one of them or is
stale. That no job is added while it is queued (`twice`) follows from those same facts, where each job is added.
Between the two halves of a change of the FIFO mode only `Loose` holds. The streams are exact because every function
does to FIFO and shift register, taken as one sequence (`RxSeq`, `TxSeq`), what the history does to a run of numbers
modulo `CharMod`: `RunAppend`, `RunHead`, `RunLast` and, for the character that an overrun costs, `RunButLast` are the
ways a run changes, and need a modulus above what fits.

**Ethernet.** `Eth`, `Dma` and `MemMap` share names with `Uart` and are instances in `DeviceProofs`. What they assume
of their constants is a hypothesis of each theorem (`EthSizes`, `DmaSizes`, `MapSizes`, `MapConfigured`, the same
formulas as their `ASSUME`s or a part of them). A ring is given by its first place, its length, the place it is used
from, how many places are used and the first number in them (`Ring`, `Holds`). `RingPop` and `RingPush` say what
taking the first and adding a last element do to it, and `RingCount` that the used places are as many as are counted;
all four clocks and driver steps are one of these. The interrupt needs that what is owed is both in INT_SOURCE and in
INT_MASK (`LineOK`).

**DMA.** `ChannelsExact` is not inductive: a prefix of what was asked for may be followed by the wrong words. `CopyOK`
says that what was moved and the `Rest` of a busy channel (the rest of the transfer, then the rest of the list, under
the registers as they are now) are together what it was started for. `WordsFirst` shows that moving one word under an
address mask leaves the words of a shorter transfer; it rests on `DivUnique` (quotient and remainder are unique). A
restarted channel is set up anew and has no next descriptor (`Parked`). The assumption on the constants is that masks
divide the memory into whole blocks and that the addresses of the descriptors exist: otherwise an address would leave
the memory of the model.

**Memory map.** `MapInv`: the remembered area is valid, unless it is the one that a reset found; while the controller
is being reset it is that one.

**Memory controller.** The theorem covers every set of memories; what it says of one that `mc_reset` does not cope
with is the types (`MapTyped`). `CopesInv` has the two other cases. In the first (`MapApart`: no two consecutive
memories), `MapLists(c)` describes both lists when `mc_reset` has come down to memory `c`: those of the controller
above `c` are in its own list in order, and the others are linked around them. `MapPhase` says where `c` is: at the
walk's element in the first reset, at 0 ever after, so that a later reset meets none of the controller's memories.
`ListedIsOwn` concludes that the list is the configured set, by the last element of a set that the links do not lead
out of. In the second (`MapPair`: the first two memories), `prev` is an element that was taken out, and the two also
stay in the list of the others: every reset meets them again and links them in the other order (`PairInv`, with the
walk in `PairWalk` and between the two in `PairHalf`). `MapCleared` carries what the walk that switches areas off has
done, for `FollowsRegisters`.

**Only model-checked.** Liveness (fairness and `ENABLED` are out of the prover's reach): `PromptPolled`, `MatchDelivered`,
`DrainEnds`, `DeliverableIsTaken`, `StepReturns`, `TxLeaves`, `TxProceeds`, `TransferEnds`, `ResetEnds`. Every
invariant and every action property of a passing run has a theorem.
`TypeOK` of `Sched` is proved and not part of a run.

## 5. What is left out of the modelled parts

- Times are unbounded integers. `int32_t` wraps in one place: with a late head, the delta behind it may
  exceed INT32_MAX. The sums are right modulo 2^32.
- The PIC is configured in, DSR stops no interrupt or tick, and programs only clear bits of PICSR: one that sets
  bits itself in edge mode raises no interrupt, and no document says what it should do.
- `Rsp`: packets that change nothing, ctrl-C, watchpoints, the packet layer.
- `Jtag`: bit layout, bit order and CRC arithmetic; bits that the protocol calls ignored are zero (the code ors its
  answers into them).
- `Mmu`, `Cache`: sets other than one, delays, statistics, the page cache of instruction fetches.
- `MemMap`: delays and byte order. The controller's delays would depend on the memory type, but the tests that select it
  (`&& 0x07 ==`) are never true.
- `Uart`: the VAPI side, which alone makes received breaks, parity and framing errors. `Eth`: MII, address filtering
  and packet contents. `Dma`: priorities, pause and int B, which the code stores only.
- Messages, statistics, profiling, tracing.

**Not modelled.** The store buffer and branch prediction only count; VGA, frame buffer, channels and VAPI are host
I/O, the first two with a periodic job; GPIO, with jobs of its own, and the generic peripheral are driven from
outside; flash is a register machine without jobs; ATA has one job, which ends a command (`atadevice-cmdi.c`); of the
keyboard only the job is modelled, in `Pic`, as it reports its line; configuration, loader, profilers and statistics
are input and output; CUC is a separate compiler; softfloat, argtable2 and the test programs, which are most of the
repository's lines, are vendored or run on the simulated processor. The instruction functions are one-line arithmetic.

## 6. Plan

Each item is a module, its properties and theorems.

1. `Debug`: watchpoint chains and their count registers. `RspPacket`: checksum, acknowledge, escape and retransmission.
2. `Ata` with its job, the controller and buffers of the keyboard, `Flash`.
3. Library interface: durations, time points, request order. A 32-bit variant of the queue.
4. ALU flags against a reference definition; EPCR of each synchronous exception.
