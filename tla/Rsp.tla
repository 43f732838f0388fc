-------------------------------- MODULE Rsp ---------------------------------
(***************************************************************************)
(* A debugging session: the GDB client, the remote serial protocol server  *)
(* (debug/rsp-server.c), the stall state of the debug unit                 *)
(* (debug/debug-unit.c) and the iteration of exec_main                     *)
(* (cpu/or32/execute.c) that executes one instruction, stalls after a      *)
(* single step and runs the scheduler, from which a tick exception comes.  *)
(*                                                                         *)
(* The program is N words at addresses 0 to N-1, executed cyclically, with *)
(* one branch at BranchAt to Target and its delay slot at BranchAt + 1.    *)
(* Address N stands for an exception handler that is one l.rfe.  Packets   *)
(* that change nothing (queries, register and memory reads, unsupported    *)
(* requests) are left out, ctrl-C is not pressed, and no watchpoint is     *)
(* programmed.                                                             *)
(***************************************************************************)
EXTENDS Integers

CONSTANTS
  N, BranchAt, Target,
  Sessions         \* sessions to consider: whether the tick timer's exceptions
                   \* are enabled, whether clients are polite (send no 'i'
                   \* packet, remove their breakpoints before they detach
                   \* and do not write over them),
                   \* and the addresses they set breakpoints at

Addrs == 0..(N - 1)
Vec == N
Words == {"old", "new"}     \* instructions of the program, before and after a write

ASSUME RspConstants ==
  /\ N \in Nat /\ N > 2 /\ BranchAt \in 0..(N - 2) /\ Target \in Addrs
  /\ Sessions \subseteq [ticks : BOOLEAN, polite : BOOLEAN, bps : SUBSET Addrs]

VARIABLES
  session,         \* of Sessions
  mem,             \* the words of the program, breakpoints included
  mp_hash,         \* the instruction saved for a memory breakpoint, or "none"
  pc, pcnext, ppc, \* cpu_state.pc, pcnext, SPR_PPC
  delay_insn,      \* the instruction at pc is in a delay slot
  epcr, tee,       \* SPR_EPCR_BASE, SR[TEE]
  stalled,         \* runtime.cpu.stalled
  ST, TE,          \* DMR1[ST], DSR[TE]
  client_fd,       \* rsp.client_fd is open
  client_waiting, sigval,
  at,              \* "top" of exec_main's loop, "request" in rsp_client_request,
                   \* "clocked" after cpu_clock
  gdb,             \* the client: "gone", "stopped", "running" (awaits a stop reply)
  code, ideal,     \* history: the program as loaded and where it should be
  steps            \* history: instructions executed since the last 's' packet

breaks == <<mem, mp_hash, code>>
cpu == <<pc, pcnext, ppc, delay_insn, epcr, tee, ideal>>
debug == <<ST, TE>>
rsp == <<client_fd, client_waiting, sigval>>
vars == <<breaks, cpu, stalled, debug, rsp, at, gdb, steps, session>>

(* A position in the program: what is next, what follows, and whether it   *)
(* is a delay slot.                                                        *)
Position(p, n, d) == [pc |-> p, pcnext |-> n, delay |-> d]
Succ(a) == (a + 1) % N
From(a) == Position(a, Succ(a), FALSE)

(* update_pc after the instruction at p.pc.                                *)
Advance(p) ==
  LET branch == p.pc = BranchAt
  IN  Position(p.pcnext, IF branch THEN Target ELSE Succ(p.pcnext), branch)

(* Where EPCR points: at the branch, if its delay slot was next.           *)
Restart(p) == IF p.delay THEN p.pc - 1 ELSE p.pc

Here == Position(pc, pcnext, delay_insn)

GoTo(p) ==
  /\ pc' = p.pc
  /\ pcnext' = p.pcnext
  /\ delay_insn' = p.delay

(* sim_init: RSP starts stalled with a TRAP and without a client.          *)
Init ==
  /\ session \in Sessions
  /\ mem = [a \in Addrs |-> "old"] /\ code = mem
  /\ mp_hash = [a \in Addrs |-> "none"]
  /\ pc = 0 /\ pcnext = 1 /\ delay_insn = FALSE /\ ppc = N - 1
  /\ ideal = From(0)
  /\ epcr = 0 /\ tee = session.ticks
  /\ stalled = TRUE /\ ST = FALSE /\ TE = FALSE
  /\ client_fd = FALSE /\ client_waiting = FALSE /\ sigval = "TRAP"
  /\ at = "top" /\ gdb = "gone"
  /\ steps = 0

-----------------------------------------------------------------------------
(* The processor, while it is not stalled.                                 *)

(* Every exception sets the stall state, to whether its bit of the DSR     *)
(* stops it.                                                               *)
debug_ignore_exception(dsr_bit) == stalled' = dsr_bit

(* except_handle for TICK and for a TRAP that the DSR does not stop.       *)
Except ==
  /\ epcr' = Restart(Here)
  /\ ideal' = From(Restart(ideal))
  /\ tee' = FALSE

(* cpu_clock with an instruction of the program.                           *)
Execute ==
  /\ at = "top" /\ ~ stalled
  /\ pc \in Addrs /\ mem[pc] # "trap"
  /\ GoTo(Advance(Here)) /\ ppc' = pc
  /\ ideal' = Advance(ideal)
  /\ steps' = IF steps < 2 THEN steps + 1 ELSE steps
  /\ at' = "clocked"
  /\ UNCHANGED <<breaks, epcr, tee, stalled, debug, rsp, gdb, session>>

(* cpu_clock with the l.rfe of the exception handler.                      *)
l_rfe ==
  /\ at = "top" /\ ~ stalled
  /\ pc = Vec
  /\ GoTo(From(epcr)) /\ ppc' = pc
  /\ tee' = session.ticks
  /\ steps' = IF steps < 2 THEN steps + 1 ELSE steps
  /\ at' = "clocked"
  /\ UNCHANGED <<breaks, epcr, ideal, stalled, debug, rsp, gdb, session>>

(* cpu_clock with a breakpoint's l.trap: stopped by the debug unit, the    *)
(* exception is only recorded; otherwise it is taken.                      *)
l_trap ==
  /\ at = "top" /\ ~ stalled
  /\ pc \in Addrs /\ mem[pc] = "trap"
  /\ ppc' = pc
  /\ debug_ignore_exception(TE)
  /\ \/ /\ TE
        /\ sigval' = "TRAP"
        /\ GoTo(Position(pcnext, Succ(pcnext), FALSE))
        /\ UNCHANGED <<epcr, tee, ideal>>
     \/ /\ ~ TE
        /\ Except
        /\ GoTo(Position(Vec, Vec, FALSE))
        /\ UNCHANGED sigval
  /\ at' = "clocked"
  /\ UNCHANGED <<breaks, debug, client_fd, client_waiting, gdb, steps, session>>

(* Faulty variant: DMR1[ST] is not looked at.                              *)
EndIteration_nostep(tick) ==
  /\ at = "clocked"
  /\ tick => tee
  /\ stalled' = (stalled /\ ~ tick)
  /\ IF tick THEN Except /\ GoTo(Position(Vec, Vec, FALSE))
             ELSE UNCHANGED <<pc, pcnext, delay_insn, epcr, tee, ideal>>
  /\ at' = "top"
  /\ UNCHANGED <<breaks, ppc, debug, rsp, gdb, steps, session>>

(* The rest of the iteration: the stall after a single step, then the      *)
(* scheduler, whose tick_raise_except calls except_handle.  The DSR does   *)
(* not stop tick exceptions.                                               *)
EndIteration(tick) ==
  /\ at = "clocked"
  /\ tick => tee
  /\ IF tick THEN debug_ignore_exception(FALSE) ELSE stalled' = (stalled \/ ST)
  /\ sigval' = IF ST THEN "TRAP" ELSE sigval
  /\ IF tick THEN Except /\ GoTo(Position(Vec, Vec, FALSE))
             ELSE UNCHANGED <<pc, pcnext, delay_insn, epcr, tee, ideal>>
  /\ at' = "top"
  /\ UNCHANGED <<breaks, ppc, debug, client_fd, client_waiting, gdb, steps, session>>

-----------------------------------------------------------------------------
(* handle_rsp, called for as long as the processor is stalled.             *)

(* Faulty variant: a pending branch is forgotten.                          *)
set_npc_always(a) == GoTo(From(a))

(* set_npc does nothing for the current address, which keeps a pending     *)
(* branch.                                                                 *)
set_npc(a) == GoTo(IF a = pc THEN Here ELSE From(a))

rsp_get_client ==
  /\ at = "top" /\ stalled /\ ~ client_fd
  /\ client_fd' = TRUE /\ client_waiting' = FALSE
  /\ gdb' = "stopped"
  /\ at' = "request"
  /\ UNCHANGED <<breaks, cpu, stalled, debug, sigval, steps, session>>

(* Faulty variant: the client stays marked as waiting.                     *)
handle_rsp_again ==
  /\ at = "top" /\ stalled /\ client_fd
  /\ IF client_waiting /\ sigval = "TRAP" /\ ppc \in Addrs /\ mp_hash[ppc] # "none"
     THEN set_npc(ppc)
     ELSE UNCHANGED <<pc, pcnext, delay_insn>>
  /\ client_fd' = (gdb # "gone")
  /\ gdb' = IF client_waiting /\ gdb = "running" THEN "stopped" ELSE gdb
  /\ at' = IF gdb = "gone" THEN "top" ELSE "request"
  /\ UNCHANGED <<breaks, ppc, epcr, tee, ideal, stalled, debug, client_waiting, sigval, steps, session>>

(* A waiting client is told; the program counter is first put back to the  *)
(* breakpoint that was hit.  Without a client the packet is lost.          *)
handle_rsp ==
  /\ at = "top" /\ stalled /\ client_fd
  /\ IF client_waiting /\ sigval = "TRAP" /\ ppc \in Addrs /\ mp_hash[ppc] # "none"
     THEN set_npc(ppc)
     ELSE UNCHANGED <<pc, pcnext, delay_insn>>
  /\ client_waiting' = FALSE
  /\ client_fd' = (gdb # "gone")
  /\ gdb' = IF client_waiting /\ gdb = "running" THEN "stopped" ELSE gdb
  /\ at' = IF gdb = "gone" THEN "top" ELSE "request"
  /\ UNCHANGED <<breaks, ppc, epcr, tee, ideal, stalled, debug, sigval, steps, session>>

-----------------------------------------------------------------------------
(* rsp_client_request: packets of the client.                              *)
Request == at = "request" /\ gdb = "stopped" /\ at' = "top"

(* The client asks for another address than the current one.               *)
Moved(a) == ideal' = IF a = pc THEN ideal ELSE From(a)

Resume(a, step) ==
  /\ Request
  /\ set_npc(a) /\ Moved(a)
  /\ ST' = step /\ TE' = TRUE
  /\ stalled' = FALSE
  /\ sigval' = "none"
  /\ client_waiting' = TRUE
  /\ gdb' = "running"
  /\ steps' = 0
  /\ UNCHANGED <<breaks, ppc, epcr, tee, client_fd, session>>

rsp_continue(a) == Resume(a, FALSE)

rsp_step(a) == Resume(a, TRUE)

(* The 'i' packet: nothing is executed, but a stop reply is due.           *)
CycleStep ==
  /\ ~ session.polite
  /\ Request
  /\ client_waiting' = TRUE
  /\ gdb' = "running"
  /\ UNCHANGED <<breaks, cpu, stalled, debug, client_fd, sigval, steps, session>>

(* The 'D' packet.                                                         *)
Detach ==
  /\ Request
  /\ session.polite => \A a \in Addrs : mp_hash[a] = "none"
  /\ client_fd' = FALSE
  /\ stalled' = FALSE
  /\ sigval' = "none"
  /\ gdb' = "gone"
  /\ UNCHANGED <<breaks, cpu, debug, client_waiting, steps, session>>

(* Faulty variant: the processor is let go.                                *)
rsp_write_npc_runs(a) ==
  /\ Request
  /\ set_npc(a) /\ Moved(a)
  /\ stalled' = FALSE
  /\ UNCHANGED <<breaks, ppc, epcr, tee, debug, rsp, gdb, steps, session>>

(* The 'P' packet for the NPC, and 'R' or vRun back to the start address.  *)
rsp_write_npc(a) ==
  /\ Request
  /\ set_npc(a) /\ Moved(a)
  /\ UNCHANGED <<breaks, ppc, epcr, tee, stalled, debug, rsp, gdb, steps, session>>

(* Faulty variant: a repeated insertion saves the l.trap.                  *)
mp_hash_add_over(a, word) == word

(* mp_hash_add keeps an entry that is there ("perhaps due to a lost        *)
(* packet").                                                               *)
mp_hash_add(a, word) == IF mp_hash[a] = "none" THEN word ELSE mp_hash[a]

rsp_insert_matchpoint(a) ==
  /\ Request
  /\ mp_hash' = [mp_hash EXCEPT ![a] = mp_hash_add(a, mem[a])]
  /\ mem' = [mem EXCEPT ![a] = "trap"]
  /\ UNCHANGED <<code, cpu, stalled, debug, rsp, gdb, steps, session>>

(* Faulty variant: the entry stays in the table.                           *)
rsp_remove_matchpoint_keep(a) ==
  /\ Request
  /\ mem' = IF mp_hash[a] # "none" THEN [mem EXCEPT ![a] = mp_hash[a]] ELSE mem
  /\ UNCHANGED <<mp_hash, code, cpu, stalled, debug, rsp, gdb, steps, session>>

rsp_remove_matchpoint(a) ==
  /\ Request
  /\ mem' = IF mp_hash[a] # "none" THEN [mem EXCEPT ![a] = mp_hash[a]] ELSE mem
  /\ mp_hash' = [mp_hash EXCEPT ![a] = "none"]
  /\ UNCHANGED <<code, cpu, stalled, debug, rsp, gdb, steps, session>>

(* 'M' and 'X' packets.  The table is not looked at: what is written over a *)
(* breakpoint, which a polite client does not do, does not become part of  *)
(* the program.                                                            *)
rsp_write_mem(a) ==
  /\ Request
  /\ session.polite => mp_hash[a] = "none"
  /\ mem' = [mem EXCEPT ![a] = "new"]
  /\ code' = IF mp_hash[a] = "none" THEN [code EXCEPT ![a] = "new"] ELSE code
  /\ UNCHANGED <<mp_hash, cpu, stalled, debug, rsp, gdb, steps, session>>

(* The client goes away.  The server learns of it when it next reads.      *)
ClientDies ==
  /\ gdb # "gone"
  /\ gdb' = "gone"
  /\ UNCHANGED <<breaks, cpu, stalled, debug, rsp, at, steps, session>>

rsp_client_close ==
  /\ at = "request" /\ gdb = "gone"
  /\ client_fd' = FALSE
  /\ at' = "top"
  /\ UNCHANGED <<breaks, cpu, stalled, debug, client_waiting, sigval, gdb, steps, session>>

-----------------------------------------------------------------------------
CpuStep == Execute \/ l_rfe \/ l_trap \/ EndIteration(FALSE)

Server == rsp_get_client \/ handle_rsp \/ rsp_client_close

Next ==
  \/ CpuStep
  \/ EndIteration(TRUE)
  \/ Server
  \/ \E a \in Addrs \cup {pc} : rsp_continue(a) \/ rsp_step(a)
  \/ CycleStep \/ Detach \/ ClientDies
  \/ \E a \in Addrs : rsp_write_npc(a) \/ rsp_write_mem(a)
  \/ \E a \in session.bps : rsp_insert_matchpoint(a) \/ rsp_remove_matchpoint(a)

Spec == Init /\ [][Next]_vars

(* The processor executes when it is not stalled, and the server answers.  *)
FairSpec == Spec /\ WF_vars(CpuStep) /\ WF_vars(Server)

-----------------------------------------------------------------------------
TypeOK ==
  /\ mem \in [Addrs -> Words \cup {"trap"}] /\ code \in [Addrs -> Words]
  /\ mp_hash \in [Addrs -> Words \cup {"none"}]
  /\ pc \in 0..N /\ pcnext \in 0..N /\ ppc \in 0..N /\ epcr \in 0..N
  /\ {delay_insn, tee, stalled, ST, TE, client_fd, client_waiting} \subseteq BOOLEAN
  /\ ideal \in [pc : Addrs, pcnext : Addrs, delay : BOOLEAN]
  /\ sigval \in {"none", "TRAP"}
  /\ at \in {"top", "request", "clocked"}
  /\ gdb \in {"gone", "stopped", "running"}
  /\ steps \in 0..2

(* Whatever is inserted and removed, in whatever order and however often   *)
(* (a packet may be repeated), the memory holds the loaded program, except *)
(* that a breakpoint's word is l.trap and the table has its instruction.   *)
(* What an impolite client writes over a breakpoint disables it, and lasts *)
(* until the breakpoint is inserted or removed again.                      *)
BreakpointsExact ==
  /\ TypeOK
  /\ \A a \in Addrs :
       IF mp_hash[a] = "none" THEN mem[a] = code[a]
       ELSE /\ mem[a] = "trap" \/ (~ session.polite /\ mem[a] = "new")
            /\ mp_hash[a] = code[a]

(* The server owes a stop reply exactly when the client awaits one: none   *)
(* is sent twice, or to a client that has just connected.                  *)
ReplyWhenAwaited ==
  gdb # "gone" => (client_waiting <=> gdb = "running")

(* A client that was told that the target has stopped, or that has just    *)
(* connected, finds it stopped until it asks for execution.                *)
ToldStopped == gdb = "stopped" /\ client_fd => stalled

(* The client is told once, and what it is told is true.                   *)
ClientInformed == ReplyWhenAwaited /\ ToldStopped

(* Breakpoints and steps are transparent: the instruction executed is the  *)
(* one that the program would execute next without a debugger.             *)
(* rsp-server.c:244: "If this exception was a trap due to a memory         *)
(* breakpoint, then adjust the NPC", so that the program goes on with the  *)
(* instruction that the breakpoint replaced.                               *)
Transparent == [][ Execute => pc = ideal.pc ]_vars

(* Two things break this, ticks and breakpoints in delay slots (from which *)
(* continuing loses the branch); and impolite clients leave an l.trap      *)
(* behind that nobody catches, or a DMR1[ST] that nobody clears.           *)
Undisturbed ==
  /\ ~ session.ticks /\ session.polite
  /\ BranchAt + 1 \notin session.bps

(* Otherwise breakpoints and steps are transparent, through any sequence   *)
(* of insertions, removals, steps, moved NPCs and reconnections.           *)
TransparentUndisturbed == [][ Undisturbed /\ Execute => pc = ideal.pc ]_vars

(* rsp-server.c:589: "Single step (one high level instruction)": a step    *)
(* executes one instruction.                                               *)
OneInsnPerStep == Undisturbed /\ gdb = "running" /\ ST => steps <= 1

(* A client that waits is told, or goes away, once the target stops for    *)
(* it: a step always comes back.                                           *)
StepReturns == (Undisturbed /\ gdb = "running" /\ ST) ~> gdb # "running"
=============================================================================
