---------------------------- MODULE DebugProofs -----------------------------
(***************************************************************************)
(* Proofs about the two ways to debug a program.                           *)
(*                                                                         *)
(* The session with the GDB server is the module extended: every program   *)
(* length, branch, set of breakpoints and kind of client.  The JTAG        *)
(* interface (J) is an instance with constants and variables of its own:   *)
(* every size of memory, number of registers and set of blocks; what its   *)
(* module assumes of its constants is a hypothesis here.                   *)
(***************************************************************************)
EXTENDS Rsp, Sequences, SequenceTheorems, TLAPS

CONSTANTS MemSize, MAX_SPRS, Blocks, MaxBlocks                  \* of Jtag
VARIABLES tgt, client, moved

J == INSTANCE Jtag

-----------------------------------------------------------------------------
(* The addresses of the program are closed under "the next instruction".   *)
LEMMA SuccFacts ==
  ASSUME NEW a \in Addrs
  PROVE  /\ Succ(a) \in Addrs /\ Succ(a) # a
         /\ a # N - 1 => Succ(a) = a + 1
<1>1. N \in Nat /\ N > 2 /\ a \in 0..(N - 1)
  BY RspConstants DEF Addrs
<1>2. CASE a = N - 1
  <2>1. a + 1 = N /\ N % N = 0
    BY <1>1, <1>2
  <2> QED BY <2>1, <1>1, <1>2 DEF Succ, Addrs
<1>3. CASE a # N - 1
  <2>1. a + 1 \in 0..(N - 1) /\ (a + 1) % N = a + 1
    BY <1>1, <1>3
  <2> QED BY <2>1, <1>1, <1>3 DEF Succ, Addrs
<1> QED BY <1>2, <1>3

(* The facts about the constants that the proofs use.                      *)
LEMMA ConstantFacts ==
  /\ N \in Nat /\ N > 2
  /\ 0 \in Addrs /\ Succ(0) = 1
  /\ BranchAt \in Addrs /\ BranchAt + 1 \in Addrs /\ Succ(BranchAt) = BranchAt + 1
  /\ Target \in Addrs
  /\ Addrs \subseteq Int /\ Vec \notin Addrs
  /\ \A s \in Sessions : s.bps \subseteq Addrs
<1>1. N \in Nat /\ N > 2 /\ BranchAt \in 0..(N - 2) /\ Target \in Addrs
  BY RspConstants
<1>2. /\ 0 \in Addrs /\ 0 # N - 1 /\ BranchAt \in Addrs /\ BranchAt # N - 1
      /\ BranchAt + 1 \in Addrs /\ Addrs \subseteq Int /\ Vec \notin Addrs
  BY <1>1 DEF Addrs, Vec
<1>3. Succ(0) = 0 + 1 /\ Succ(BranchAt) = BranchAt + 1
  BY <1>2, SuccFacts
<1>4. \A s \in Sessions : s.bps \subseteq Addrs
  BY RspConstants
<1> QED BY <1>1, <1>2, <1>3, <1>4

-----------------------------------------------------------------------------
(* A position of the program: an instruction with its successor next, or   *)
(* the delay slot of the branch with the target next.                      *)
InProgram(p, n, d) ==
  \/ p \in Addrs /\ n = Succ(p) /\ d = FALSE
  \/ p = BranchAt + 1 /\ n = Target /\ d = TRUE

(* The processor is in the program or at the exception vector.             *)
PositionOK ==
  \/ InProgram(pc, pcnext, delay_insn)
  \/ pc = Vec /\ pcnext = Vec /\ delay_insn = FALSE /\ tee = FALSE

(* The program without a debugger is in the program.                       *)
IdealOK ==
  /\ ideal = Position(ideal.pc, ideal.pcnext, ideal.delay)
  /\ InProgram(ideal.pc, ideal.pcnext, ideal.delay)

(* Types, with the ranges of the program counters.                         *)
Typed ==
  /\ TypeOK
  /\ session \in Sessions
  /\ epcr \in Addrs
  /\ PositionOK
  /\ IdealOK

(* From a position of the program, the next one and the one to which an    *)
(* exception returns are in the program too.                               *)
LEMMA ProgramClosed ==
  ASSUME NEW p, NEW n, NEW d, InProgram(p, n, d)
  PROVE  /\ p \in Addrs /\ n \in Addrs /\ d \in BOOLEAN
         /\ InProgram(Advance(Position(p, n, d)).pc, Advance(Position(p, n, d)).pcnext,
                      Advance(Position(p, n, d)).delay)
         /\ Restart(Position(p, n, d)) \in Addrs
<1>1. p \in Addrs /\ n \in Addrs /\ d \in BOOLEAN
  BY ConstantFacts, SuccFacts DEF InProgram
<1>2. Restart(Position(p, n, d)) \in Addrs
  BY ConstantFacts DEF InProgram, Restart, Position
<1>3. CASE p = BranchAt
  <2>1. n = BranchAt + 1
    BY <1>3, ConstantFacts DEF InProgram
  <2> QED BY <1>1, <1>2, <1>3, <2>1 DEF InProgram, Advance, Position
<1>4. CASE p # BranchAt
  BY <1>1, <1>2, <1>4 DEF InProgram, Advance, Position
<1> QED BY <1>3, <1>4

(* A program that is started anywhere is in the program.                   *)
LEMMA FromInProgram ==
  ASSUME NEW a \in Addrs
  PROVE  /\ InProgram(From(a).pc, From(a).pcnext, From(a).delay)
         /\ From(a) = Position(From(a).pc, From(a).pcnext, From(a).delay)
         /\ From(a).pc = a /\ From(a).pcnext = Succ(a) /\ From(a).delay = FALSE
BY DEF InProgram, From, Position

-----------------------------------------------------------------------------
(* Initially all values have their types.                                  *)
LEMMA InitTyped == Init => Typed
<1> SUFFICES ASSUME Init PROVE Typed
  OBVIOUS
<1>1. IdealOK /\ ideal \in [pc : Addrs, pcnext : Addrs, delay : BOOLEAN]
  BY ConstantFacts, SuccFacts, FromInProgram DEF Init, IdealOK, From, Position
<1>2. PositionOK
  BY ConstantFacts DEF Init, PositionOK, InProgram
<1>3. session \in Sessions /\ session.ticks \in BOOLEAN /\ epcr \in Addrs
  BY RspConstants, ConstantFacts DEF Init
<1>4. /\ mem \in [Addrs -> Words \cup {"trap"}] /\ code \in [Addrs -> Words]
      /\ mp_hash \in [Addrs -> Words \cup {"none"}]
  BY DEF Init, Words
<1>5. /\ pc \in 0..N /\ pcnext \in 0..N /\ ppc \in 0..N /\ epcr \in 0..N
      /\ steps \in 0..2
  BY ConstantFacts DEF Init
<1>6. {delay_insn, tee, stalled, ST, TE, client_fd, client_waiting} \subseteq BOOLEAN
  BY <1>3 DEF Init
<1> QED BY <1>1, <1>2, <1>3, <1>4, <1>5, <1>6 DEF Init, Typed, TypeOK

(* What Typed says of the ranges that the actions use.                     *)
LEMMA TypedFacts ==
  ASSUME Typed
  PROVE  /\ PositionOK /\ pc \in Addrs \cup {Vec} /\ pcnext \in Addrs \cup {Vec}
         /\ delay_insn \in BOOLEAN
         /\ pc \in Addrs => InProgram(pc, pcnext, delay_insn) /\ pcnext \in Addrs
         /\ tee => pc \in Addrs
         /\ session.ticks \in BOOLEAN
<1>1. session.ticks \in BOOLEAN
  BY RspConstants DEF Typed
<1>2. CASE InProgram(pc, pcnext, delay_insn)
  BY <1>1, <1>2, ProgramClosed DEF Typed
<1>3. CASE pc = Vec /\ pcnext = Vec /\ delay_insn = FALSE /\ tee = FALSE
  BY <1>1, <1>3, ConstantFacts DEF Typed
<1> QED BY <1>2, <1>3 DEF Typed, PositionOK

(* GoTo a position of the program leaves the processor at one.             *)
LEMMA GoToFacts ==
  ASSUME NEW p, InProgram(p.pc, p.pcnext, p.delay), GoTo(p)
  PROVE  /\ PositionOK'
         /\ pc' \in 0..N /\ pcnext' \in 0..N /\ delay_insn' \in BOOLEAN
<1>1. p.pc \in Addrs /\ p.pcnext \in Addrs /\ p.delay \in BOOLEAN
  BY ProgramClosed
<1> QED BY <1>1, ConstantFacts DEF GoTo, PositionOK, InProgram, Addrs, Succ

(* Every step keeps the types and the positions.  Only the client moves    *)
(* the NPC, and only to addresses of the program or to where it is; only   *)
(* an exception enters the handler, and only from the program.             *)
LEMMA NextTyped ==
  ASSUME Typed, BreakpointsExact, [Next]_vars
  PROVE  Typed'
<1> USE DEF Typed
<1>0. TypeOK /\ session \in Sessions /\ epcr \in Addrs /\ PositionOK /\ IdealOK
  OBVIOUS
<1>a. Addrs \subseteq 0..N
  BY ConstantFacts DEF Addrs
<1>1. ASSUME Execute PROVE Typed'
  <2>1. InProgram(pc, pcnext, delay_insn)
    BY <1>1, TypedFacts DEF Execute
  <2>2. PositionOK' /\ pc' \in 0..N /\ pcnext' \in 0..N /\ delay_insn' \in BOOLEAN
    BY <1>1, <2>1, ProgramClosed, GoToFacts DEF Execute, Here
  <2>3. IdealOK' /\ ideal' \in [pc : Addrs, pcnext : Addrs, delay : BOOLEAN]
    <3>1. InProgram(ideal'.pc, ideal'.pcnext, ideal'.delay)
      BY <1>1, ProgramClosed DEF Execute, IdealOK
    <3> QED BY <1>1, <3>1, ProgramClosed DEF Execute, IdealOK, Advance, Position
  <2> QED BY <1>1, <2>2, <2>3 DEF Execute, TypeOK, breaks, debug, rsp
<1>2. ASSUME l_rfe PROVE Typed'
  <2>1. PositionOK' /\ pc' \in 0..N /\ pcnext' \in 0..N /\ delay_insn' \in BOOLEAN
    BY <1>2, FromInProgram, GoToFacts DEF l_rfe
  <2> QED BY <1>2, <2>1, TypedFacts DEF l_rfe, TypeOK, IdealOK, breaks, debug, rsp
<1>3. ASSUME pc \in Addrs, Except, GoTo(Position(Vec, Vec, FALSE))
      PROVE  /\ PositionOK' /\ IdealOK' /\ epcr' \in Addrs /\ tee' = FALSE
             /\ pc' \in 0..N /\ pcnext' \in 0..N /\ delay_insn' \in BOOLEAN
             /\ ideal' \in [pc : Addrs, pcnext : Addrs, delay : BOOLEAN]
  <2>1. epcr' \in Addrs
    BY <1>3, TypedFacts, ProgramClosed DEF Except, Here
  <2>2. Restart(ideal) \in Addrs
    BY ProgramClosed DEF IdealOK
  <2>3. IdealOK' /\ ideal' \in [pc : Addrs, pcnext : Addrs, delay : BOOLEAN]
    BY <1>3, <2>2, FromInProgram, SuccFacts DEF Except, IdealOK, From, Position
  <2>4. /\ PositionOK' /\ tee' = FALSE
        /\ pc' = Vec /\ pcnext' = Vec /\ delay_insn' = FALSE
    BY <1>3 DEF PositionOK, Except, GoTo, Position
  <2>5. Vec \in 0..N
    BY ConstantFacts DEF Vec
  <2> QED BY <2>1, <2>3, <2>4, <2>5
<1>4. ASSUME l_trap PROVE Typed'
  <2>1. CASE TE
    <3>1. pcnext \in Addrs
      BY <1>4, TypedFacts DEF l_trap
    <3>2. GoTo(From(pcnext)) /\ UNCHANGED <<epcr, tee, ideal>> /\ sigval' = "TRAP"
      BY <1>4, <2>1 DEF l_trap, From
    <3>3. PositionOK' /\ pc' \in 0..N /\ pcnext' \in 0..N /\ delay_insn' \in BOOLEAN
      BY <3>1, <3>2, FromInProgram, GoToFacts
    <3> QED BY <1>4, <3>2, <3>3 DEF l_trap, debug_ignore_exception, TypeOK, IdealOK, breaks, debug
  <2>2. CASE ~ TE
    <3>1. Except /\ GoTo(Position(Vec, Vec, FALSE)) /\ UNCHANGED sigval
      BY <1>4, <2>2 DEF l_trap
    <3> QED BY <1>4, <1>3, <3>1, <1>a DEF l_trap, debug_ignore_exception, TypeOK, breaks, debug
  <2> QED BY <2>1, <2>2
<1>5. ASSUME NEW tick \in BOOLEAN, EndIteration(tick) PROVE Typed'
  <2>1. CASE tick
    <3>1. Except /\ GoTo(Position(Vec, Vec, FALSE)) /\ pc \in Addrs /\ stalled' = FALSE
      BY <1>5, <2>1, TypedFacts DEF EndIteration, debug_ignore_exception
    <3> QED BY <1>5, <1>3, <3>1, <1>a DEF EndIteration, TypeOK, breaks, debug
  <2>2. CASE ~ tick
    <3>1. UNCHANGED <<pc, pcnext, delay_insn, epcr, tee, ideal>> /\ stalled' \in BOOLEAN
      BY <1>5, <2>2 DEF EndIteration
    <3> QED BY <1>5, <3>1 DEF EndIteration, TypeOK, PositionOK, IdealOK, breaks, debug
  <2> QED BY <2>1, <2>2
<1>6. ASSUME UNCHANGED <<pc, pcnext, delay_insn, tee>> PROVE PositionOK'
  BY <1>6 DEF PositionOK
<1>7. ASSUME NEW a \in Addrs \cup {pc}, set_npc(a), UNCHANGED tee
      PROVE  /\ PositionOK'
             /\ pc' \in 0..N /\ pcnext' \in 0..N /\ delay_insn' \in BOOLEAN
  <2>1. CASE a = pc
    BY <1>7, <2>1 DEF set_npc, GoTo, Here, Position, PositionOK, TypeOK
  <2>2. CASE a # pc
    BY <1>7, <2>2, FromInProgram, GoToFacts DEF set_npc
  <2> QED BY <2>1, <2>2
<1>8. ASSUME NEW a \in Addrs \cup {pc}, Moved(a)
      PROVE  IdealOK' /\ ideal' \in [pc : Addrs, pcnext : Addrs, delay : BOOLEAN]
  <2>1. CASE a = pc
    BY <1>8, <2>1 DEF Moved, IdealOK, TypeOK
  <2>2. CASE a # pc
    BY <1>8, <2>2, FromInProgram, SuccFacts DEF Moved, IdealOK, From, Position
  <2> QED BY <2>1, <2>2
<1>9. ASSUME rsp_get_client \/ rsp_client_close \/ ClientDies \/ CycleStep \/ Detach
      PROVE  Typed'
  <2>1. UNCHANGED <<breaks, cpu, debug, steps, session>>
    BY <1>9 DEF rsp_get_client, rsp_client_close, ClientDies, CycleStep, Detach
  <2>2. PositionOK' /\ IdealOK'
    BY <2>1, <1>6 DEF cpu, IdealOK
  <2>3. /\ stalled' \in BOOLEAN /\ client_fd' \in BOOLEAN /\ client_waiting' \in BOOLEAN
        /\ sigval' \in {"none", "TRAP"}
    BY <1>9 DEF rsp_get_client, rsp_client_close, ClientDies, CycleStep, Detach, TypeOK, rsp
  <2>4. at' \in {"top", "request", "clocked"} /\ gdb' \in {"gone", "stopped", "running"}
    BY <1>9 DEF rsp_get_client, rsp_client_close, ClientDies, CycleStep, Detach, Request, TypeOK
  <2> QED BY <2>1, <2>2, <2>3, <2>4 DEF TypeOK, breaks, cpu, debug
<1>10. ASSUME handle_rsp PROVE Typed'
  <2>1. PositionOK' /\ pc' \in 0..N /\ pcnext' \in 0..N /\ delay_insn' \in BOOLEAN
    <3>1. CASE UNCHANGED <<pc, pcnext, delay_insn>>
      BY <1>10, <1>6, <3>1 DEF handle_rsp, TypeOK
    <3>2. CASE ppc \in Addrs /\ set_npc(ppc)
      BY <1>10, <1>7, <3>2 DEF handle_rsp
    <3> QED BY <1>10, <3>1, <3>2 DEF handle_rsp
  <2> QED BY <1>10, <2>1 DEF handle_rsp, TypeOK, IdealOK, breaks, debug
<1>11. ASSUME NEW a \in Addrs \cup {pc}, NEW step \in BOOLEAN, Resume(a, step) PROVE Typed'
  <2>1. /\ PositionOK' /\ IdealOK'
        /\ pc' \in 0..N /\ pcnext' \in 0..N /\ delay_insn' \in BOOLEAN
        /\ ideal' \in [pc : Addrs, pcnext : Addrs, delay : BOOLEAN]
    BY <1>11, <1>7, <1>8 DEF Resume
  <2>2. /\ {delay_insn', tee', stalled', ST', TE', client_fd', client_waiting'} \subseteq BOOLEAN
        /\ epcr' \in Addrs /\ epcr' \in 0..N
    BY <1>11, <2>1 DEF Resume, TypeOK
  <2> QED BY <1>11, <2>1, <2>2 DEF Resume, Request, TypeOK, breaks
<1>12. ASSUME NEW a \in Addrs, rsp_write_npc(a) PROVE Typed'
  BY <1>12, <1>7, <1>8 DEF rsp_write_npc, Request, TypeOK, breaks, debug, rsp
<1>13. ASSUME NEW a \in Addrs,
              rsp_write_mem(a) \/ rsp_insert_matchpoint(a) \/ rsp_remove_matchpoint(a)
       PROVE  Typed'
  <2>1. UNCHANGED <<cpu, stalled, debug, rsp, gdb, steps, session>> /\ at' = "top"
    BY <1>13 DEF rsp_write_mem, rsp_insert_matchpoint, rsp_remove_matchpoint, Request
  <2>2. PositionOK' /\ IdealOK'
    BY <2>1, <1>6 DEF cpu, IdealOK
  <2>3. /\ mem' \in [Addrs -> Words \cup {"trap"}] /\ code' \in [Addrs -> Words]
        /\ mp_hash' \in [Addrs -> Words \cup {"none"}]
    <3>1. CASE rsp_write_mem(a)
      BY <3>1 DEF rsp_write_mem, TypeOK, Words
    <3>2. CASE rsp_insert_matchpoint(a)
      <4>1. mem' \in [Addrs -> Words \cup {"trap"}] /\ code' \in [Addrs -> Words]
        BY <3>2 DEF rsp_insert_matchpoint, TypeOK
      <4>2. mp_hash_add(a, mem[a]) \in Words
        BY DEF mp_hash_add, BreakpointsExact, TypeOK
      <4> QED BY <3>2, <4>1, <4>2 DEF rsp_insert_matchpoint, TypeOK
    <3>3. CASE rsp_remove_matchpoint(a)
      BY <3>3 DEF rsp_remove_matchpoint, TypeOK
    <3> QED BY <1>13, <3>1, <3>2, <3>3
  <2> QED BY <2>1, <2>2, <2>3 DEF TypeOK, cpu, debug, rsp
<1>14. CASE UNCHANGED vars
  <2>1. PositionOK' /\ IdealOK'
    BY <1>14, <1>6 DEF vars, cpu, IdealOK
  <2> QED BY <1>14, <2>1 DEF vars, breaks, cpu, debug, rsp, TypeOK
<1>15. \A a \in session.bps : a \in Addrs
  BY ConstantFacts
<1> QED
  BY <1>1, <1>2, <1>4, <1>5, <1>9, <1>10, <1>11, <1>12, <1>13, <1>14, <1>15
  DEF Next, CpuStep, Server, rsp_continue, rsp_step

-----------------------------------------------------------------------------
(* Breakpoints.                                                            *)

(* Initially there is no breakpoint.                                       *)
LEMMA InitBreakpoints == Init => BreakpointsExact
BY InitTyped DEF Typed, Init, BreakpointsExact

(* What the session promises does not change.                              *)
LEMMA SessionFixed == [Next]_vars => session' = session
BY DEF Next, vars, CpuStep, Server, Execute, l_rfe, l_trap, EndIteration, rsp_get_client,
       handle_rsp, rsp_client_close, rsp_continue, rsp_step, Resume, CycleStep, Detach,
       ClientDies, rsp_write_npc, rsp_write_mem, rsp_insert_matchpoint, rsp_remove_matchpoint

(* Only the matchpoint packets and a write of the program's memory touch   *)
(* the three tables, each at one address.                                  *)
LEMMA NextBreakpoints ==
  ASSUME Typed, BreakpointsExact, [Next]_vars
  PROVE  BreakpointsExact'
<1> DEFINE Exact(a) == IF mp_hash[a] = "none" THEN mem[a] = code[a]
                       ELSE /\ mem[a] = "trap" \/ (~ session.polite /\ mem[a] = "new")
                            /\ mp_hash[a] = code[a]
<1>0. session' = session
  BY SessionFixed
<1>1. TypeOK'
  BY NextTyped DEF Typed
<1>2. /\ mem \in [Addrs -> Words \cup {"trap"}] /\ code \in [Addrs -> Words]
      /\ mp_hash \in [Addrs -> Words \cup {"none"}]
      /\ \A a \in Addrs : Exact(a)
      /\ \A w \in Words : w # "none"
  BY DEF BreakpointsExact, TypeOK, Words
<1>3. session.bps \subseteq Addrs
  BY ConstantFacts DEF Typed
<1>4. SUFFICES \A a \in Addrs : Exact(a)'
  BY <1>1 DEF BreakpointsExact
<1>5. CASE UNCHANGED breaks
  BY <1>0, <1>2, <1>5 DEF breaks
<1>6. CASE \E b \in Addrs : rsp_insert_matchpoint(b)
  <2>1. PICK b \in Addrs : rsp_insert_matchpoint(b)
    BY <1>6
  <2>2. mp_hash_add(b, mem[b]) = code[b] /\ code[b] \in Words
    BY <1>2 DEF mp_hash_add
  <2> QED BY <1>0, <1>2, <2>1, <2>2 DEF rsp_insert_matchpoint
<1>7. CASE \E b \in Addrs : rsp_remove_matchpoint(b)
  BY <1>0, <1>2, <1>7 DEF rsp_remove_matchpoint
<1>8. CASE \E b \in Addrs : rsp_write_mem(b)
  <2>1. PICK b \in Addrs : rsp_write_mem(b)
    BY <1>8
  <2>2. /\ mem' = [mem EXCEPT ![b] = "new"] /\ mp_hash' = mp_hash
        /\ session.polite => mp_hash[b] = "none"
        /\ code' = IF mp_hash[b] = "none" THEN [code EXCEPT ![b] = "new"] ELSE code
    BY <2>1 DEF rsp_write_mem
  <2> QED BY <1>0, <1>2, <2>2
<1> QED
  BY <1>3, <1>5, <1>6, <1>7, <1>8
  DEF Next, CpuStep, Server, vars, Execute, l_rfe, l_trap, EndIteration, rsp_get_client,
      handle_rsp, rsp_client_close, rsp_continue, rsp_step, Resume, CycleStep, Detach,
      ClientDies, rsp_write_npc

-----------------------------------------------------------------------------
(* The client.                                                             *)

(* Where the server is: it reads a packet only from an open connection, of *)
(* a client to which nothing is owed, while the processor is stalled; and  *)
(* a client that was told "stopped" is not there while an instruction      *)
(* completes.                                                              *)
ServerOK ==
  /\ at = "request" => client_fd /\ stalled /\ ~ client_waiting
  /\ at = "clocked" => ~ (gdb = "stopped" /\ client_fd)

(* Initially there is no client.                                           *)
LEMMA InitClient == Init => ClientInformed /\ ServerOK
BY DEF Init, ClientInformed, ReplyWhenAwaited, ToldStopped, ServerOK

(* No step leaves the client without the reply it awaits.                  *)
LEMMA NextClient ==
  ASSUME TypeOK, ClientInformed, ServerOK, [Next]_vars
  PROVE  ClientInformed' /\ ServerOK'
<1> USE DEF ClientInformed, ReplyWhenAwaited, ToldStopped, ServerOK
<1>1. ASSUME Execute \/ l_rfe \/ l_trap PROVE ClientInformed' /\ ServerOK'
  <2>1. ~ stalled /\ at' = "clocked" /\ UNCHANGED <<client_fd, client_waiting, gdb>>
    BY <1>1 DEF Execute, l_rfe, l_trap, rsp
  <2> QED BY <2>1
<1>2. ASSUME NEW tick \in BOOLEAN, EndIteration(tick) PROVE ClientInformed' /\ ServerOK'
  BY <1>2 DEF EndIteration
<1>3. ASSUME rsp_get_client PROVE ClientInformed' /\ ServerOK'
  BY <1>3 DEF rsp_get_client
<1>4. ASSUME handle_rsp PROVE ClientInformed' /\ ServerOK'
  BY <1>4 DEF handle_rsp, TypeOK
<1>5. ASSUME rsp_client_close \/ ClientDies \/ Detach PROVE ClientInformed' /\ ServerOK'
  BY <1>5 DEF rsp_client_close, ClientDies, Detach, Request, rsp
<1>6. ASSUME NEW a, NEW step, Resume(a, step) PROVE ClientInformed' /\ ServerOK'
  BY <1>6 DEF Resume, Request
<1>7. ASSUME CycleStep PROVE ClientInformed' /\ ServerOK'
  BY <1>7 DEF CycleStep, Request
<1>8. ASSUME NEW a, rsp_write_npc(a) \/ rsp_write_mem(a)
                    \/ rsp_insert_matchpoint(a) \/ rsp_remove_matchpoint(a)
      PROVE  ClientInformed' /\ ServerOK'
  BY <1>8 DEF rsp_write_npc, rsp_write_mem, rsp_insert_matchpoint, rsp_remove_matchpoint,
              Request, rsp
<1>9. CASE UNCHANGED vars
  BY <1>9 DEF vars, rsp
<1> QED
  BY <1>1, <1>2, <1>3, <1>4, <1>5, <1>6, <1>7, <1>8, <1>9
  DEF Next, CpuStep, Server, rsp_continue, rsp_step

-----------------------------------------------------------------------------
(* Without ticks, impolite clients and a breakpoint in the delay slot.     *)

(* No matchpoint is set.                                                   *)
NoBreakpoints == \A a \in Addrs : mp_hash[a] = "none"

(* The processor does not run with breakpoints unless the debug unit stops *)
(* it at them for a client that awaits a reply.                            *)
Caught == stalled \/ NoBreakpoints \/ (TE /\ client_fd /\ client_waiting)

(* The processor is where the program would be.  The instruction that has  *)
(* just completed was no breakpoint, so that handle_rsp does not take a    *)
(* step for a breakpoint hit.                                              *)
InStep ==
  /\ pc = ideal.pc /\ pcnext = ideal.pcnext /\ delay_insn = ideal.delay
  /\ ppc \in Addrs /\ (at = "clocked" \/ (client_waiting /\ sigval = "TRAP"))
     => mp_hash[ppc] = "none"

(* The processor has run over an l.trap, and handle_rsp will put it back.  *)
Trapped ==
  /\ ppc \in Addrs /\ mp_hash[ppc] # "none"
  /\ ideal.pc = ppc /\ ideal.pcnext = Succ(ppc) /\ ideal.delay = FALSE
  /\ pc = Succ(ppc)
  /\ stalled /\ client_fd /\ client_waiting /\ sigval = "TRAP"
  /\ at # "request"

(* A step has executed nothing yet, or one instruction after which the     *)
(* processor stalls.                                                       *)
Stepping ==
  gdb = "running" /\ ST =>
    steps = 0 \/ (steps = 1 /\ (at = "clocked" \/ stalled))

(* The strengthening for sessions that nothing disturbs: where the         *)
(* processor is between two requests, and why it is caught at every        *)
(* breakpoint.                                                             *)
UndisturbedOK ==
  /\ tee = FALSE
  /\ pc \in Addrs
  /\ \A a \in Addrs : mp_hash[a] # "none" => a \in session.bps
  /\ Caught
  /\ Stepping
  /\ InStep \/ Trapped

(* The inductive invariant.                                                *)
IndInv ==
  /\ Typed
  /\ BreakpointsExact
  /\ ClientInformed
  /\ ServerOK
  /\ Undisturbed => UndisturbedOK

(* It holds initially.                                                     *)
LEMMA InitIndInv == Init => IndInv
<1> SUFFICES ASSUME Init PROVE IndInv
  OBVIOUS
<1>1. ASSUME Undisturbed PROVE UndisturbedOK
  <2>1. tee = FALSE /\ pc \in Addrs
    BY <1>1, RspConstants, ConstantFacts DEF Init, Undisturbed
  <2>2. InStep
    BY ConstantFacts, FromInProgram DEF Init, InStep
  <2>3. Caught /\ Stepping /\ \A a \in Addrs : mp_hash[a] # "none" => a \in session.bps
    BY DEF Init, Caught, Stepping
  <2> QED BY <2>1, <2>2, <2>3 DEF UndisturbedOK
<1> QED BY <1>1, InitTyped, InitBreakpoints, InitClient DEF IndInv

(* In an undisturbed session an l.trap is one of the client's breakpoints, *)
(* outside the delay slot, and the debug unit stops it.                    *)
LEMMA TrapIsBreakpoint ==
  ASSUME IndInv, Undisturbed, pc \in Addrs, mem[pc] = "trap", ~ stalled
  PROVE  /\ mp_hash[pc] # "none" /\ TE /\ client_fd /\ client_waiting
         /\ pcnext = Succ(pc) /\ delay_insn = FALSE
         /\ InStep
<1> USE DEF IndInv
<1>1. mp_hash[pc] # "none"
  BY DEF BreakpointsExact, TypeOK, Words
<1>2. pc \in session.bps
  BY <1>1 DEF UndisturbedOK
<1>3. pc # BranchAt + 1
  BY <1>2 DEF Undisturbed
<1>4. pcnext = Succ(pc) /\ delay_insn = FALSE
  BY <1>3, TypedFacts DEF InProgram
<1>5. TE /\ client_fd /\ client_waiting
  BY <1>1 DEF UndisturbedOK, Caught, NoBreakpoints
<1> QED BY <1>1, <1>4, <1>5 DEF UndisturbedOK, Trapped

(* In a session that nothing disturbs every step keeps the processor where *)
(* the program would be.                                                   *)
LEMMA NextUndisturbed ==
  ASSUME IndInv, [Next]_vars, Undisturbed
  PROVE  UndisturbedOK'
<1> USE DEF IndInv
<1>0. /\ Typed /\ TypeOK /\ ServerOK /\ UndisturbedOK /\ session' = session
      /\ ReplyWhenAwaited /\ ~ session.ticks /\ session.polite
  BY SessionFixed DEF Typed, Undisturbed, ClientInformed
<1>1. ASSUME Execute PROVE UndisturbedOK'
  <2>1. InStep /\ mp_hash[pc] = "none" /\ pc' \in Addrs
    <3>1. InStep
      BY <1>0, <1>1 DEF UndisturbedOK, Trapped, Execute
    <3>2. mp_hash[pc] = "none"
      BY <1>0, <1>1 DEF Execute, BreakpointsExact
    <3>3. pc' \in Addrs
      BY <1>0, <1>1, TypedFacts DEF Execute, GoTo, Advance, Here, Position
    <3> QED BY <3>1, <3>2, <3>3
  <2>2. InStep'
    BY <1>0, <1>1, <2>1 DEF InStep, Execute, GoTo, Advance, Here, Position, breaks
  <2>3. Stepping'
    BY <1>0, <1>1 DEF UndisturbedOK, Stepping, Execute, debug
  <2>4. Caught'
    BY <1>0, <1>1 DEF UndisturbedOK, Caught, NoBreakpoints, Execute, debug, rsp, breaks
  <2> QED BY <1>0, <1>1, <2>1, <2>2, <2>3, <2>4 DEF UndisturbedOK, Execute, breaks
<1>2. ASSUME l_rfe PROVE FALSE
  BY <1>0, <1>2, ConstantFacts DEF l_rfe, UndisturbedOK
<1>3. ASSUME l_trap PROVE UndisturbedOK'
  <2>1. /\ mp_hash[pc] # "none" /\ TE /\ client_fd /\ client_waiting
        /\ pcnext = Succ(pc) /\ delay_insn = FALSE /\ InStep
    BY <1>3, TrapIsBreakpoint DEF l_trap
  <2>2. /\ pc' = Succ(pc) /\ ppc' = pc /\ sigval' = "TRAP" /\ stalled' = TE
        /\ UNCHANGED <<ideal, tee, mp_hash, client_fd, client_waiting, gdb, ST, TE, steps>>
        /\ at' = "clocked"
    BY <1>3, <2>1 DEF l_trap, GoTo, Position, debug_ignore_exception, breaks, debug
  <2>3. Trapped'
    BY <1>3, <2>1, <2>2 DEF Trapped, InStep, l_trap
  <2>4. Caught' /\ Stepping'
    BY <1>0, <2>1, <2>2 DEF UndisturbedOK, Caught, Stepping
  <2> QED BY <1>0, <1>3, <2>2, <2>3, <2>4, SuccFacts DEF UndisturbedOK, l_trap
<1>4. ASSUME NEW tick \in BOOLEAN, EndIteration(tick) PROVE UndisturbedOK'
  <2>1. /\ at = "clocked" /\ at' = "top" /\ stalled' = (stalled \/ ST)
        /\ sigval' = IF ST THEN "TRAP" ELSE sigval
        /\ UNCHANGED <<pc, pcnext, delay_insn, tee, ideal, ppc, mp_hash, ST, TE,
                       client_fd, client_waiting, gdb, steps>>
    BY <1>0, <1>4 DEF EndIteration, UndisturbedOK, breaks, debug
  <2>2. ASSUME InStep PROVE InStep'
    BY <2>1, <2>2 DEF InStep
  <2>3. ASSUME Trapped PROVE Trapped'
    BY <2>1, <2>3 DEF Trapped
  <2>4. Caught' /\ Stepping'
    BY <1>0, <2>1 DEF UndisturbedOK, Caught, NoBreakpoints, Stepping, TypeOK
  <2> QED BY <1>0, <2>1, <2>2, <2>3, <2>4 DEF UndisturbedOK
<1>5. ASSUME UNCHANGED <<breaks, cpu, debug, steps>>, Caught',
             stalled => stalled', at' # "clocked" \/ at = "clocked",
             at' = "request" => ~ Trapped,
             Trapped => UNCHANGED <<client_fd, client_waiting>>,
             client_waiting' => client_waiting, sigval' = sigval,
             at = "clocked" => at' = "clocked",
             gdb' = "running" => gdb = "running"
      PROVE  UndisturbedOK'
  <2>1. Stepping'
    BY <1>0, <1>5 DEF UndisturbedOK, Stepping, debug
  <2>2. ASSUME InStep PROVE InStep'
    BY <1>5, <2>2 DEF InStep, breaks, cpu
  <2>3. ASSUME Trapped PROVE Trapped'
    BY <1>5, <2>3 DEF Trapped, breaks, cpu
  <2> QED BY <1>0, <1>5, <2>1, <2>2, <2>3 DEF UndisturbedOK, breaks, cpu
<1>6. ASSUME rsp_get_client \/ rsp_client_close \/ ClientDies PROVE UndisturbedOK'
  BY <1>0, <1>5, <1>6
  DEF rsp_get_client, rsp_client_close, ClientDies, Caught, NoBreakpoints, Trapped, TypeOK,
      UndisturbedOK, ServerOK, rsp, breaks, debug
<1>7. ASSUME handle_rsp PROVE UndisturbedOK'
  <2>1. CASE InStep
    <3>1. UNCHANGED <<pc, pcnext, delay_insn>>
      BY <1>7, <2>1 DEF handle_rsp, InStep
    <3>2. InStep'
      BY <1>7, <2>1, <3>1 DEF handle_rsp, InStep, breaks
    <3>3. Caught' /\ Stepping'
      BY <1>0, <1>7 DEF handle_rsp, Caught, Stepping, UndisturbedOK, ReplyWhenAwaited, debug
    <3> QED BY <1>0, <1>7, <3>1, <3>2, <3>3 DEF UndisturbedOK, handle_rsp, breaks
  <2>2. CASE Trapped
    <3>1. ppc \in Addrs /\ set_npc(ppc) /\ ppc # pc
      BY <1>7, <2>2, SuccFacts DEF handle_rsp, Trapped
    <3>2. pc' = ppc /\ pcnext' = Succ(ppc) /\ delay_insn' = FALSE
      BY <3>1 DEF set_npc, GoTo, From, Position
    <3>3. InStep'
      BY <1>7, <2>2, <3>2 DEF handle_rsp, Trapped, InStep
    <3>4. Caught' /\ Stepping'
      BY <1>0, <1>7 DEF handle_rsp, Caught, Stepping, UndisturbedOK, ReplyWhenAwaited, debug
    <3> QED BY <1>0, <1>7, <3>1, <3>2, <3>3, <3>4 DEF UndisturbedOK, handle_rsp, breaks
  <2> QED BY <1>0, <2>1, <2>2 DEF UndisturbedOK
<1>8. ASSUME Request PROVE InStep /\ ~ client_waiting /\ stalled /\ client_fd
  BY <1>0, <1>8 DEF Request, UndisturbedOK, Trapped, ServerOK
<1>9. ASSUME NEW a \in Addrs \cup {pc}, Request, set_npc(a), Moved(a)
      PROVE  /\ pc' = ideal'.pc /\ pcnext' = ideal'.pcnext /\ delay_insn' = ideal'.delay
             /\ pc' \in Addrs
  BY <1>0, <1>8, <1>9, FromInProgram
  DEF set_npc, Moved, GoTo, Here, Position, InStep, UndisturbedOK
<1>10. ASSUME NEW a \in Addrs \cup {pc}, NEW step \in BOOLEAN, Resume(a, step)
       PROVE  UndisturbedOK'
  <2>1. Request /\ at' = "top" /\ sigval' = "none" /\ mp_hash' = mp_hash
    BY <1>10 DEF Resume, Request, breaks
  <2>2. InStep' /\ pc' \in Addrs
    BY <1>9, <1>10, <2>1 DEF Resume, InStep
  <2>3. Caught' /\ Stepping'
    BY <1>8, <1>10, <2>1 DEF Resume, Caught, Stepping
  <2> QED BY <1>0, <1>10, <2>1, <2>2, <2>3 DEF UndisturbedOK, Resume
<1>11. ASSUME NEW a \in Addrs, rsp_write_npc(a) PROVE UndisturbedOK'
  <2>1. /\ Request /\ at' = "top" /\ ~ client_waiting' /\ stalled'
        /\ UNCHANGED <<mp_hash, ST, gdb, steps, tee, stalled>>
    BY <1>8, <1>11 DEF rsp_write_npc, Request, breaks, debug, rsp
  <2>2. InStep' /\ pc' \in Addrs
    BY <1>9, <1>11, <2>1 DEF rsp_write_npc, InStep
  <2>3. Caught' /\ Stepping'
    BY <1>0, <2>1 DEF Caught, Stepping, UndisturbedOK, Request
  <2> QED BY <1>0, <2>1, <2>2, <2>3 DEF UndisturbedOK
<1>12. ASSUME NEW a \in Addrs,
              rsp_write_mem(a) \/ rsp_remove_matchpoint(a)
              \/ (a \in session.bps /\ rsp_insert_matchpoint(a))
       PROVE  UndisturbedOK'
  <2>1. /\ Request /\ at' = "top" /\ ~ client_waiting' /\ stalled'
        /\ UNCHANGED <<cpu, ST, gdb, steps>>
    BY <1>8, <1>12
    DEF rsp_write_mem, rsp_remove_matchpoint, rsp_insert_matchpoint, Request, debug, rsp
  <2>2. \A b \in Addrs : mp_hash'[b] # "none" => b \in session.bps
    BY <1>0, <1>12
    DEF UndisturbedOK, rsp_write_mem, rsp_remove_matchpoint, rsp_insert_matchpoint, TypeOK
  <2>3. InStep'
    BY <1>8, <2>1 DEF InStep, cpu
  <2>4. Caught' /\ Stepping'
    BY <1>0, <2>1 DEF Caught, Stepping, Request
  <2> QED BY <1>0, <2>1, <2>2, <2>3, <2>4 DEF UndisturbedOK, cpu
<1>13. ASSUME Detach PROVE UndisturbedOK'
  <2>1. /\ Request /\ NoBreakpoints /\ gdb' = "gone" /\ UNCHANGED <<breaks, cpu>>
        /\ at' = "top" /\ ~ client_waiting'
    BY <1>0, <1>8, <1>13 DEF Detach, Request, NoBreakpoints
  <2>2. InStep'
    BY <1>8, <2>1 DEF InStep, breaks, cpu
  <2>3. Caught' /\ Stepping'
    BY <2>1 DEF Caught, NoBreakpoints, Stepping, breaks
  <2> QED BY <1>0, <2>1, <2>2, <2>3 DEF UndisturbedOK, breaks, cpu
<1>14. ASSUME CycleStep PROVE FALSE
  BY <1>0, <1>14 DEF CycleStep
<1>15. CASE UNCHANGED vars
  <2>1. Caught'
    BY <1>0, <1>15 DEF vars, UndisturbedOK, Caught, NoBreakpoints, breaks, debug, rsp
  <2> QED BY <1>15, <1>5, <2>1 DEF vars, Trapped, rsp
<1>16. session.bps \subseteq Addrs
  BY <1>0, ConstantFacts DEF Typed
<1> QED
  BY <1>1, <1>2, <1>3, <1>4, <1>6, <1>7, <1>10, <1>11, <1>12, <1>13, <1>14, <1>15, <1>16
  DEF Next, CpuStep, Server, rsp_continue, rsp_step

-----------------------------------------------------------------------------
(* Every step preserves the inductive invariant.                           *)
LEMMA NextIndInv ==
  ASSUME IndInv, [Next]_vars
  PROVE  IndInv'
<1>1. Typed' /\ BreakpointsExact'
  BY NextTyped, NextBreakpoints DEF IndInv
<1>2. ClientInformed' /\ ServerOK'
  BY NextClient DEF IndInv, Typed
<1>3. Undisturbed' => Undisturbed
  BY SessionFixed DEF Undisturbed
<1> QED BY <1>1, <1>2, <1>3, NextUndisturbed DEF IndInv

(* The inductive invariant holds of every behaviour.                       *)
LEMMA IndInvHolds == Spec => []IndInv
<1>1. IndInv /\ [Next]_vars => IndInv'
  BY NextIndInv
<1> QED BY InitIndInv, <1>1, PTL DEF Spec

(* However a client inserts, removes and repeats its matchpoint packets,   *)
(* mp_hash and the memory together always hold the loaded program.         *)
THEOREM BreakpointsAreExact == Spec => []BreakpointsExact
<1>1. IndInv => BreakpointsExact
  BY DEF IndInv
<1> QED BY <1>1, IndInvHolds, PTL

(* handle_rsp owes a stop reply exactly to the client that awaits one, and *)
(* a client that was told that the target has stopped finds it stalled,    *)
(* through ticks, lost connections and new clients.                        *)
THEOREM ClientIsInformed == Spec => []ClientInformed
<1>1. IndInv => ClientInformed
  BY DEF IndInv
<1> QED BY <1>1, IndInvHolds, PTL

(* A single step executes at most one instruction before exec_main stalls, *)
(* if nothing disturbs the session.                                        *)
THEOREM StepsExecuteOnce == Spec => []OneInsnPerStep
<1>1. IndInv => OneInsnPerStep
  BY DEF IndInv, UndisturbedOK, Stepping, OneInsnPerStep
<1> QED BY <1>1, IndInvHolds, PTL

(* Breakpoints and steps are transparent in an undisturbed session: what   *)
(* cpu_clock executes is what the program would execute next.              *)
THEOREM BreakpointsAreTransparent == Spec => TransparentUndisturbed
<1>1. IndInv /\ [Next]_vars => [Undisturbed /\ Execute => pc = ideal.pc]_vars
  <2> SUFFICES ASSUME IndInv, Undisturbed, Execute PROVE pc = ideal.pc
    OBVIOUS
  <2> QED BY DEF IndInv, UndisturbedOK, InStep, Trapped, Execute
<1> QED BY <1>1, IndInvHolds, PTL DEF Spec, TransparentUndisturbed

-----------------------------------------------------------------------------
(* JTAG: division.                                                         *)

(* Quotient and rest are unique.                                           *)
LEMMA DivUnique ==
  ASSUME NEW m \in Nat, m > 0, NEW q1 \in Int, NEW r1 \in 0 .. m - 1, NEW q2 \in Int, NEW r2 \in 0 .. m - 1,
         m * q1 + r1 = m * q2 + r2
  PROVE  q1 = q2 /\ r1 = r2
<1>1. m * (q1 - q2) = r2 - r1
  OBVIOUS
<1>2. ~ (q1 - q2 >= 1)
  <2> SUFFICES ASSUME q1 - q2 >= 1 PROVE FALSE
    OBVIOUS
  <2>1. m * (q1 - q2) >= m
    OBVIOUS
  <2> QED BY <1>1, <2>1
<1>3. ~ (q1 - q2 <= -1)
  <2> SUFFICES ASSUME q1 - q2 <= -1 PROVE FALSE
    OBVIOUS
  <2>1. m * (q1 - q2) <= -m
    OBVIOUS
  <2> QED BY <1>1, <2>1
<1>4. q1 = q2
  BY <1>2, <1>3
<1> QED BY <1>1, <1>4

(* A number is in one block of m.                                          *)
LEMMA BlockOf ==
  ASSUME NEW m \in Nat, m > 0, NEW v \in Int
  PROVE  \E q \in Int : v = m * q + (v % m) /\ v % m \in 0 .. m - 1
OBVIOUS

LEMMA RestOf ==
  ASSUME NEW m \in Nat, m > 0, NEW q \in Int, NEW r \in 0 .. m - 1, NEW v \in Int, v = m * q + r
  PROVE  v % m = r
<1>1. PICK p \in Int : v = m * p + (v % m) /\ v % m \in 0 .. m - 1
  BY BlockOf
<1> QED BY <1>1, DivUnique

-----------------------------------------------------------------------------
(* JTAG: blocks, and the invariant.                                        *)

(* What Jtag assumes of its constants.                                     *)
BlockSizes ==
  /\ MemSize \in Nat /\ MAX_SPRS \in Nat \ {0} /\ MaxBlocks \in Nat
  /\ \A b \in Blocks :
       /\ b.mod \in J!Modules \cup {"MISSING"} /\ b.write \in BOOLEAN /\ b.width \in {1, 2, 4}
       /\ b.base \in Nat /\ b.size \in Nat \ {0} /\ b.chunks \in Nat \ {0}
       /\ b.mod = "CPU0" => b.chunks <= MAX_SPRS /\ b.size # 1

(* The command for chunk p of a block, and whether another command is it:  *)
(* the address of a register counts modulo MAX_SPRS.                       *)
AddrOf(b, p) == b.base + p * (IF b.mod = "WISHBONE" THEN b.size ELSE 1)
IsFor(b, c, p) ==
  /\ c.write_defined_p /\ c.write = b.write /\ c.width = b.width /\ c.size = b.size
  /\ IF b.mod = "CPU0" THEN c.addr % MAX_SPRS = AddrOf(b, p) % MAX_SPRS ELSE c.addr = AddrOf(b, p)

(* Whether its module supports a block.                                    *)
Fits(b) ==
  \/ b.mod = "WISHBONE" /\ b.base % b.width = 0 /\ b.size % b.width = 0
  \/ b.mod = "CPU0" /\ b.width = 4 /\ b.size = 4

(* The bytes of the first p chunks, and the cell of byte k.                *)
Chunks(b, p) == 0 .. p * b.size - 1
PlaceOf(b, k) ==
  IF b.mod = "WISHBONE" THEN b.base + k ELSE (4 * (b.base % MAX_SPRS) + k) % (4 * MAX_SPRS)
Kinds == {"WISHBONE", "CPU0"}
Room(m) == IF m = "WISHBONE" THEN 0 .. MemSize - 1 ELSE 0 .. 4 * MAX_SPRS - 1

(* The first p chunks of a block that is written are in place, and all     *)
(* that is written belongs to the first p + 1 chunks.                      *)
Held(b, p, cs) ==
  b.write /\ b.mod \in Kinds =>
    \A k \in Chunks(b, p) : PlaceOf(b, k) \in Room(b.mod) => cs[b.mod][PlaceOf(b, k)] = k + 1
Own(b, p, m, c, v) ==
  /\ Fits(b) /\ b.write /\ m = b.mod
  /\ \E k \in Chunks(b, b.chunks) : /\ PlaceOf(b, k) = c /\ k < (p + 1) * b.size
                                    /\ v \in {k + 1, J!Zero}
Only(b, p, cs) == \A m \in Kinds : \A c \in Room(m) : cs[m][c] # 0 => Own(b, p, m, c, cs[m][c])

(* Types.                                                                  *)
Commands == [write_defined_p : BOOLEAN, write : BOOLEAN, width : Nat, addr : Nat, size : Nat]
Contents == {f \in [Kinds -> UNION {[Room(m) -> Int] : m \in Kinds}] : \A m \in Kinds : f[m] \in [Room(m) -> Int]}
Targets == [instr : {"UNDEFINED", "DEBUG", "BYPASS"}, mod_id : J!Modules \cup {"UNDEFINED"},
            cmd : Commands, stalled : BOOLEAN, cells : Contents]
Clients == [b : Blocks, at : {"over", "moving", "done", "failed", "refused"},
            stall : {"unknown", "stalled"}, sel : BOOLEAN, cmd : BOOLEAN, doubt : BOOLEAN, fresh : BOOLEAN,
            pos : Nat, got : Seq(Int)]
JtagTyped(t, c) ==
  /\ t \in Targets /\ c \in Clients
  /\ c.pos <= c.b.chunks /\ (c.at = "moving" => c.pos < c.b.chunks)

(* The client's module is selected, and its command recorded, unless it    *)
(* was refused or dropped; after a chunk in doubt it may have been         *)
(* advanced.  A command that was just sent was not dropped.                *)
Linked(t, c) ==
  /\ c.sel => t.mod_id = c.b.mod
  /\ c.cmd => c.sel
  /\ c.cmd => \/ t.cmd = J!NoCommand
              \/ Fits(c.b) /\ IsFor(c.b, t.cmd, c.pos)
              \/ Fits(c.b) /\ c.doubt /\ IsFor(c.b, t.cmd, c.pos + 1)
  /\ c.fresh => c.doubt /\ (Fits(c.b) => IsFor(c.b, t.cmd, c.pos))

(* If it was advanced, the chunk in doubt is in place.                     *)
Stored(t, c) ==
  /\ Held(c.b, c.pos, t.cells) /\ Only(c.b, c.pos, t.cells)
  /\ Fits(c.b) /\ c.cmd /\ t.cmd # J!NoCommand /\ ~ IsFor(c.b, t.cmd, c.pos) => Held(c.b, c.pos + 1, t.cells)

(* What was read, and what the client concludes.                           *)
Taken(c) == ~ c.b.write => c.got = [k \in 1 .. c.pos * c.b.size |-> PlaceOf(c.b, k - 1)]
Outside(b) == b.mod = "WISHBONE" /\ \E k \in Chunks(b, b.chunks) : PlaceOf(b, k) \notin Room("WISHBONE")
Concluded(t, c) ==
  /\ c.at = "refused" => ~ Fits(c.b)
  /\ c.at = "done" => Fits(c.b)
  /\ c.at = "failed" => Outside(c.b)
  /\ c.stall = "stalled" => t.stalled

JtagInv(t, c) == JtagTyped(t, c) /\ Linked(t, c) /\ Stored(t, c) /\ Taken(c) /\ Concluded(t, c)

-----------------------------------------------------------------------------
(* JTAG: the address and the place of a chunk.                             *)

(* What is known of a block.                                               *)
LEMMA BlockFacts ==
  ASSUME BlockSizes, NEW b \in Blocks
  PROVE  /\ b.mod \in {"WISHBONE", "CPU0", "CPU1", "MISSING"} /\ b.write \in BOOLEAN
         /\ b.width \in {1, 2, 4} /\ b.base \in Nat /\ b.size \in Nat /\ b.size > 0
         /\ b.chunks \in Nat /\ b.chunks > 0 /\ MAX_SPRS \in Nat /\ MAX_SPRS > 0 /\ MemSize \in Nat
         /\ b.mod = "CPU0" => b.chunks <= MAX_SPRS /\ b.size # 1
<1>1. b.mod \in {"WISHBONE", "CPU0", "CPU1", "MISSING"}
  BY DEF BlockSizes, J!Modules
<1> QED BY <1>1 DEF BlockSizes

(* The address of a chunk, and of the one after it.                        *)
LEMMA AddrFacts ==
  ASSUME BlockSizes, NEW b \in Blocks, NEW p \in Nat
  PROVE  /\ AddrOf(b, p) \in Nat
         /\ b.mod = "WISHBONE" => AddrOf(b, p) = b.base + p * b.size /\ AddrOf(b, p + 1) = AddrOf(b, p) + b.size
         /\ b.mod # "WISHBONE" => AddrOf(b, p) = b.base + p /\ AddrOf(b, p + 1) = AddrOf(b, p) + 1
<1>1. b.base \in Nat /\ b.size \in Nat
  BY BlockFacts
<1>2. PICK z \in Nat : z = b.size
  BY <1>1
<1>3. PICK y \in Nat : y = p * z
  OBVIOUS
<1>4. (p + 1) * z = y + z
  BY <1>3
<1> QED BY <1>1, <1>2, <1>3, <1>4 DEF AddrOf

(* A multiple of the size moves an aligned address to an aligned one.      *)
LEMMA AlignedStep ==
  ASSUME NEW w \in Nat, w > 0, NEW a \in Nat, NEW p \in Nat, NEW z \in Nat, z % w = 0
  PROVE  (a + p * z) % w = a % w
<1>1. PICK q \in Int : a = w * q + (a % w) /\ a % w \in 0 .. w - 1
  BY BlockOf
<1>2. PICK r \in Int : z = w * r + (z % w)
  BY BlockOf
<1>3. z = w * r
  BY <1>2
<1>4. PICK y \in Int : y = p * r
  OBVIOUS
<1>5. p * z = w * y
  BY <1>3, <1>4
<1>6. PICK x \in Int : x = a + p * z
  OBVIOUS
<1>7. PICK s \in Int : s = q + y
  OBVIOUS
<1>8. w * s = w * q + w * y
  BY <1>7
<1>9. PICK e \in 0 .. w - 1 : e = a % w
  BY <1>1
<1>10. x = w * s + e
  BY <1>1, <1>5, <1>6, <1>8, <1>9
<1>11. x % w = e
  BY <1>10, RestOf
<1> QED BY <1>6, <1>9, <1>11

(* Every chunk of a block is accepted, or none.                            *)
Answers(b, p, c) ==
  /\ c \in Commands
  /\ Fits(b) => IsFor(b, c, p)
  /\ ~ Fits(b) => c = J!NoCommand

(* No command is a command like others.                                    *)
LEMMA NoCommandFacts ==
  /\ J!NoCommand \in Commands
  /\ J!NoCommand = [write_defined_p |-> FALSE, write |-> TRUE, width |-> 1, addr |-> 0, size |-> 1]
  /\ J!NoCommand.write_defined_p = FALSE
<1>1. J!NoCommand = [write_defined_p |-> FALSE, write |-> TRUE, width |-> 1, addr |-> 0, size |-> 1]
  <2>1. PICK c : c = J!Command(TRUE, 1, 0, 1)
    OBVIOUS
  <2>2. c = [write_defined_p |-> TRUE, write |-> TRUE, width |-> 1, addr |-> 0, size |-> 1]
    BY <2>1 DEF J!Command
  <2>3. J!NoCommand = [c EXCEPT !.write_defined_p = FALSE]
    BY <2>1 DEF J!NoCommand
  <2> QED BY <2>2, <2>3
<1> QED BY <1>1 DEF Commands

(* What is recorded for a chunk.                                           *)
LEMMA AcceptedFacts ==
  ASSUME BlockSizes, NEW b \in Blocks, NEW p \in Nat
  PROVE  Answers(b, p, J!Accepted(b.mod, J!Command(b.write, b.width, AddrOf(b, p), b.size)))
<1>3. b.width \in Nat /\ b.width > 0 /\ b.base \in Nat /\ b.size \in Nat /\ MAX_SPRS \in Nat /\ MAX_SPRS > 0
      /\ b.write \in BOOLEAN
  BY BlockFacts
<1>4. AddrOf(b, p) \in Nat /\ (b.mod = "WISHBONE" => AddrOf(b, p) = b.base + p * b.size)
  BY AddrFacts
<1>a. PICK w \in Nat : w = b.width
  BY <1>3
<1>b. PICK z \in Nat : z = b.size
  BY <1>3
<1>c. PICK a \in Nat : a = AddrOf(b, p)
  BY <1>4
<1>d. PICK v \in BOOLEAN : v = b.write
  BY <1>3
<1>e. PICK e \in Nat : e = b.base
  BY <1>3
<1>2. PICK s : s = [write_defined_p |-> TRUE, write |-> v, width |-> w, addr |-> a, size |-> z]
  OBVIOUS
<1>1. s = J!Command(b.write, b.width, AddrOf(b, p), b.size)
  BY <1>2, <1>a, <1>b, <1>c, <1>d DEF J!Command
<1>f. /\ s.write_defined_p = TRUE /\ s.write = v /\ s.width = w /\ s.addr = a /\ s.size = z
      /\ s \in Commands
  BY <1>2 DEF Commands
<1>5. CASE b.mod = "WISHBONE"
  <2>0. ASSUME z % w = 0 PROVE (e + p * z) % w = e % w
    <3>1. w > 0
      BY <1>3, <1>a
    <3> QED BY <2>0, <3>1, AlignedStep
  <2>1. z % w = 0 => a % w = e % w
    BY <2>0, <1>4, <1>5, <1>b, <1>c, <1>e
  <2>2. J!validate_wb_fields(s) <=> Fits(b)
    BY <1>f, <1>5, <2>1, <1>a, <1>b, <1>c, <1>e DEF J!validate_wb_fields, Fits
  <2>3. J!Accepted(b.mod, s) = IF J!validate_wb_fields(s) THEN s ELSE J!NoCommand
    BY <1>5 DEF J!Accepted
  <2>4. Fits(b) => IsFor(b, s, p)
    BY <1>f, <1>5, <1>a, <1>b, <1>c, <1>d DEF IsFor
  <2>5. Answers(b, p, J!Accepted(b.mod, s))
    BY <1>f, <2>2, <2>3, <2>4, NoCommandFacts DEF Answers
  <2> QED BY <1>1, <2>5
<1>6. CASE b.mod = "CPU0"
  <2>1. J!validate_spr_fields(s) <=> Fits(b)
    BY <1>f, <1>6, <1>a, <1>b DEF J!validate_spr_fields, Fits
  <2>2. J!Accepted(b.mod, s) = IF J!validate_spr_fields(s) THEN [s EXCEPT !.addr = s.addr % MAX_SPRS] ELSE J!NoCommand
    BY <1>6 DEF J!Accepted
  <2>3. PICK g \in Nat : g = a % MAX_SPRS /\ g % MAX_SPRS = g
    <3>1. PICK g \in 0 .. MAX_SPRS - 1 : g = a % MAX_SPRS
      BY <1>3
    <3>2. g % MAX_SPRS = g
      BY <1>3, <3>1
    <3> QED BY <3>1, <3>2
  <2>4. PICK h : h = [s EXCEPT !.addr = s.addr % MAX_SPRS]
    OBVIOUS
  <2>5. h = [write_defined_p |-> TRUE, write |-> v, width |-> w, addr |-> g, size |-> z]
    BY <1>2, <1>f, <2>3, <2>4
  <2>6. /\ h.write_defined_p = TRUE /\ h.write = v /\ h.width = w /\ h.addr = g /\ h.size = z
        /\ h \in Commands
    BY <2>5 DEF Commands
  <2>7. IsFor(b, h, p)
    BY <1>6, <2>3, <2>6, <1>a, <1>b, <1>c, <1>d DEF IsFor
  <2>8. Answers(b, p, J!Accepted(b.mod, s))
    BY <2>1, <2>2, <2>4, <2>6, <2>7, NoCommandFacts DEF Answers
  <2> QED BY <1>1, <2>8
<1>7. CASE b.mod \notin {"WISHBONE", "CPU0"}
  <2>1. J!Accepted(b.mod, s) = J!NoCommand /\ ~ Fits(b)
    BY <1>7 DEF J!Accepted, Fits
  <2>2. Answers(b, p, J!Accepted(b.mod, s))
    BY <2>1, NoCommandFacts DEF Answers
  <2> QED BY <1>1, <2>2
<1> QED BY <1>5, <1>6, <1>7

(* The bytes of a register are next to each other.                         *)
LEMMA RegisterPlace ==
  ASSUME NEW m \in Nat, m > 0, NEW e \in Nat, NEW p \in Nat, NEW i \in 0 .. 3
  PROVE  /\ (4 * (e % m) + (p * 4 + i)) % (4 * m) = 4 * ((e + p) % m) + i
         /\ 4 * ((e + p) % m) + i \in 0 .. 4 * m - 1
<1>1. PICK q \in Int : e = m * q + (e % m) /\ e % m \in 0 .. m - 1
  BY BlockOf
<1>2. PICK f \in Nat : f = e + p
  OBVIOUS
<1>3. PICK u \in Int : f = m * u + (f % m) /\ f % m \in 0 .. m - 1
  BY BlockOf
<1>4. PICK r \in 0 .. m - 1, s \in 0 .. m - 1 : r = e % m /\ s = f % m
  BY <1>1, <1>3
<1>5. PICK d \in Int : d = u - q
  OBVIOUS
<1>6. m * d = m * u - m * q
  BY <1>5
<1>7. PICK md \in Int : md = m * d
  OBVIOUS
<1>8. r + p = md + s
  BY <1>1, <1>2, <1>3, <1>4, <1>6, <1>7
<1>9. PICK m4 \in Nat : m4 = 4 * m /\ m4 > 0
  OBVIOUS
<1>10. m4 * d = 4 * md
  BY <1>7, <1>9
<1>11. PICK x \in Int : x = 4 * r + (p * 4 + i)
  OBVIOUS
<1>12. PICK y \in 0 .. m4 - 1 : y = 4 * s + i
  BY <1>9
<1>13. x = m4 * d + y
  BY <1>8, <1>10, <1>11, <1>12
<1>14. x % m4 = y
  BY <1>9, <1>13, RestOf
<1> QED BY <1>2, <1>4, <1>9, <1>11, <1>12, <1>14

(* The bytes up to a chunk, and those of the next one.                     *)
LEMMA ChunkFacts ==
  ASSUME BlockSizes, NEW b \in Blocks, NEW p \in Nat
  PROVE  /\ p * b.size \in Nat /\ (p + 1) * b.size = p * b.size + b.size
         /\ p < b.chunks => (p + 1) * b.size <= b.chunks * b.size
         /\ p <= b.chunks => p * b.size <= b.chunks * b.size
<1>1. b.size \in Nat /\ b.chunks \in Nat
  BY BlockFacts
<1>2. PICK z \in Nat, n \in Nat : z = b.size /\ n = b.chunks
  BY <1>1
<1>3. /\ p * z \in Nat /\ (p + 1) * z = p * z + z
  OBVIOUS
<1>4. ASSUME p <= n PROVE p * z <= n * z
  <2>1. PICK d \in Nat : n = p + d
    BY <1>4
  <2>2. n * z = p * z + d * z /\ d * z \in Nat
    BY <2>1
  <2> QED BY <1>3, <2>2
<1>5. ASSUME p < n PROVE (p + 1) * z <= n * z
  <2>1. PICK d \in Nat : n = (p + 1) + d
    BY <1>5
  <2>2. n * z = (p + 1) * z + d * z /\ d * z \in Nat
    BY <2>1
  <2> QED BY <1>3, <2>2
<1> QED BY <1>2, <1>3, <1>4, <1>5

(* Two bytes of a block that is supported have two places.                 *)
LEMMA PlaceInjective ==
  ASSUME BlockSizes, NEW b \in Blocks, Fits(b), NEW k \in Chunks(b, b.chunks), NEW j \in Chunks(b, b.chunks),
         PlaceOf(b, k) = PlaceOf(b, j)
  PROVE  k = j
<1>1. /\ b.base \in Nat /\ b.size \in Nat /\ b.chunks \in Nat /\ MAX_SPRS \in Nat /\ MAX_SPRS > 0
      /\ b.mod = "CPU0" => b.chunks <= MAX_SPRS
  BY BlockFacts
<1>2. b.chunks * b.size \in Nat
  BY <1>1, ChunkFacts
<1>3. k \in Nat /\ j \in Nat /\ k < b.chunks * b.size /\ j < b.chunks * b.size
  BY <1>2 DEF Chunks
<1>4. CASE b.mod = "WISHBONE"
  BY <1>1, <1>3, <1>4 DEF PlaceOf
<1>5. CASE b.mod # "WISHBONE"
  <2>1. b.mod = "CPU0" /\ b.size = 4
    BY <1>5 DEF Fits
  <2>2. PICK m4 \in Nat : m4 = 4 * MAX_SPRS /\ m4 > 0
    BY <1>1
  <2>3. k \in 0 .. m4 - 1 /\ j \in 0 .. m4 - 1
    BY <1>1, <1>3, <2>1, <2>2
  <2>4. PICK r \in Nat : r = 4 * (b.base % MAX_SPRS)
    BY <1>1
  <2>5. PICK x \in Int, y \in Int : x = r + k /\ y = r + j
    BY <1>3
  <2>6. x % m4 = y % m4
    BY <1>5, <2>2, <2>4, <2>5 DEF PlaceOf
  <2>7. PICK q \in Int : x = m4 * q + (x % m4) /\ x % m4 \in 0 .. m4 - 1
    BY <2>2, BlockOf
  <2>8. PICK u \in Int : y = m4 * u + (y % m4) /\ y % m4 \in 0 .. m4 - 1
    BY <2>2, BlockOf
  <2>9. PICK e \in Int : e = x % m4
    BY <2>7
  <2>10. PICK d \in Int : d = q - u
    OBVIOUS
  <2>11. m4 * d = m4 * q - m4 * u
    BY <2>10
  <2>12. m4 * d + j = m4 * 0 + k
    BY <1>3, <2>3, <2>5, <2>6, <2>7, <2>8, <2>9, <2>11
  <2> QED BY <2>2, <2>3, <2>12, DivUnique
<1> QED BY <1>4, <1>5

-----------------------------------------------------------------------------
(* JTAG: what GO_COMMAND writes.                                           *)

(* The cells.                                                              *)
LEMMA CellsAre ==
  /\ DOMAIN J!Cells = Kinds
  /\ J!Cells["WISHBONE"] = Room("WISHBONE") /\ J!Cells["CPU0"] = Room("CPU0")
  /\ \A m \in Kinds : J!Cells[m] = Room(m)
BY DEF J!Cells, Kinds, Room

(* GO_COMMAND is sent for chunk p of a block that is supported.            *)
Aimed(b, p, t) ==
  /\ b \in Blocks /\ Fits(b) /\ p \in Nat /\ p < b.chunks
  /\ t \in Targets /\ t.mod_id = b.mod /\ IsFor(b, t.cmd, p)

(* The smaller of two numbers.                                             *)
LEMMA SmallerOf ==
  ASSUME NEW x \in Int, NEW y \in Int
  PROVE  J!Min({x, y}) = IF x < y THEN x ELSE y
<1>1. PICK z \in {x, y} : \A w \in {x, y} : z <= w
  <2>1. CASE x <= y
    BY <2>1
  <2>2. CASE ~ (x <= y)
    BY <2>2
  <2> QED BY <2>1, <2>2
<1>2. /\ J!Min({x, y}) \in {x, y}
      /\ \A w \in {x, y} : J!Min({x, y}) <= w
  BY <1>1 DEF J!Min
<1> QED BY <1>2

(* It is supported by the memory, or by the registers, in words.           *)
LEMMA AimedFacts ==
  ASSUME BlockSizes, NEW b, NEW p, NEW t, Aimed(b, p, t)
  PROVE  /\ b \in Blocks /\ b.mod \in Kinds /\ t.mod_id = b.mod /\ p \in Nat /\ t.cmd \in Commands
         /\ b.mod = "CPU0" => b.size = 4
         /\ b.size \in Nat /\ b.size > 0 /\ b.write \in BOOLEAN /\ p * b.size \in Nat
         /\ t.cmd.size = b.size /\ t.cmd.addr \in Nat /\ t.cmd.write = b.write /\ t.cmd.write_defined_p
<1>1. b \in Blocks /\ Fits(b) /\ p \in Nat /\ t \in Targets /\ t.mod_id = b.mod /\ IsFor(b, t.cmd, p)
  BY DEF Aimed
<1>2. b.size \in Nat /\ b.size > 0 /\ b.write \in BOOLEAN
  BY <1>1, BlockFacts
<1>3. b.mod \in Kinds /\ (b.mod = "CPU0" => b.size = 4)
  BY <1>1 DEF Fits, Kinds
<1>4. t.cmd \in Commands
  BY <1>1 DEF Targets
<1>5. t.cmd.addr \in Nat
  BY <1>4 DEF Commands
<1>6. t.cmd.size = b.size /\ t.cmd.write = b.write /\ t.cmd.write_defined_p
  BY <1>1 DEF IsFor
<1>7. p * b.size \in Nat
  BY <1>1, ChunkFacts
<1> QED BY <1>1, <1>2, <1>3, <1>4, <1>5, <1>6, <1>7

(* Each byte goes to its place.                                            *)
LEMMA CellPlace ==
  ASSUME BlockSizes, NEW b, NEW p, NEW t, Aimed(b, p, t), NEW i \in 0 .. b.size - 1
  PROVE  /\ J!Cell(t, i) = PlaceOf(b, p * b.size + i)
         /\ p * b.size + i \in Chunks(b, b.chunks)
         /\ b.mod = "CPU0" => PlaceOf(b, p * b.size + i) \in Room("CPU0")
<1>1. /\ b \in Blocks /\ t.mod_id = b.mod /\ p \in Nat /\ (b.mod = "CPU0" => b.size = 4) /\ b.mod \in Kinds
      /\ b.size \in Nat /\ p * b.size \in Nat /\ IsFor(b, t.cmd, p) /\ p < b.chunks
  BY AimedFacts DEF Aimed
<1>2. /\ b.base \in Nat /\ MAX_SPRS \in Nat /\ MAX_SPRS > 0
      /\ (p + 1) * b.size = p * b.size + b.size /\ (p + 1) * b.size <= b.chunks * b.size
      /\ b.chunks * b.size \in Nat
  BY <1>1, BlockFacts, ChunkFacts
<1>3. PICK z \in Nat, y \in Nat, u \in Nat : z = b.size /\ y = p * b.size /\ u = b.chunks * b.size
  BY <1>1, <1>2
<1>4. y + i \in 0 .. u - 1
  BY <1>2, <1>3
<1>5. p * b.size + i \in Chunks(b, b.chunks)
  BY <1>3, <1>4 DEF Chunks
<1>6. CASE b.mod = "WISHBONE"
  <2>1. t.cmd.addr = b.base + y
    BY <1>1, <1>3, <1>6, AddrFacts DEF IsFor
  <2>2. J!Cell(t, i) = t.cmd.addr + i
    BY <1>1, <1>6 DEF J!Cell
  <2>3. PlaceOf(b, p * b.size + i) = b.base + (y + i)
    BY <1>3, <1>6 DEF PlaceOf
  <2> QED BY <1>2, <1>5, <1>6, <2>1, <2>2, <2>3
<1>7. CASE b.mod = "CPU0"
  <2>1. i \in 0 .. 3 /\ y = p * 4
    BY <1>1, <1>3, <1>7
  <2>2. PICK e \in Nat : e = b.base
    BY <1>2
  <2>3. /\ (4 * (e % MAX_SPRS) + (p * 4 + i)) % (4 * MAX_SPRS) = 4 * ((e + p) % MAX_SPRS) + i
        /\ 4 * ((e + p) % MAX_SPRS) + i \in 0 .. 4 * MAX_SPRS - 1
    BY <1>1, <1>2, <2>1, RegisterPlace
  <2>4. PlaceOf(b, p * b.size + i) = 4 * ((e + p) % MAX_SPRS) + i
    BY <1>3, <1>7, <2>1, <2>2, <2>3 DEF PlaceOf
  <2>5. t.cmd.addr % MAX_SPRS = (e + p) % MAX_SPRS
    BY <1>1, <1>7, <2>2, AddrFacts DEF IsFor
  <2>6. J!Cell(t, i) = 4 * ((e + p) % MAX_SPRS) + i
    BY <1>1, <1>7, <2>5 DEF J!Cell
  <2>7. PlaceOf(b, p * b.size + i) \in Room("CPU0")
    BY <2>3, <2>4 DEF Room
  <2> QED BY <1>5, <2>4, <2>6, <2>7
<1> QED BY <1>1, <1>6, <1>7 DEF Kinds

(* The bytes that are both sent and expected.                              *)
LEMMA MovedBytes ==
  ASSUME BlockSizes, NEW b, NEW p, NEW t, Aimed(b, p, t), NEW n \in Nat
  PROVE  J!Moved(t, n) = {i \in 0 .. b.size - 1 : i < n}
<1>1. /\ b.size \in Nat /\ t.mod_id = b.mod /\ b.mod \in Kinds /\ (b.mod = "CPU0" => b.size = 4)
      /\ t.cmd.size = b.size
  BY AimedFacts
<1>2. PICK z \in Nat : z = b.size
  BY <1>1
<1>3. J!Moved(t, n) = 0 .. J!Min({n, z}) - 1
  BY <1>1, <1>2 DEF J!Moved, Kinds
<1>4. J!Min({n, z}) = IF n < z THEN n ELSE z
  BY SmallerOf
<1>5. 0 .. (IF n < z THEN n ELSE z) - 1 = {i \in 0 .. z - 1 : i < n}
  OBVIOUS
<1> QED BY <1>2, <1>3, <1>4, <1>5

(* Cells before and after a write of n bytes for chunk p.                  *)
Wrote(b, p, n, cs, cs2) ==
  /\ cs2 \in Contents
  /\ \A m \in Kinds : \A c \in Room(m) :
       \/ /\ cs2[m][c] = cs[m][c]
          /\ m = b.mod /\ n >= b.size => \A i \in 0 .. b.size - 1 : c # PlaceOf(b, p * b.size + i)
       \/ /\ m = b.mod
          /\ \E i \in 0 .. b.size - 1 : /\ c = PlaceOf(b, p * b.size + i)
                                        /\ \/ cs2[m][c] = p * b.size + i + 1
                                           \/ i >= n /\ cs2[m][c] = J!Zero

(* Such a write leaves the chunks before, adds only bytes of its chunk,    *)
(* and if it has enough bytes puts the whole chunk in place.               *)
LEMMA WroteKeeps ==
  ASSUME BlockSizes, NEW b, NEW p, NEW t, Aimed(b, p, t), b.write, NEW n \in Nat, NEW cs, NEW cs2,
         Wrote(b, p, n, cs, cs2), Held(b, p, cs), Only(b, p, cs)
  PROVE  /\ Held(b, p, cs2) /\ Only(b, p, cs2)
         /\ n >= b.size => Held(b, p + 1, cs2)
<1>1. /\ b \in Blocks /\ p \in Nat /\ b.size \in Nat /\ b.mod \in Kinds /\ p * b.size \in Nat /\ Fits(b)
      /\ p < b.chunks
  BY AimedFacts DEF Aimed
<1>2. /\ (p + 1) * b.size = p * b.size + b.size /\ (p + 1) * b.size <= b.chunks * b.size
      /\ b.chunks * b.size \in Nat
  BY <1>1, BlockFacts, ChunkFacts
<1>3. PICK z \in Nat, y \in Nat, u \in Nat :
        /\ z = b.size /\ y = p * b.size /\ u = b.chunks * b.size /\ y + z = (p + 1) * b.size /\ y + z <= u
  BY <1>1, <1>2
<1>4. /\ Chunks(b, p) = 0 .. y - 1 /\ Chunks(b, p + 1) = 0 .. (y + z) - 1 /\ Chunks(b, b.chunks) = 0 .. u - 1
  BY <1>3 DEF Chunks
<1>5. \A m \in Kinds : \A c \in Room(m) :
       \/ /\ cs2[m][c] = cs[m][c]
          /\ m = b.mod /\ n >= z => \A i \in 0 .. z - 1 : c # PlaceOf(b, y + i)
       \/ /\ m = b.mod
          /\ \E i \in 0 .. z - 1 : /\ c = PlaceOf(b, y + i)
                                   /\ \/ cs2[m][c] = y + i + 1
                                      \/ i >= n /\ cs2[m][c] = J!Zero
  BY <1>3 DEF Wrote
<1>6. \A k \in 0 .. u - 1 : \A j \in 0 .. u - 1 : PlaceOf(b, k) = PlaceOf(b, j) => k = j
  BY <1>1, <1>4, PlaceInjective
<1>7. ASSUME NEW k \in 0 .. y - 1, PlaceOf(b, k) \in Room(b.mod)
      PROVE  cs2[b.mod][PlaceOf(b, k)] = k + 1
  <2>1. cs[b.mod][PlaceOf(b, k)] = k + 1
    BY <1>1, <1>4, <1>7 DEF Held
  <2>2. \A i \in 0 .. z - 1 : PlaceOf(b, k) # PlaceOf(b, y + i)
    <3> SUFFICES ASSUME NEW i \in 0 .. z - 1, PlaceOf(b, k) = PlaceOf(b, y + i) PROVE FALSE
      OBVIOUS
    <3>1. k \in 0 .. u - 1 /\ y + i \in 0 .. u - 1 /\ k # y + i
      BY <1>3
    <3> QED BY <1>6, <3>1
  <2> QED BY <1>1, <1>5, <1>7, <2>1, <2>2
<1>8. Held(b, p, cs2)
  BY <1>4, <1>7 DEF Held
<1>9. Only(b, p, cs2)
  <2> SUFFICES ASSUME NEW m \in Kinds, NEW c \in Room(m), cs2[m][c] # 0 PROVE Own(b, p, m, c, cs2[m][c])
    BY DEF Only
  <2>1. CASE cs2[m][c] = cs[m][c]
    BY <2>1 DEF Only
  <2>2. ASSUME m = b.mod, NEW i \in 0 .. z - 1, c = PlaceOf(b, y + i), cs2[m][c] \in {y + i + 1, J!Zero}
        PROVE  Own(b, p, m, c, cs2[m][c])
    <3>1. PICK k \in 0 .. u - 1 : k = y + i /\ k < y + z
      BY <1>3
    <3> QED BY <1>1, <1>3, <1>4, <2>2, <3>1 DEF Own
  <2> QED BY <1>5, <2>1, <2>2
<1>10. ASSUME n >= b.size, NEW k \in 0 .. (y + z) - 1, PlaceOf(b, k) \in Room(b.mod)
       PROVE  cs2[b.mod][PlaceOf(b, k)] = k + 1
  <2>1. CASE k < y
    <3>1. k \in 0 .. y - 1
      BY <2>1, <1>3
    <3> QED BY <1>7, <1>10, <3>1
  <2>2. CASE ~ (k < y)
    <3>1. PICK i \in 0 .. z - 1 : k = y + i
      <4>1. k - y \in 0 .. z - 1 /\ k = y + (k - y)
        BY <2>2, <1>3
      <4> QED BY <4>1
    <3>2. PICK j \in 0 .. z - 1 : /\ PlaceOf(b, k) = PlaceOf(b, y + j)
                                  /\ \/ cs2[b.mod][PlaceOf(b, k)] = y + j + 1
                                     \/ j >= n /\ cs2[b.mod][PlaceOf(b, k)] = J!Zero
      BY <1>1, <1>3, <1>5, <1>10, <3>1
    <3>3. y + j \in 0 .. u - 1 /\ k \in 0 .. u - 1 /\ ~ (j >= n)
      BY <1>3, <1>10
    <3>4. k = y + j
      BY <1>6, <3>2, <3>3
    <3> QED BY <3>2, <3>3, <3>4
  <2> QED BY <2>1, <2>2
<1>11. n >= b.size => Held(b, p + 1, cs2)
  BY <1>4, <1>10 DEF Held
<1> QED BY <1>8, <1>9, <1>11

(* The target with the cells of one kind replaced.                         *)
Put(t, m, g) == [t EXCEPT !.cells = [t.cells EXCEPT ![m] = g]]
SameButCells(t, t2) == t2.instr = t.instr /\ t2.mod_id = t.mod_id /\ t2.cmd = t.cmd /\ t2.stalled = t.stalled

(* It is a target, and only those cells are new.                           *)
LEMMA PutFacts ==
  ASSUME NEW t \in Targets, NEW m \in Kinds, NEW g \in [Room(m) -> Int]
  PROVE  /\ Put(t, m, g) \in Targets /\ SameButCells(t, Put(t, m, g))
         /\ Put(t, m, g).cells \in Contents
         /\ Put(t, m, g).cells[m] = g
         /\ \A k \in Kinds : k # m => Put(t, m, g).cells[k] = t.cells[k]
<1>1. t.cells \in Contents
  BY DEF Targets
<1>2. PICK cs : cs = [t.cells EXCEPT ![m] = g]
  OBVIOUS
<1>3. /\ t.cells \in [Kinds -> UNION {[Room(k) -> Int] : k \in Kinds}]
      /\ \A k \in Kinds : t.cells[k] \in [Room(k) -> Int]
  BY <1>1 DEF Contents
<1>4. g \in UNION {[Room(k) -> Int] : k \in Kinds}
  OBVIOUS
<1>5. cs \in [Kinds -> UNION {[Room(k) -> Int] : k \in Kinds}]
  BY <1>2, <1>3, <1>4
<1>6. cs[m] = g /\ \A k \in Kinds : k # m => cs[k] = t.cells[k]
  BY <1>2, <1>3
<1>7. cs \in Contents
  BY <1>3, <1>5, <1>6 DEF Contents
<1>8. Put(t, m, g) = [t EXCEPT !.cells = cs]
  BY <1>2 DEF Put
<1>9. PICK t2 : t2 = [t EXCEPT !.cells = cs]
  OBVIOUS
<1>10. t2 \in Targets /\ t2.cells = cs /\ SameButCells(t, t2)
  BY <1>7, <1>9 DEF Targets, SameButCells
<1> QED BY <1>6, <1>7, <1>8, <1>9, <1>10

(* The cells of one kind are a function of their addresses.                *)
LEMMA CellsOf ==
  ASSUME NEW t \in Targets, NEW m \in Kinds
  PROVE  t.cells[m] \in [Room(m) -> Int] /\ DOMAIN t.cells[m] = Room(m)
<1>1. t.cells \in Contents
  BY DEF Targets
<1> QED BY <1>1 DEF Contents

(* Addresses are numbers.                                                  *)
LEMMA RoomInt == \A m : Room(m) \subseteq Int
BY DEF Room

(* wishbone_write writes the bytes of its chunk.                           *)
LEMMA WishboneWrote ==
  ASSUME BlockSizes, NEW b, NEW p, NEW t, Aimed(b, p, t), b.mod = "WISHBONE", NEW n \in Nat, NEW t2,
         t2 = J!wishbone_write(t, n, p * b.size + 1)
  PROVE  t2 \in Targets /\ SameButCells(t, t2) /\ Wrote(b, p, n, t.cells, t2.cells)
<1>1. /\ b \in Blocks /\ t.mod_id = b.mod /\ p \in Nat /\ b.size \in Nat /\ t \in Targets
      /\ p * b.size \in Nat /\ t.cmd.addr \in Nat
  BY AimedFacts DEF Aimed
<1>2. PICK z \in Nat, y \in Nat, a \in Nat : z = b.size /\ y = p * b.size /\ a = t.cmd.addr
  BY <1>1
<1>3. PICK mv : mv = J!Moved(t, n)
  OBVIOUS
<1>4. mv = {i \in 0 .. z - 1 : i < n}
  BY <1>2, <1>3, MovedBytes
<1>5. \A i \in 0 .. z - 1 : PlaceOf(b, y + i) = a + i
  <2> SUFFICES ASSUME NEW i \in 0 .. z - 1 PROVE PlaceOf(b, y + i) = a + i
    OBVIOUS
  <2>1. J!Cell(t, i) = PlaceOf(b, y + i)
    BY <1>2, CellPlace
  <2>2. J!Cell(t, i) = a + i
    BY <1>1, <1>2 DEF J!Cell
  <2> QED BY <2>1, <2>2
<1>6. PICK f : f = t.cells["WISHBONE"]
  OBVIOUS
<1>7. f \in [Room("WISHBONE") -> Int] /\ DOMAIN f = Room("WISHBONE") /\ Room("WISHBONE") \subseteq Int
  BY <1>1, <1>6, CellsOf, RoomInt DEF Kinds
<1>8. PICK g : g = [c \in Room("WISHBONE") |-> IF c - a \in mv THEN (y + 1) + (c - a) ELSE f[c]]
  OBVIOUS
<1>9. g \in [Room("WISHBONE") -> Int]
  BY <1>7, <1>8
<1>10. t2 = Put(t, "WISHBONE", g)
  <2>1. t2 = [t EXCEPT !.cells["WISHBONE"] =
                [c \in DOMAIN t.cells["WISHBONE"] |-> IF c - t.cmd.addr \in J!Moved(t, n)
                   THEN (p * b.size + 1) + (c - t.cmd.addr) ELSE t.cells["WISHBONE"][c]]]
    BY DEF J!wishbone_write
  <2>2. g = [c \in DOMAIN t.cells["WISHBONE"] |-> IF c - t.cmd.addr \in J!Moved(t, n)
                   THEN (p * b.size + 1) + (c - t.cmd.addr) ELSE t.cells["WISHBONE"][c]]
    BY <1>2, <1>3, <1>6, <1>7, <1>8
  <2>3. t2 = [t EXCEPT !.cells["WISHBONE"] = g]
    BY <2>1, <2>2
  <2> QED BY <2>3 DEF Put
<1>11. /\ t2 \in Targets /\ SameButCells(t, t2) /\ t2.cells \in Contents /\ t2.cells["WISHBONE"] = g
       /\ \A k \in Kinds : k # "WISHBONE" => t2.cells[k] = t.cells[k]
  BY <1>1, <1>9, <1>10, PutFacts DEF Kinds
<1>12. ASSUME NEW c \in Room("WISHBONE")
       PROVE  \/ /\ g[c] = f[c]
                 /\ n >= z => \A i \in 0 .. z - 1 : c # PlaceOf(b, y + i)
              \/ \E i \in 0 .. z - 1 : c = PlaceOf(b, y + i) /\ g[c] = y + i + 1
  <2>1. c \in Int
    BY <1>7
  <2>2. CASE c - a \in mv
    <3>1. PICK i \in 0 .. z - 1 : c = a + i /\ c - a = i
      BY <1>4, <2>1, <2>2
    <3>2. g[c] = (y + 1) + i
      BY <1>8, <2>2, <3>1
    <3>3. g[c] = y + i + 1 /\ c = PlaceOf(b, y + i)
      BY <1>5, <3>1, <3>2
    <3> QED BY <3>3
  <2>3. CASE c - a \notin mv
    <3>1. g[c] = f[c]
      BY <1>8, <2>3
    <3>2. ASSUME n >= z, NEW i \in 0 .. z - 1 PROVE c # PlaceOf(b, y + i)
      <4> SUFFICES ASSUME c = PlaceOf(b, y + i) PROVE FALSE
        OBVIOUS
      <4>1. c = a + i
        BY <1>5
      <4>2. c - a = i
        BY <2>1, <4>1
      <4>3. i < n
        BY <3>2
      <4> QED BY <1>4, <2>3, <4>2, <4>3
    <3> QED BY <3>1, <3>2
  <2> QED BY <2>2, <2>3
<1>13. Wrote(b, p, n, t.cells, t2.cells)
  <2> SUFFICES ASSUME NEW m \in Kinds, NEW c \in Room(m)
               PROVE  \/ /\ t2.cells[m][c] = t.cells[m][c]
                         /\ m = b.mod /\ n >= z => \A i \in 0 .. z - 1 : c # PlaceOf(b, y + i)
                      \/ /\ m = b.mod
                         /\ \E i \in 0 .. z - 1 : /\ c = PlaceOf(b, y + i)
                                                  /\ \/ t2.cells[m][c] = y + i + 1
                                                     \/ i >= n /\ t2.cells[m][c] = J!Zero
    BY <1>2, <1>11 DEF Wrote
  <2>1. CASE m = "WISHBONE"
    BY <1>6, <1>11, <1>12, <2>1
  <2>2. CASE m # "WISHBONE"
    BY <1>11, <2>2
  <2> QED BY <2>1, <2>2
<1> QED BY <1>11, <1>13

(* spr_write writes the bytes of its chunk, and zeros for what was not sent. *)
LEMMA RegisterWrote ==
  ASSUME BlockSizes, NEW b, NEW p, NEW t, Aimed(b, p, t), b.mod = "CPU0", NEW n \in Nat, NEW t2,
         t2 = J!spr_write(t, n, p * b.size + 1)
  PROVE  t2 \in Targets /\ SameButCells(t, t2) /\ Wrote(b, p, n, t.cells, t2.cells)
<1>1. /\ b \in Blocks /\ t.mod_id = b.mod /\ p \in Nat /\ b.size = 4 /\ t \in Targets
      /\ p * b.size \in Nat /\ t.cmd.addr \in Nat /\ MAX_SPRS \in Nat /\ MAX_SPRS > 0
  BY AimedFacts, BlockFacts DEF Aimed
<1>2. PICK y \in Nat, a \in Int : y = p * b.size /\ a = J!Cell(t, 0)
  <2>1. J!Cell(t, 0) = 4 * (t.cmd.addr % MAX_SPRS) + 0
    BY <1>1 DEF J!Cell
  <2>2. 4 * (t.cmd.addr % MAX_SPRS) + 0 \in Int
    BY <1>1
  <2> QED BY <1>1, <2>1, <2>2
<1>3. PICK mv : mv = J!Moved(t, n)
  OBVIOUS
<1>4. mv = {i \in 0 .. 3 : i < n}
  BY <1>1, <1>3, MovedBytes
<1>5. \A i \in 0 .. 3 : PlaceOf(b, y + i) = a + i
  <2> SUFFICES ASSUME NEW i \in 0 .. 3 PROVE PlaceOf(b, y + i) = a + i
    OBVIOUS
  <2>0. i \in 0 .. b.size - 1
    BY <1>1
  <2>1. J!Cell(t, i) = PlaceOf(b, y + i)
    BY <2>0, <1>2, CellPlace
  <2>2. PICK e \in Int : e = 4 * (t.cmd.addr % MAX_SPRS)
    BY <1>1
  <2>3. J!Cell(t, i) = e + i /\ a = e + 0
    BY <1>1, <1>2, <2>2 DEF J!Cell
  <2> QED BY <2>1, <2>3
<1>6. PICK f : f = t.cells["CPU0"]
  OBVIOUS
<1>7. f \in [Room("CPU0") -> Int] /\ DOMAIN f = Room("CPU0") /\ Room("CPU0") \subseteq Int
  BY <1>1, <1>6, CellsOf, RoomInt DEF Kinds
<1>8. PICK g : g = [c \in Room("CPU0") |-> CASE c - a \in mv -> (y + 1) + (c - a)
                                             [] c - a \in (0 .. 3) \ mv -> J!Zero
                                             [] OTHER -> f[c]]
  OBVIOUS
<1>9. \A c \in Room("CPU0") : g[c] = IF c - a \in mv THEN (y + 1) + (c - a)
                                     ELSE IF c - a \in (0 .. 3) \ mv THEN J!Zero ELSE f[c]
  BY <1>8
<1>a. g \in [Room("CPU0") -> Int]
  <2>1. \A c \in Room("CPU0") : g[c] \in Int
    BY <1>7, <1>9 DEF J!Zero
  <2> QED BY <1>8, <2>1
<1>10. t2 = Put(t, "CPU0", g)
  <2>1. t2 = [t EXCEPT !.cells["CPU0"] =
                [c \in DOMAIN t.cells["CPU0"] |->
                   CASE c - J!Cell(t, 0) \in J!Moved(t, n) -> (p * b.size + 1) + (c - J!Cell(t, 0))
                     [] c - J!Cell(t, 0) \in (0 .. 3) \ J!Moved(t, n) -> J!Zero
                     [] OTHER -> t.cells["CPU0"][c]]]
    BY DEF J!spr_write
  <2>2. g = [c \in DOMAIN t.cells["CPU0"] |->
                   CASE c - J!Cell(t, 0) \in J!Moved(t, n) -> (p * b.size + 1) + (c - J!Cell(t, 0))
                     [] c - J!Cell(t, 0) \in (0 .. 3) \ J!Moved(t, n) -> J!Zero
                     [] OTHER -> t.cells["CPU0"][c]]
    BY <1>2, <1>3, <1>6, <1>7, <1>8
  <2>3. t2 = [t EXCEPT !.cells["CPU0"] = g]
    BY <2>1, <2>2
  <2> QED BY <2>3 DEF Put
<1>11. /\ t2 \in Targets /\ SameButCells(t, t2) /\ t2.cells \in Contents /\ t2.cells["CPU0"] = g
       /\ \A k \in Kinds : k # "CPU0" => t2.cells[k] = t.cells[k]
  BY <1>1, <1>a, <1>10, PutFacts DEF Kinds
<1>12. ASSUME NEW c \in Room("CPU0")
       PROVE  \/ /\ g[c] = f[c]
                 /\ \A i \in 0 .. 3 : c # PlaceOf(b, y + i)
              \/ \E i \in 0 .. 3 : /\ c = PlaceOf(b, y + i)
                                   /\ g[c] = y + i + 1 \/ (i >= n /\ g[c] = J!Zero)
  <2>1. c \in Int
    BY <1>7
  <2>2. CASE c - a \in 0 .. 3
    <3>1. PICK i \in 0 .. 3 : c = a + i /\ c - a = i
      BY <2>1, <2>2
    <3>2. g[c] = IF i \in mv THEN (y + 1) + i ELSE J!Zero
      BY <1>9, <3>1
    <3>3. g[c] = y + i + 1 \/ (i >= n /\ g[c] = J!Zero)
      <4>1. i \in mv <=> i < n
        BY <1>4
      <4>2. CASE i < n
        <5>1. g[c] = (y + 1) + i
          BY <3>2, <4>1, <4>2
        <5> QED BY <5>1
      <4>3. CASE ~ (i < n)
        <5>1. g[c] = J!Zero
          BY <3>2, <4>1, <4>3
        <5>2. i >= n
          BY <4>3
        <5> QED BY <5>1, <5>2
      <4> QED BY <4>2, <4>3
    <3>4. c = PlaceOf(b, y + i)
      BY <1>5, <3>1
    <3> QED BY <3>3, <3>4
  <2>3. CASE c - a \notin 0 .. 3
    <3>1. g[c] = f[c]
      BY <1>4, <1>9, <2>3
    <3>2. ASSUME NEW i \in 0 .. 3 PROVE c # PlaceOf(b, y + i)
      BY <1>5, <2>1, <2>3
    <3> QED BY <3>1, <3>2
  <2> QED BY <2>2, <2>3
<1>13. Wrote(b, p, n, t.cells, t2.cells)
  <2>0. 0 .. b.size - 1 = 0 .. 3
    BY <1>1
  <2> SUFFICES ASSUME NEW m \in Kinds, NEW c \in Room(m)
               PROVE  \/ /\ t2.cells[m][c] = t.cells[m][c]
                         /\ m = b.mod => \A i \in 0 .. 3 : c # PlaceOf(b, y + i)
                      \/ /\ m = b.mod
                         /\ \E i \in 0 .. 3 : /\ c = PlaceOf(b, y + i)
                                              /\ \/ t2.cells[m][c] = y + i + 1
                                                 \/ i >= n /\ t2.cells[m][c] = J!Zero
    BY <1>2, <1>11, <2>0 DEF Wrote
  <2>1. CASE m = "CPU0"
    BY <1>6, <1>11, <1>12, <2>1
  <2>2. CASE m # "CPU0"
    BY <1>11, <2>2
  <2> QED BY <2>1, <2>2
<1> QED BY <1>11, <1>13

-----------------------------------------------------------------------------
(* JTAG: what GO_COMMAND answers.                                          *)

(* Numbers with the same rest have successors with the same rest.          *)
LEMMA NextRest ==
  ASSUME NEW m \in Nat, m > 0, NEW x \in Int, NEW y \in Int, x % m = y % m
  PROVE  (x + 1) % m = (y + 1) % m
<1>1. PICK q \in Int : x = m * q + (x % m) /\ x % m \in 0 .. m - 1
  BY BlockOf
<1>2. PICK u \in Int : y = m * u + (y % m) /\ y % m \in 0 .. m - 1
  BY BlockOf
<1>3. PICK r \in 0 .. m - 1 : r = x % m
  BY <1>1
<1>4. x = m * q + r /\ y = m * u + r
  BY <1>1, <1>2, <1>3
<1>5. PICK x1 \in Int, y1 \in Int : x1 = x + 1 /\ y1 = y + 1
  OBVIOUS
<1>6. CASE r + 1 < m
  <2>1. PICK s \in 0 .. m - 1 : s = r + 1
    BY <1>6
  <2>2. x1 = m * q + s /\ y1 = m * u + s
    BY <1>4, <1>5, <2>1
  <2>3. x1 % m = s
    BY <2>2, RestOf
  <2>4. y1 % m = s
    BY <2>2, RestOf
  <2> QED BY <1>5, <2>3, <2>4
<1>7. CASE ~ (r + 1 < m)
  <2>1. r + 1 = m
    BY <1>7
  <2>2. PICK q1 \in Int, u1 \in Int : q1 = q + 1 /\ u1 = u + 1
    OBVIOUS
  <2>3. m * q1 = m * q + m /\ m * u1 = m * u + m
    BY <2>2
  <2>4. x1 = m * q1 + 0 /\ y1 = m * u1 + 0 /\ 0 \in 0 .. m - 1
    BY <1>4, <1>5, <2>1, <2>3
  <2>5. x1 % m = 0
    BY <2>4, RestOf
  <2>6. y1 % m = 0
    BY <2>4, RestOf
  <2> QED BY <1>5, <2>5, <2>6
<1> QED BY <1>6, <1>7

(* The address is advanced to the next chunk, or not at all.               *)
SameButCmd(t, t2) == t2.instr = t.instr /\ t2.mod_id = t.mod_id /\ t2.cells = t.cells /\ t2.stalled = t.stalled

(* Advance moves the command to the next chunk if there was no error.      *)
LEMMA AdvanceFacts ==
  ASSUME BlockSizes, NEW b, NEW p, NEW t, Aimed(b, p, t), NEW status, NEW t2, t2 = J!Advance(t, status)
  PROVE  /\ t2 \in Targets /\ SameButCmd(t, t2)
         /\ status # {} => t2 = t
         /\ status = {} => IsFor(b, t2.cmd, p + 1)
<1>1. /\ t \in Targets /\ t.cmd \in Commands /\ t.mod_id = b.mod /\ b.mod \in Kinds /\ b \in Blocks /\ p \in Nat
      /\ IsFor(b, t.cmd, p) /\ b.size \in Nat /\ t.cmd.addr \in Nat /\ t.cmd.size = b.size
  BY AimedFacts DEF Aimed
<1>2. CASE status # {}
  BY <1>1, <1>2 DEF J!Advance, SameButCmd
<1>3. CASE status = {}
  <2>1. PICK s \in Nat : s = J!Step(t)
    BY <1>1 DEF J!Step
  <2>2. PICK a \in Nat : a = t.cmd.addr + s
    BY <1>1
  <2>3. PICK c : c = [t.cmd EXCEPT !.addr = a]
    OBVIOUS
  <2>4. /\ c \in Commands /\ c.write_defined_p = t.cmd.write_defined_p /\ c.write = t.cmd.write
        /\ c.width = t.cmd.width /\ c.size = t.cmd.size /\ c.addr = a
    BY <1>1, <2>3 DEF Commands
  <2>5. t2 = [t EXCEPT !.cmd = c]
    <3>1. t2 = [t EXCEPT !.cmd.addr = t.cmd.addr + J!Step(t)]
      BY <1>3 DEF J!Advance
    <3> QED BY <2>1, <2>2, <2>3, <3>1
  <2>6. t2 \in Targets /\ SameButCmd(t, t2) /\ t2.cmd = c
    BY <1>1, <2>4, <2>5 DEF Targets, SameButCmd
  <2>7. CASE b.mod = "WISHBONE"
    <3>1. a = AddrOf(b, p + 1)
      BY <1>1, <2>1, <2>2, <2>7, AddrFacts DEF IsFor, J!Step
    <3> QED BY <1>1, <1>3, <2>4, <2>6, <2>7, <3>1 DEF IsFor
  <2>8. CASE b.mod = "CPU0"
    <3>1. a = t.cmd.addr + 1
      BY <1>1, <2>1, <2>2, <2>8 DEF J!Step
    <3>2. t.cmd.addr % MAX_SPRS = AddrOf(b, p) % MAX_SPRS
      BY <1>1, <2>8 DEF IsFor
    <3>3. AddrOf(b, p) \in Nat /\ AddrOf(b, p + 1) = AddrOf(b, p) + 1 /\ MAX_SPRS \in Nat /\ MAX_SPRS > 0
      BY <1>1, <2>8, AddrFacts, BlockFacts
    <3>4. PICK x \in Nat, y \in Nat : x = t.cmd.addr /\ y = AddrOf(b, p)
      BY <1>1, <3>3
    <3>5. (x + 1) % MAX_SPRS = (y + 1) % MAX_SPRS
      <4>1. x % MAX_SPRS = y % MAX_SPRS
        BY <3>2, <3>4
      <4>2. PICK m \in Nat : m = MAX_SPRS /\ m > 0
        BY <3>3
      <4>3. x \in Int /\ y \in Int /\ x % m = y % m
        BY <4>1, <4>2
      <4>4. (x + 1) % m = (y + 1) % m
        BY <4>2, <4>3, NextRest
      <4> QED BY <4>2, <4>4
    <3>6. c.addr % MAX_SPRS = AddrOf(b, p + 1) % MAX_SPRS
      BY <2>4, <3>1, <3>3, <3>4, <3>5
    <3> QED BY <1>1, <1>3, <2>4, <2>6, <2>8, <3>6 DEF IsFor
  <2> QED BY <1>1, <2>7, <2>8 DEF Kinds
<1> QED BY <1>2, <1>3

(* A write leaves it as it was: the command is still for chunk p.          *)
LEMMA AimedAfter ==
  ASSUME NEW b, NEW p, NEW t, Aimed(b, p, t), NEW t2 \in Targets, SameButCells(t, t2)
  PROVE  Aimed(b, p, t2)
BY DEF Aimed, SameButCells

(* The status tells the length and what is not in memory.                  *)
LEMMA StatusFacts ==
  ASSUME BlockSizes, NEW b, NEW p, NEW t, Aimed(b, p, t), NEW n \in Nat
  PROVE  /\ J!Status(t, n) = {} =>
              n = b.size /\ \A i \in 0 .. b.size - 1 : PlaceOf(b, p * b.size + i) \in Room(b.mod)
         /\ "WISHBONE_ERROR" \in J!Status(t, n) => Outside(b)
<1>1. /\ t.mod_id = b.mod /\ b.mod \in Kinds /\ t.cmd.size = b.size /\ b.size \in Nat
  BY AimedFacts
<1>2. \A i \in 0 .. b.size - 1 : /\ J!Cell(t, i) = PlaceOf(b, p * b.size + i)
                                 /\ p * b.size + i \in Chunks(b, b.chunks)
                                 /\ b.mod = "CPU0" => PlaceOf(b, p * b.size + i) \in Room("CPU0")
  BY CellPlace
<1>3. J!Moved(t, n) = {i \in 0 .. b.size - 1 : i < n}
  BY MovedBytes
<1>4. J!Status(t, n) = J!Length(t, n) \cup J!Access(t, n)
  BY DEF J!Status
<1>5. ASSUME J!Status(t, n) = {}
      PROVE  n = b.size /\ \A i \in 0 .. b.size - 1 : PlaceOf(b, p * b.size + i) \in Room(b.mod)
  <2>1. J!Length(t, n) = {} /\ J!Access(t, n) = {}
    BY <1>4, <1>5
  <2>2. n = b.size
    BY <1>1, <2>1 DEF J!Length
  <2>3. J!Moved(t, n) = 0 .. b.size - 1
    BY <1>1, <1>3, <2>2
  <2>4. CASE b.mod = "WISHBONE"
    <3>1. \A i \in J!Moved(t, n) : J!Cell(t, i) \in J!Cells["WISHBONE"]
      BY <1>1, <2>1, <2>4 DEF J!Access
    <3> QED BY <1>2, <2>2, <2>3, <2>4, <3>1, CellsAre
  <2>5. CASE b.mod = "CPU0"
    BY <1>2, <2>2, <2>5
  <2> QED BY <1>1, <2>4, <2>5 DEF Kinds
<1>6. ASSUME "WISHBONE_ERROR" \in J!Status(t, n) PROVE Outside(b)
  <2>1. "WISHBONE_ERROR" \in J!Access(t, n)
    BY <1>4, <1>6 DEF J!Length
  <2>2. b.mod = "WISHBONE" /\ \E i \in J!Moved(t, n) : J!Cell(t, i) \notin J!Cells["WISHBONE"]
    BY <1>1, <2>1 DEF J!Access
  <2>3. PICK i \in 0 .. b.size - 1 : J!Cell(t, i) \notin Room("WISHBONE")
    BY <1>3, <2>2, CellsAre
  <2> QED BY <1>2, <2>2, <2>3 DEF Outside
<1> QED BY <1>5, <1>6

(* What GO_COMMAND does for chunk p: the command stays where it is, or it  *)
(* is advanced and the chunk is written or answered.                       *)
Went(b, p, t, x) ==
  /\ x.t \in Targets /\ x.t.instr = t.instr /\ x.t.mod_id = t.mod_id /\ x.t.stalled = t.stalled
  /\ Held(b, p, x.t.cells) /\ Only(b, p, x.t.cells)
  /\ \/ IsFor(b, x.t.cmd, p) /\ (x.ok => x.status # {})
     \/ /\ x.ok /\ x.status = {} /\ IsFor(b, x.t.cmd, p + 1) /\ Held(b, p + 1, x.t.cells)
        /\ ~ b.write => x.val = [i \in 1 .. b.size |-> PlaceOf(b, p * b.size + (i - 1))]
  /\ x.ok /\ "WISHBONE_ERROR" \in x.status => Outside(b)

(* GO_COMMAND that writes.                                                 *)
LEMMA GoWriteFacts ==
  ASSUME BlockSizes, NEW b, NEW p, NEW t, Aimed(b, p, t), b.write, NEW n \in Nat, NEW wire,
         Held(b, p, t.cells), Only(b, p, t.cells), NEW x,
         x = J!go_command_write(t, n, p * b.size + 1, wire)
  PROVE  Went(b, p, t, x)
<1>1. t \in Targets /\ t.mod_id = b.mod /\ b.mod \in Kinds /\ IsFor(b, t.cmd, p) /\ b.write
  BY AimedFacts DEF Aimed
<1>2. CASE wire = "spoilt"
  <2>1. x = J!Response(t, J!Length(t, n) \cup {"CRC_IN_ERROR"}, J!NoCommand)
    BY <1>2 DEF J!go_command_write
  <2>2. x.t = t /\ x.ok = TRUE /\ x.status = J!Length(t, n) \cup {"CRC_IN_ERROR"}
    BY <2>1 DEF J!Response
  <2>3. x.status # {} /\ "WISHBONE_ERROR" \notin x.status
    BY <2>2 DEF J!Length
  <2> QED BY <1>1, <2>2, <2>3 DEF Went
<1>3. CASE wire # "spoilt"
  <2>1. PICK w : /\ x = J!Response(J!Advance(w, J!Status(t, n)), J!Status(t, n), J!NoCommand)
                 /\ w \in Targets /\ SameButCells(t, w) /\ Wrote(b, p, n, t.cells, w.cells)
    <3>1. CASE b.mod = "WISHBONE"
      <4>1. PICK w : w = J!wishbone_write(t, n, p * b.size + 1)
        OBVIOUS
      <4>2. x = J!Response(J!Advance(w, J!Status(t, n)), J!Status(t, n), J!NoCommand)
        BY <1>1, <1>3, <3>1, <4>1 DEF J!go_command_write
      <4>3. w \in Targets /\ SameButCells(t, w) /\ Wrote(b, p, n, t.cells, w.cells)
        BY <3>1, <4>1, WishboneWrote
      <4> QED BY <4>2, <4>3
    <3>2. CASE b.mod = "CPU0"
      <4>1. PICK w : w = J!spr_write(t, n, p * b.size + 1)
        OBVIOUS
      <4>2. x = J!Response(J!Advance(w, J!Status(t, n)), J!Status(t, n), J!NoCommand)
        BY <1>1, <1>3, <3>2, <4>1 DEF J!go_command_write
      <4>3. w \in Targets /\ SameButCells(t, w) /\ Wrote(b, p, n, t.cells, w.cells)
        BY <3>2, <4>1, RegisterWrote
      <4> QED BY <4>2, <4>3
    <3> QED BY <1>1, <3>1, <3>2 DEF Kinds
  <2>2. Held(b, p, w.cells) /\ Only(b, p, w.cells) /\ (n >= b.size => Held(b, p + 1, w.cells))
    BY <2>1, WroteKeeps
  <2>3. Aimed(b, p, w)
    BY <2>1, AimedAfter
  <2>4. PICK s : s = J!Status(t, n)
    OBVIOUS
  <2>5. PICK v : v = J!Advance(w, s)
    OBVIOUS
  <2>6. /\ v \in Targets /\ SameButCmd(w, v) /\ (s # {} => v = w)
        /\ s = {} => IsFor(b, v.cmd, p + 1)
    BY <2>3, <2>5, AdvanceFacts
  <2>7. x.t = v /\ x.ok = TRUE /\ x.status = s
    BY <2>1, <2>4, <2>5 DEF J!Response
  <2>8. (s = {} => n = b.size) /\ ("WISHBONE_ERROR" \in s => Outside(b))
    BY <2>4, StatusFacts
  <2>9. n = b.size => n >= b.size
    BY AimedFacts
  <2>10. v.cells = w.cells /\ v.instr = t.instr /\ v.mod_id = t.mod_id /\ v.stalled = t.stalled
    BY <2>1, <2>6 DEF SameButCmd, SameButCells
  <2>11. s # {} => IsFor(b, v.cmd, p)
    BY <2>3, <2>6 DEF Aimed
  <2> QED BY <1>1, <2>2, <2>6, <2>7, <2>8, <2>9, <2>10, <2>11 DEF Went
<1> QED BY <1>2, <1>3

(* GO_COMMAND that reads.                                                  *)
LEMMA GoReadFacts ==
  ASSUME BlockSizes, NEW b, NEW p, NEW t, Aimed(b, p, t), ~ b.write, NEW n \in Nat, NEW wire,
         Held(b, p, t.cells), Only(b, p, t.cells), NEW x, x = J!go_command_read(t, n, wire)
  PROVE  Went(b, p, t, x)
<1>1. t \in Targets /\ t.mod_id = b.mod /\ b.mod \in Kinds /\ IsFor(b, t.cmd, p) /\ b.size \in Nat
  BY AimedFacts DEF Aimed
<1>2. CASE wire = "spoilt"
  <2>1. x = J!Garbled(t)
    BY <1>2 DEF J!go_command_read
  <2>2. x.t = t /\ x.ok = FALSE
    BY <2>1 DEF J!Garbled
  <2> QED BY <1>1, <2>2 DEF Went
<1>3. CASE wire # "spoilt"
  <2>1. PICK s : s = J!Status(t, n)
    OBVIOUS
  <2>2. PICK v : v = J!Advance(t, s)
    OBVIOUS
  <2>3. x = J!Response(v, s, J!Data(t, n))
    BY <1>1, <1>3, <2>1, <2>2, CellsAre DEF J!go_command_read
  <2>4. /\ v \in Targets /\ SameButCmd(t, v) /\ (s # {} => v = t)
        /\ s = {} => IsFor(b, v.cmd, p + 1)
    BY <2>2, AdvanceFacts
  <2>5. x.t = v /\ x.ok = TRUE /\ x.status = s /\ x.val = J!Data(t, n)
    BY <2>3 DEF J!Response
  <2>6. /\ s = {} => n = b.size /\ \A i \in 0 .. b.size - 1 : PlaceOf(b, p * b.size + i) \in Room(b.mod)
        /\ "WISHBONE_ERROR" \in s => Outside(b)
    BY <2>1, StatusFacts
  <2>7. ASSUME s = {}
        PROVE  J!Data(t, n) = [i \in 1 .. b.size |-> PlaceOf(b, p * b.size + (i - 1))]
    <3>1. PICK z \in Nat : z = b.size
      BY <1>1
    <3>2. n = z /\ \A j \in 0 .. z - 1 : PlaceOf(b, p * b.size + j) \in Room(b.mod)
      BY <2>6, <2>7, <3>1
    <3>3. J!Moved(t, n) = 0 .. z - 1
      <4>1. J!Moved(t, n) = {i \in 0 .. z - 1 : i < n}
        BY <3>1, MovedBytes
      <4> QED BY <3>2, <4>1
    <3>4. ASSUME NEW i \in 1 .. z
          PROVE  (IF i - 1 \in J!Moved(t, n) /\ J!Cell(t, i - 1) \in J!Cells[t.mod_id]
                  THEN J!Cell(t, i - 1) ELSE J!Zero) = PlaceOf(b, p * b.size + (i - 1))
      <4>1. PICK j \in 0 .. z - 1 : j = i - 1
        BY <3>4
      <4>2. J!Cell(t, j) = PlaceOf(b, p * b.size + j)
        BY <3>1, CellPlace
      <4>3. J!Cells[t.mod_id] = Room(b.mod)
        BY <1>1, CellsAre
      <4> QED BY <3>2, <3>3, <4>1, <4>2, <4>3
    <3>5. J!Data(t, n) = [i \in 1 .. z |-> IF i - 1 \in J!Moved(t, n) /\ J!Cell(t, i - 1) \in J!Cells[t.mod_id]
                                           THEN J!Cell(t, i - 1) ELSE J!Zero]
      BY <3>2 DEF J!Data
    <3>6. J!Data(t, n) = [i \in 1 .. z |-> PlaceOf(b, p * b.size + (i - 1))]
      BY <3>4, <3>5
    <3> QED BY <3>1, <3>6
  <2>8. v.cells = t.cells /\ v.instr = t.instr /\ v.mod_id = t.mod_id /\ v.stalled = t.stalled
    BY <2>4 DEF SameButCmd
  <2>9. Held(b, p + 1, v.cells)
    BY DEF Held
  <2>10. s # {} => IsFor(b, v.cmd, p)
    BY <1>1, <2>4
  <2>11. CASE s = {}
    BY <1>1, <2>11, <2>4, <2>5, <2>6, <2>7, <2>8, <2>9 DEF Went
  <2>12. CASE s # {}
    BY <1>1, <2>12, <2>4, <2>5, <2>6, <2>8, <2>10 DEF Went
  <2> QED BY <2>11, <2>12
<1> QED BY <1>2, <1>3

-----------------------------------------------------------------------------
(* JTAG: every step keeps the invariant.                                   *)

(* A step that moves no chunk.                                             *)
LEMMA SamePlace ==
  ASSUME NEW t, NEW c, NEW t2 \in Targets, NEW c2 \in Clients, JtagInv(t, c),
         c2.b = c.b, c2.pos = c.pos, c2.got = c.got, c2.at = "moving" => c.at = "moving",
         t2.cells = t.cells, Linked(t2, c2), Concluded(t2, c2),
         Fits(c2.b) /\ c2.cmd /\ t2.cmd # J!NoCommand /\ ~ IsFor(c2.b, t2.cmd, c2.pos) => c.cmd /\ t2.cmd = t.cmd
  PROVE  JtagInv(t2, c2)
<1>1. JtagTyped(t2, c2)
  BY DEF JtagInv, JtagTyped
<1>2. Stored(t2, c2)
  BY DEF JtagInv, Stored
<1>3. Taken(c2)
  BY DEF JtagInv, Taken
<1> QED BY <1>1, <1>2, <1>3 DEF JtagInv

(* A step that changes neither the client nor what it relies on.           *)
LEMMA SameClient ==
  ASSUME NEW t, NEW c, NEW t2 \in Targets, JtagInv(t, c),
         t2.mod_id = t.mod_id, t2.cmd = t.cmd, t2.cells = t.cells, t.stalled => t2.stalled
  PROVE  JtagInv(t2, c)
<1>1. c \in Clients
  BY DEF JtagInv, JtagTyped
<1>2. Linked(t2, c)
  BY DEF JtagInv, Linked
<1>3. Concluded(t2, c)
  BY DEF JtagInv, Concluded
<1>4. Fits(c.b) /\ c.cmd /\ ~ IsFor(c.b, t2.cmd, c.pos) => c.cmd /\ t2.cmd = t.cmd
  OBVIOUS
<1> QED BY <1>1, <1>2, <1>3, <1>4, SamePlace

(* More of the block is its own when it is moved further.                  *)
LEMMA OnlyGrows ==
  ASSUME BlockSizes, NEW b \in Blocks, NEW p \in Nat, NEW cs, Only(b, p, cs)
  PROVE  Only(b, p + 1, cs)
<1> SUFFICES ASSUME NEW m \in Kinds, NEW c \in Room(m), cs[m][c] # 0 PROVE Own(b, p + 1, m, c, cs[m][c])
  BY DEF Only
<1>1. Own(b, p, m, c, cs[m][c])
  BY DEF Only
<1>2. PICK k \in Chunks(b, b.chunks) : /\ PlaceOf(b, k) = c /\ k < (p + 1) * b.size
                                       /\ cs[m][c] \in {k + 1, J!Zero}
  BY <1>1 DEF Own
<1>3. b.size \in Nat /\ p + 1 \in Nat
  BY BlockFacts
<1>4. (p + 1) * b.size \in Nat /\ ((p + 1) + 1) * b.size = (p + 1) * b.size + b.size
  BY <1>3, ChunkFacts
<1>5. PICK x \in Nat, y \in Nat : x = (p + 1) * b.size /\ y = ((p + 1) + 1) * b.size /\ x <= y
  BY <1>3, <1>4
<1>6. k \in Int
  BY DEF Chunks
<1>7. k < ((p + 1) + 1) * b.size
  BY <1>2, <1>5, <1>6
<1> QED BY <1>1, <1>2, <1>7 DEF Own

(* The client goes on to the next chunk.                                   *)
LEMMA NextChunk ==
  ASSUME BlockSizes, NEW t, NEW c, NEW t2 \in Targets, NEW c2 \in Clients, JtagInv(t, c), c.at = "moving",
         Fits(c.b), t2.mod_id = t.mod_id, t2.stalled = t.stalled,
         Held(c.b, c.pos + 1, t2.cells), Only(c.b, c.pos, t2.cells), IsFor(c.b, t2.cmd, c.pos + 1),
         c2.b = c.b, c2.sel = c.sel, c2.cmd = c.cmd, c2.fresh = FALSE, c2.stall = c.stall, c2.pos = c.pos + 1, Taken(c2),
         c2.at = IF c.pos + 1 = c.b.chunks THEN "done" ELSE "moving"
  PROVE  JtagInv(t2, c2)
<1>1. c.b \in Blocks /\ c.pos \in Nat /\ c.pos < c.b.chunks /\ c.b.chunks \in Nat
  <2>1. c \in Clients /\ c.pos < c.b.chunks
    BY DEF JtagInv, JtagTyped
  <2>2. c.b \in Blocks /\ c.pos \in Nat
    BY <2>1 DEF Clients
  <2> QED BY <2>1, <2>2, BlockFacts
<1>2. JtagTyped(t2, c2)
  BY <1>1 DEF JtagTyped
<1>3. Linked(t2, c2)
  BY DEF JtagInv, Linked
<1>4. Stored(t2, c2)
  BY <1>1, OnlyGrows DEF Stored
<1>5. Concluded(t2, c2)
  BY DEF JtagInv, Concluded
<1> QED BY <1>2, <1>3, <1>4, <1>5 DEF JtagInv

(* What the invariant says, for the steps.                                 *)
LEMMA InvParts ==
  ASSUME NEW t, NEW c, JtagInv(t, c)
  PROVE  /\ t \in Targets /\ c \in Clients
         /\ c.b \in Blocks /\ c.pos \in Nat /\ c.sel \in BOOLEAN /\ c.cmd \in BOOLEAN /\ c.doubt \in BOOLEAN
         /\ c.fresh \in BOOLEAN
         /\ c.stall \in {"unknown", "stalled"} /\ c.got \in Seq(Int)
         /\ t.cmd \in Commands /\ t.stalled \in BOOLEAN /\ t.mod_id \in J!Modules \cup {"UNDEFINED"}
         /\ Linked(t, c) /\ Stored(t, c) /\ Taken(c) /\ Concluded(t, c)
         /\ c.pos <= c.b.chunks /\ (c.at = "moving" => c.pos < c.b.chunks)
BY DEF JtagInv, JtagTyped, Targets, Clients

(* A register that does not reach its handler: nothing is known of the     *)
(* answer, or the command was dropped.                                     *)
Missed(x) ==
  \/ x.t = tgt /\ x.ok = FALSE
  \/ x.t = [tgt EXCEPT !.cmd = J!NoCommand] /\ x.ok = TRUE /\ x.status = {"CRC_IN_ERROR"}

(* A register reaches its handler, or is missed.                           *)
LEMMA ShiftFacts ==
  ASSUME NEW y, NEW wire, NEW x, x = J!jtag_shift_dr(y, wire)
  PROVE  (x = y /\ wire # "stray" /\ wire # "lost") \/ Missed(x)
<1>1. CASE J!jtag_shift_dr(y, wire) = J!Garbled(tgt)
  BY <1>1 DEF J!Garbled, Missed
<1>2. CASE J!jtag_shift_dr(y, wire) = J!Response([tgt EXCEPT !.cmd = J!NoCommand], {"CRC_IN_ERROR"}, J!NoCommand)
  BY <1>2 DEF J!Response, Missed
<1> QED BY <1>1, <1>2 DEF J!jtag_shift_dr

(* The target after it.                                                    *)
LEMMA MissedFacts ==
  ASSUME tgt \in Targets, NEW x, Missed(x), NEW t2, t2 = x.t
  PROVE  /\ t2 \in Targets /\ t2.mod_id = tgt.mod_id /\ t2.cells = tgt.cells /\ t2.stalled = tgt.stalled
         /\ t2.cmd = tgt.cmd \/ t2.cmd = J!NoCommand
<1>1. PICK n \in Commands : n = J!NoCommand
  BY NoCommandFacts
<1>2. t2 = tgt \/ t2 = [tgt EXCEPT !.cmd = n]
  BY <1>1 DEF Missed
<1> QED BY <1>1, <1>2 DEF Targets

(* A client that has moved nothing, when the command may have been dropped. *)
LEMMA DroppedKeeps ==
  ASSUME NEW t2 \in Targets, NEW c2 \in Clients, JtagInv(tgt, client),
         t2.mod_id = tgt.mod_id, t2.cells = tgt.cells, t2.stalled = tgt.stalled,
         t2.cmd = tgt.cmd \/ t2.cmd = J!NoCommand,
         c2.b = client.b, c2.pos = client.pos, c2.got = client.got, c2.at \in {client.at, "over"},
         c2.sel = client.sel, c2.cmd => client.cmd, client.doubt => c2.doubt, c2.fresh = FALSE,
         c2.stall = client.stall \/ c2.stall = "unknown"
  PROVE  JtagInv(t2, c2)
<1>1. Linked(t2, c2)
  BY DEF JtagInv, Linked
<1>2. Concluded(t2, c2)
  BY DEF JtagInv, Concluded
<1> QED BY <1>1, <1>2, SamePlace

(* SELECT_MODULE.                                                          *)
LEMMA SelectStep ==
  ASSUME BlockSizes, JtagInv(tgt, client), NEW wire \in J!Wires, NEW read \in BOOLEAN, J!SelectModule(wire, read)
  PROVE  JtagInv(tgt', client')
<1>1. /\ tgt \in Targets /\ client \in Clients /\ client.b \in Blocks /\ Linked(tgt, client) /\ Concluded(tgt, client)
      /\ tgt.mod_id \in J!Modules \cup {"UNDEFINED"}
  BY InvParts
<1>2. PICK y : y = J!select_module(tgt, client.b.mod, wire)
  OBVIOUS
<1>3. PICK x : x = J!jtag_shift_dr(y, wire)
  OBVIOUS
<1>4. /\ client.at = "moving" /\ tgt' = x.t
      /\ client' = CASE J!Confirmed(x, read) -> [client EXCEPT !.sel = TRUE, !.fresh = FALSE]
                     [] J!Told(x, read, "MODULE_MISSING") -> [client EXCEPT !.at = "refused", !.fresh = FALSE]
                     [] OTHER -> [client EXCEPT !.fresh = FALSE]
  BY <1>2, <1>3 DEF J!SelectModule, J!Blk
<1>5. \/ Missed(x)
      \/ x.t = tgt /\ x.ok = TRUE /\ x.status = {"CRC_IN_ERROR"}
      \/ /\ client.b.mod \in J!Modules /\ x.t = [tgt EXCEPT !.mod_id = client.b.mod] /\ x.ok = TRUE /\ x.status = {}
      \/ /\ client.b.mod \notin J!Modules /\ x.t = [tgt EXCEPT !.mod_id = "UNDEFINED"] /\ x.ok = TRUE
         /\ x.status = {"MODULE_MISSING"}
  <2>2. CASE x = y /\ wire # "stray" /\ wire # "lost"
    BY <1>2, <2>2 DEF J!select_module, J!Garbled, J!Response, J!Done, J!Wires, Missed
  <2> QED BY <1>3, <2>2, ShiftFacts
<1>6. CASE Missed(x) \/ (x.t = tgt /\ x.ok = TRUE /\ x.status = {"CRC_IN_ERROR"})
  <2>1. client' = [client EXCEPT !.fresh = FALSE]
    BY <1>4, <1>6 DEF J!Confirmed, J!Told, Missed
  <2>2. PICK c2, t2 : c2 = client' /\ t2 = x.t
    OBVIOUS
  <2>3. /\ c2 \in Clients /\ c2.b = client.b /\ c2.pos = client.pos /\ c2.got = client.got /\ c2.at = client.at
        /\ c2.cmd = client.cmd /\ c2.doubt = client.doubt /\ c2.stall = client.stall /\ c2.sel = client.sel
        /\ c2.fresh = FALSE
    BY <1>1, <2>1, <2>2 DEF Clients
  <2>4. /\ t2 \in Targets /\ t2.mod_id = tgt.mod_id /\ t2.cells = tgt.cells /\ t2.stalled = tgt.stalled
        /\ t2.cmd = tgt.cmd \/ t2.cmd = J!NoCommand
    BY <1>1, <1>6, <2>2, MissedFacts
  <2>5. JtagInv(t2, c2)
    BY <2>3, <2>4, DroppedKeeps
  <2> QED BY <1>4, <2>2, <2>5
<1>7. CASE client.b.mod \in J!Modules /\ x.t = [tgt EXCEPT !.mod_id = client.b.mod] /\ x.ok = TRUE /\ x.status = {}
  <2>1. PICK c2 : c2 = client'
    OBVIOUS
  <2>2. PICK t2 : t2 = [tgt EXCEPT !.mod_id = client.b.mod]
    OBVIOUS
  <2>3. /\ t2 \in Targets /\ t2.mod_id = client.b.mod /\ t2.cmd = tgt.cmd /\ t2.cells = tgt.cells
        /\ t2.stalled = tgt.stalled
    BY <1>1, <1>7, <2>2 DEF Targets
  <2>4. c2 = [client EXCEPT !.sel = TRUE, !.fresh = FALSE] \/ c2 = [client EXCEPT !.fresh = FALSE]
    BY <1>4, <1>7, <2>1 DEF J!Confirmed, J!Told
  <2>5. /\ c2 \in Clients /\ c2.b = client.b /\ c2.pos = client.pos /\ c2.got = client.got /\ c2.at = client.at
        /\ c2.cmd = client.cmd /\ c2.doubt = client.doubt /\ c2.stall = client.stall /\ (client.sel => c2.sel)
        /\ c2.fresh = FALSE
    BY <1>1, <2>4 DEF Clients
  <2>6. Linked(t2, c2)
    BY <1>1, <2>3, <2>5 DEF Linked
  <2>7. Concluded(t2, c2)
    BY <1>1, <2>3, <2>5 DEF Concluded
  <2>8. JtagInv(t2, c2)
    BY <2>3, <2>5, <2>6, <2>7, SamePlace
  <2> QED BY <1>4, <1>7, <2>1, <2>2, <2>8
<1>8. CASE /\ client.b.mod \notin J!Modules /\ x.t = [tgt EXCEPT !.mod_id = "UNDEFINED"] /\ x.ok = TRUE
           /\ x.status = {"MODULE_MISSING"}
  <2>1. PICK c2 : c2 = client'
    OBVIOUS
  <2>2. PICK t2 : t2 = [tgt EXCEPT !.mod_id = "UNDEFINED"]
    OBVIOUS
  <2>3. /\ t2 \in Targets /\ t2.cmd = tgt.cmd /\ t2.cells = tgt.cells /\ t2.stalled = tgt.stalled
    BY <1>1, <2>2 DEF Targets
  <2>4. c2 = [client EXCEPT !.at = "refused", !.fresh = FALSE] \/ c2 = [client EXCEPT !.fresh = FALSE]
    BY <1>4, <1>8, <2>1 DEF J!Confirmed, J!Told
  <2>5. /\ c2 \in Clients /\ c2.b = client.b /\ c2.pos = client.pos /\ c2.got = client.got
        /\ c2.at \in {client.at, "refused"} /\ c2.sel = client.sel /\ c2.fresh = FALSE
        /\ c2.cmd = client.cmd /\ c2.doubt = client.doubt /\ c2.stall = client.stall
    BY <1>1, <2>4 DEF Clients
  <2>6. client.b.mod = "MISSING" /\ ~ Fits(client.b)
    BY <1>1, <1>8, BlockFacts DEF J!Modules, Fits
  <2>7. ~ client.sel /\ ~ client.cmd
    BY <1>1, <2>6 DEF Linked, J!Modules
  <2>8. Linked(t2, c2)
    BY <2>5, <2>7 DEF Linked
  <2>9. Concluded(t2, c2)
    BY <1>1, <1>4, <2>3, <2>5, <2>6 DEF Concluded
  <2>10. JtagInv(t2, c2)
    BY <1>4, <2>3, <2>5, <2>6, <2>8, <2>9, SamePlace
  <2> QED BY <1>4, <1>8, <2>1, <2>2, <2>10
<1> QED BY <1>5, <1>6, <1>7, <1>8

(* WRITE_COMMAND.                                                          *)
LEMMA WriteCommandStep ==
  ASSUME BlockSizes, JtagInv(tgt, client), NEW wire \in J!Wires, NEW read \in BOOLEAN, J!WriteCommand(wire, read)
  PROVE  JtagInv(tgt', client')
<1>1. /\ tgt \in Targets /\ client \in Clients /\ client.b \in Blocks /\ Linked(tgt, client) /\ Concluded(tgt, client)
      /\ client.pos \in Nat
  BY InvParts
<1>2. PICK s : s = J!Sent(client.pos)
  OBVIOUS
<1>3. PICK y : y = J!write_command(tgt, s, wire)
  OBVIOUS
<1>4. PICK x : x = J!jtag_shift_dr(y, wire)
  OBVIOUS
<1>5. /\ client.at = "moving" /\ client.sel /\ tgt' = x.t
      /\ client' = IF J!Confirmed(x, read) THEN [client EXCEPT !.cmd = TRUE, !.doubt = TRUE, !.fresh = TRUE]
                                           ELSE [client EXCEPT !.cmd = FALSE, !.fresh = FALSE]
  BY <1>2, <1>3, <1>4 DEF J!WriteCommand
<1>6. PICK a : a = J!Accepted(client.b.mod, s)
  OBVIOUS
<1>7. Answers(client.b, client.pos, a)
  <2>1. s = J!Command(client.b.write, client.b.width, AddrOf(client.b, client.pos), client.b.size)
    BY <1>2 DEF J!Sent, J!Blk, J!Addr, AddrOf
  <2> QED BY <1>1, <1>6, <2>1, AcceptedFacts
<1>8. tgt.mod_id = client.b.mod
  BY <1>1, <1>5 DEF Linked
<1>9. \/ x.t = tgt /\ x.ok = FALSE
      \/ x.t = [tgt EXCEPT !.cmd = J!NoCommand] /\ (x.ok = FALSE \/ x.status = {"CRC_IN_ERROR"})
      \/ x.t = [tgt EXCEPT !.cmd = a] /\ x.ok = TRUE /\ x.status = {}
  <2>1. CASE Missed(x)
    BY <2>1 DEF Missed
  <2>2. CASE x = y /\ wire # "stray" /\ wire # "lost"
    BY <1>3, <1>6, <1>8, <2>2 DEF J!write_command, J!Garbled, J!Response, J!Done, J!Wires
  <2> QED BY <1>4, <2>1, <2>2, ShiftFacts
<1>10. a \in Commands /\ J!NoCommand \in Commands
  BY <1>7, NoCommandFacts DEF Answers
<1>11. PICK t2 : t2 = x.t
  OBVIOUS
<1>12. /\ t2 \in Targets /\ t2.mod_id = tgt.mod_id /\ t2.cells = tgt.cells /\ t2.stalled = tgt.stalled
  BY <1>1, <1>9, <1>10, <1>11 DEF Targets
<1>13. CASE J!Confirmed(x, read)
  <2>1. x.t = [tgt EXCEPT !.cmd = a]
    BY <1>9, <1>13 DEF J!Confirmed
  <2>2. t2.cmd = a
    BY <1>1, <1>11, <2>1 DEF Targets
  <2>3. PICK c2 : c2 = [client EXCEPT !.cmd = TRUE, !.doubt = TRUE, !.fresh = TRUE]
    OBVIOUS
  <2>4. /\ c2 \in Clients /\ c2.b = client.b /\ c2.pos = client.pos /\ c2.got = client.got /\ c2.at = client.at
        /\ c2.cmd = TRUE /\ c2.doubt = TRUE /\ c2.fresh = TRUE /\ c2.stall = client.stall /\ c2.sel = client.sel
    BY <1>1, <2>3 DEF Clients
  <2>5. Linked(t2, c2)
    BY <1>1, <1>5, <1>7, <1>12, <2>2, <2>4 DEF Linked, Answers
  <2>6. Concluded(t2, c2)
    BY <1>1, <1>12, <2>4 DEF Concluded
  <2>7. Fits(c2.b) => IsFor(c2.b, t2.cmd, c2.pos)
    BY <1>7, <2>2, <2>4 DEF Answers
  <2>8. JtagInv(t2, c2)
    BY <1>12, <2>4, <2>5, <2>6, <2>7, SamePlace
  <2> QED BY <1>5, <1>11, <1>13, <2>3, <2>8
<1>14. CASE ~ J!Confirmed(x, read)
  <2>3. PICK c2 : c2 = [client EXCEPT !.cmd = FALSE, !.fresh = FALSE]
    OBVIOUS
  <2>4. /\ c2 \in Clients /\ c2.b = client.b /\ c2.pos = client.pos /\ c2.got = client.got /\ c2.at = client.at
        /\ c2.cmd = FALSE /\ c2.fresh = FALSE /\ c2.stall = client.stall /\ c2.sel = client.sel
    BY <1>1, <2>3 DEF Clients
  <2>5. Linked(t2, c2)
    BY <1>1, <1>12, <2>4 DEF Linked
  <2>6. Concluded(t2, c2)
    BY <1>1, <1>12, <2>4 DEF Concluded
  <2>8. JtagInv(t2, c2)
    BY <1>12, <2>4, <2>5, <2>6, SamePlace
  <2> QED BY <1>5, <1>11, <1>14, <2>3, <2>8
<1> QED BY <1>13, <1>14

(* The command of chunk p is in the interface: GO_COMMAND answers.         *)
LEMMA GoFacts ==
  ASSUME BlockSizes, NEW b, NEW p, NEW t, Aimed(b, p, t), NEW n \in Nat, NEW wire,
         Held(b, p, t.cells), Only(b, p, t.cells), NEW x,
         x = J!go_command(t, n, p * b.size + 1, wire)
  PROVE  Went(b, p, t, x)
<1>1. t.cmd.write_defined_p /\ t.cmd.write = b.write /\ b.write \in BOOLEAN
  BY AimedFacts
<1>2. CASE b.write
  <2>1. x = J!go_command_write(t, n, p * b.size + 1, wire)
    BY <1>1, <1>2 DEF J!go_command
  <2> QED BY <1>2, <2>1, GoWriteFacts
<1>3. CASE ~ b.write
  <2>1. x = J!go_command_read(t, n, wire)
    BY <1>1, <1>3 DEF J!go_command
  <2> QED BY <1>3, <2>1, GoReadFacts
<1> QED BY <1>2, <1>3

(* A function on 1 .. n is a sequence.                                     *)
LEMMA FunctionSeq ==
  ASSUME NEW n \in Nat, NEW s \in [1 .. n -> Int]
  PROVE  s \in Seq(Int) /\ Len(s) = n
<1>1. s \in Seq(Int)
  BY SeqDef
<1>2. Len(s) \in Nat /\ DOMAIN s = 1 .. Len(s)
  BY <1>1, LenProperties
<1>3. 1 .. Len(s) = 1 .. n
  BY <1>2
<1> QED BY <1>1, <1>2, <1>3

(* What was read before and the next chunk are what was read.              *)
LEMMA TakenNext ==
  ASSUME BlockSizes, NEW b \in Blocks, NEW p \in Nat, NEW got, NEW val,
         got = [k \in 1 .. p * b.size |-> PlaceOf(b, k - 1)],
         val = [i \in 1 .. b.size |-> PlaceOf(b, p * b.size + (i - 1))]
  PROVE  /\ got \o val = [k \in 1 .. (p + 1) * b.size |-> PlaceOf(b, k - 1)]
         /\ got \o val \in Seq(Int)
<1>1. b.size \in Nat /\ b.base \in Nat /\ p * b.size \in Nat /\ (p + 1) * b.size = p * b.size + b.size
      /\ MAX_SPRS \in Nat /\ MAX_SPRS > 0
  BY BlockFacts, ChunkFacts
<1>2. PICK z \in Nat, y \in Nat : z = b.size /\ y = p * b.size /\ (p + 1) * b.size = y + z
  BY <1>1
<1>3. \A k \in Nat : PlaceOf(b, k) \in Int
  <2> SUFFICES ASSUME NEW k \in Nat PROVE PlaceOf(b, k) \in Int
    OBVIOUS
  <2>1. PICK e \in Nat : e = b.base % MAX_SPRS
    BY <1>1
  <2>2. PICK m \in Nat : m = 4 * MAX_SPRS /\ m > 0
    BY <1>1
  <2>3. (4 * e + k) % m \in Int
    BY <2>2
  <2>4. b.base + k \in Int
    BY <1>1
  <2> QED BY <2>1, <2>2, <2>3, <2>4 DEF PlaceOf
<1>4. got = [k \in 1 .. y |-> PlaceOf(b, k - 1)] /\ val = [i \in 1 .. z |-> PlaceOf(b, y + (i - 1))]
  BY <1>2
<1>5. got \in Seq(Int) /\ Len(got) = y
  <2>1. \A k \in 1 .. y : PlaceOf(b, k - 1) \in Int
    BY <1>3
  <2>2. got \in [1 .. y -> Int]
    BY <1>4, <2>1
  <2> QED BY <2>2, FunctionSeq
<1>6. val \in Seq(Int) /\ Len(val) = z
  <2>1. \A i \in 1 .. z : PlaceOf(b, y + (i - 1)) \in Int
    BY <1>3
  <2>2. val \in [1 .. z -> Int]
    BY <1>4, <2>1
  <2> QED BY <2>2, FunctionSeq
<1>7. PICK r : r = got \o val
  OBVIOUS
<1>8. r \in Seq(Int) /\ Len(r) = y + z
  <2>1. got \o val \in Seq(Int) /\ Len(got \o val) = Len(got) + Len(val)
    BY <1>5, <1>6, ConcatProperties
  <2> QED BY <1>5, <1>6, <1>7, <2>1
<1>a. \A k \in 1 .. y + z : r[k] = IF k <= y THEN got[k] ELSE val[k - y]
  <2> SUFFICES ASSUME NEW k \in 1 .. Len(got) + Len(val)
               PROVE  (got \o val)[k] = IF k <= Len(got) THEN got[k] ELSE val[k - Len(got)]
    BY <1>5, <1>6, <1>7
  <2> QED BY <1>5, <1>6, ConcatProperties
<1>9. ASSUME NEW k \in 1 .. y + z PROVE r[k] = PlaceOf(b, k - 1)
  <2>1. CASE k <= y
    <3>1. k \in 1 .. y
      BY <2>1
    <3>2. r[k] = got[k]
      BY <1>a, <2>1
    <3> QED BY <1>4, <3>1, <3>2
  <2>2. CASE ~ (k <= y)
    <3>1. PICK i \in 1 .. z : i = k - y
      BY <2>2
    <3>2. r[k] = val[k - y]
      BY <1>a, <2>2
    <3>3. val[i] = PlaceOf(b, y + (i - 1))
      BY <1>4
    <3>4. y + (i - 1) = k - 1
      BY <3>1
    <3> QED BY <3>1, <3>2, <3>3, <3>4
  <2> QED BY <2>1, <2>2
<1>10. r = [k \in 1 .. y + z |-> PlaceOf(b, k - 1)]
  <2>1. DOMAIN r = 1 .. y + z /\ r = [k \in DOMAIN r |-> r[k]]
    BY <1>8
  <2> QED BY <1>9, <2>1
<1> QED BY <1>2, <1>7, <1>8, <1>10

(* GO_COMMAND.                                                             *)
LEMMA GoStep ==
  ASSUME BlockSizes, JtagInv(tgt, client), NEW wire, NEW read \in BOOLEAN,
         NEW n \in (J!Blk.size - 1) .. (J!Blk.size + 1), J!GoCommand(n, wire, read)
  PROVE  JtagInv(tgt', client')
<1>1. /\ tgt \in Targets /\ client \in Clients /\ client.b \in Blocks /\ client.pos \in Nat
      /\ Linked(tgt, client) /\ Stored(tgt, client) /\ Taken(client) /\ Concluded(tgt, client)
      /\ client.at = "moving" => client.pos < client.b.chunks
  BY InvParts
<1>2. PICK b, p : b = client.b /\ p = client.pos
  OBVIOUS
<1>3. b \in Blocks /\ p \in Nat /\ b.size \in Nat /\ b.size > 0 /\ n \in Nat /\ b.write \in BOOLEAN
  BY <1>1, <1>2, BlockFacts DEF J!Blk
<1>4. PICK y : y = J!go_command(tgt, n, p * b.size + 1, wire)
  OBVIOUS
<1>5. PICK x : x = J!jtag_shift_dr(y, wire)
  OBVIOUS
<1>6. /\ client.at = "moving" /\ client.cmd /\ ~ client.doubt /\ tgt' = x.t
      /\ client' =
           CASE J!Confirmed(x, read) ->
                  [client EXCEPT !.pos = p + 1, !.got = IF b.write THEN client.got ELSE client.got \o x.val,
                                 !.at = IF p + 1 = b.chunks THEN "done" ELSE client.at]
             [] J!Told(x, read, "WISHBONE_ERROR") -> [client EXCEPT !.at = "failed"]
             [] ~ (read /\ x.ok) -> [client EXCEPT !.doubt = TRUE]
             [] OTHER -> client
  BY <1>2, <1>4, <1>5 DEF J!GoCommand, J!Blk
<1>7. PICK c2 : c2 = client'
  OBVIOUS
<1>a. client.fresh = FALSE
  BY <1>1, <1>6 DEF Linked, Clients
<1>8. CASE Missed(x)
  <2>1. c2 = [client EXCEPT !.doubt = TRUE] \/ c2 = client
    BY <1>6, <1>7, <1>8 DEF J!Confirmed, J!Told, Missed
  <2>2. /\ c2 \in Clients /\ c2.b = client.b /\ c2.pos = client.pos /\ c2.got = client.got /\ c2.at = client.at
        /\ c2.cmd = client.cmd /\ c2.stall = client.stall /\ c2.sel = client.sel /\ (client.doubt => c2.doubt)
        /\ c2.fresh = FALSE
    BY <1>1, <1>a, <2>1 DEF Clients
  <2>3. PICK t2 : t2 = x.t
    OBVIOUS
  <2>4. /\ t2 \in Targets /\ t2.mod_id = tgt.mod_id /\ t2.cells = tgt.cells /\ t2.stalled = tgt.stalled
        /\ t2.cmd = tgt.cmd \/ t2.cmd = J!NoCommand
    BY <1>1, <1>8, <2>3, MissedFacts
  <2>5. JtagInv(t2, c2)
    BY <2>2, <2>4, DroppedKeeps
  <2> QED BY <1>6, <1>7, <2>3, <2>5
<1>9. CASE x = y /\ tgt.cmd = J!NoCommand
  <2>1. y = J!Garbled(tgt)
    BY <1>4, <1>9, NoCommandFacts DEF J!go_command
  <2>2. Missed(x)
    BY <1>9, <2>1 DEF J!Garbled, Missed
  <2> QED BY <1>8, <2>2
<1>10. CASE x = y /\ tgt.cmd # J!NoCommand
  <2>0. Fits(b)
    BY <1>1, <1>2, <1>6, <1>10 DEF Linked
  <2>1. IsFor(b, tgt.cmd, p) /\ tgt.mod_id = b.mod /\ client.sel
    BY <1>1, <1>2, <1>6, <1>10 DEF Linked
  <2>2. Aimed(b, p, tgt)
    BY <1>1, <1>2, <1>3, <1>6, <2>0, <2>1 DEF Aimed
  <2>3. Held(b, p, tgt.cells) /\ Only(b, p, tgt.cells)
    BY <1>1, <1>2 DEF Stored
  <2>4. Went(b, p, tgt, x)
    BY <1>3, <1>4, <1>10, <2>2, <2>3, GoFacts
  <2>5. PICK t2 : t2 = x.t
    OBVIOUS
  <2>6. /\ t2 \in Targets /\ t2.mod_id = tgt.mod_id /\ t2.stalled = tgt.stalled
        /\ Held(b, p, t2.cells) /\ Only(b, p, t2.cells)
        /\ \/ IsFor(b, t2.cmd, p) /\ (x.ok => x.status # {})
           \/ /\ x.ok /\ x.status = {} /\ IsFor(b, t2.cmd, p + 1) /\ Held(b, p + 1, t2.cells)
              /\ ~ b.write => x.val = [i \in 1 .. b.size |-> PlaceOf(b, p * b.size + (i - 1))]
        /\ x.ok /\ "WISHBONE_ERROR" \in x.status => Outside(b)
    BY <2>4, <2>5 DEF Went
  <2>7. CASE J!Confirmed(x, read)
    <3>1. /\ IsFor(b, t2.cmd, p + 1) /\ Held(b, p + 1, t2.cells)
          /\ ~ b.write => x.val = [i \in 1 .. b.size |-> PlaceOf(b, p * b.size + (i - 1))]
      BY <2>6, <2>7 DEF J!Confirmed
    <3>2. PICK g : g = IF b.write THEN client.got ELSE client.got \o x.val
      OBVIOUS
    <3>3. g \in Seq(Int) /\ (~ b.write => g = [k \in 1 .. (p + 1) * b.size |-> PlaceOf(b, k - 1)])
      <4>1. CASE b.write
        BY <1>1, <3>2, <4>1 DEF Clients
      <4>2. CASE ~ b.write
        <5>1. client.got = [k \in 1 .. p * b.size |-> PlaceOf(b, k - 1)]
          BY <1>1, <1>2, <4>2 DEF Taken
        <5>2. PICK got, val : got = client.got /\ val = x.val
          OBVIOUS
        <5>3. /\ got \o val = [k \in 1 .. (p + 1) * b.size |-> PlaceOf(b, k - 1)]
              /\ got \o val \in Seq(Int)
          <6>1. /\ got = [k \in 1 .. p * b.size |-> PlaceOf(b, k - 1)]
                /\ val = [i \in 1 .. b.size |-> PlaceOf(b, p * b.size + (i - 1))]
            BY <3>1, <4>2, <5>1, <5>2
          <6> QED BY <1>3, <6>1, TakenNext
        <5> QED BY <3>2, <4>2, <5>2, <5>3
      <4> QED BY <4>1, <4>2
    <3>4. PICK a : a = IF p + 1 = b.chunks THEN "done" ELSE "moving"
      OBVIOUS
    <3>5. c2 = [client EXCEPT !.pos = p + 1, !.got = g, !.at = a]
      <4>1. c2 = [client EXCEPT !.pos = p + 1, !.got = IF b.write THEN client.got ELSE client.got \o x.val,
                                !.at = IF p + 1 = b.chunks THEN "done" ELSE client.at]
        <5>1. ~ J!Told(x, read, "WISHBONE_ERROR") /\ read /\ x.ok
          BY <2>7 DEF J!Told, J!Confirmed
        <5> QED BY <1>6, <1>7, <2>7, <5>1, Zenon
      <4>2. a = IF p + 1 = b.chunks THEN "done" ELSE client.at
        BY <1>6, <3>4
      <4> QED BY <3>2, <4>1, <4>2
    <3>6. /\ c2 \in Clients /\ c2.b = b /\ c2.pos = p + 1 /\ c2.got = g /\ c2.at = a
          /\ c2.cmd = client.cmd /\ c2.stall = client.stall /\ c2.sel = client.sel /\ c2.fresh = FALSE
      <4>1. a \in {"done", "moving"} /\ p + 1 \in Nat
        BY <1>3, <3>4
      <4>2. c2 \in Clients
        BY <1>1, <3>3, <3>5, <4>1 DEF Clients
      <4> QED BY <1>1, <1>2, <1>a, <3>5, <4>2 DEF Clients
    <3>7. Taken(c2)
      BY <3>3, <3>6 DEF Taken
    <3>8. JtagInv(t2, c2)
      BY <1>2, <1>6, <2>0, <2>6, <3>1, <3>4, <3>6, <3>7, NextChunk
    <3> QED BY <1>6, <1>7, <2>5, <3>8
  <2>8. CASE ~ J!Confirmed(x, read) /\ read /\ x.ok
    <3>1. x.status # {} /\ IsFor(b, t2.cmd, p)
      BY <2>6, <2>8 DEF J!Confirmed
    <3>2. \/ c2 = client
          \/ c2 = [client EXCEPT !.at = "failed"] /\ Outside(b)
      BY <1>6, <1>7, <2>6, <2>8 DEF J!Told
    <3>3. /\ c2 \in Clients /\ c2.b = b /\ c2.pos = p /\ c2.got = client.got
          /\ c2.cmd = client.cmd /\ c2.stall = client.stall /\ c2.sel = client.sel /\ c2.fresh = FALSE
          /\ c2.at = client.at \/ (c2.at = "failed" /\ Outside(b))
      BY <1>1, <1>2, <1>a, <3>2 DEF Clients
    <3>4. Linked(t2, c2)
      BY <1>1, <1>2, <2>0, <2>6, <3>1, <3>3 DEF Linked
    <3>5. Concluded(t2, c2)
      BY <1>1, <1>2, <2>6, <3>3 DEF Concluded
    <3>6. Stored(t2, c2)
      BY <2>6, <3>1, <3>3 DEF Stored
    <3>7. JtagTyped(t2, c2)
      BY <1>1, <1>2, <1>6, <2>6, <3>3, InvParts DEF JtagTyped
    <3>8. Taken(c2)
      BY <1>1, <1>2, <3>3 DEF Taken
    <3>9. JtagInv(t2, c2)
      BY <3>4, <3>5, <3>6, <3>7, <3>8 DEF JtagInv
    <3> QED BY <1>6, <1>7, <2>5, <3>9
  <2>9. CASE ~ (read /\ x.ok)
    <3>2. c2 = [client EXCEPT !.doubt = TRUE]
      BY <1>6, <1>7, <2>9 DEF J!Told, J!Confirmed
    <3>3. /\ c2 \in Clients /\ c2.b = b /\ c2.pos = p /\ c2.got = client.got /\ c2.doubt = TRUE
          /\ c2.cmd = client.cmd /\ c2.stall = client.stall /\ c2.sel = client.sel /\ c2.at = client.at
          /\ c2.fresh = FALSE
      BY <1>1, <1>2, <1>a, <3>2 DEF Clients
    <3>4. Linked(t2, c2)
      BY <1>1, <1>2, <2>0, <2>6, <3>3 DEF Linked
    <3>5. Concluded(t2, c2)
      BY <1>1, <1>2, <2>6, <3>3 DEF Concluded
    <3>6. Stored(t2, c2)
      BY <2>6, <3>3 DEF Stored
    <3>7. JtagTyped(t2, c2)
      BY <1>1, <1>2, <1>6, <2>6, <3>3, InvParts DEF JtagTyped
    <3>8. Taken(c2)
      BY <1>1, <1>2, <3>3 DEF Taken
    <3>9. JtagInv(t2, c2)
      BY <3>4, <3>5, <3>6, <3>7, <3>8 DEF JtagInv
    <3> QED BY <1>6, <1>7, <2>5, <3>9
  <2> QED BY <2>7, <2>8, <2>9 DEF J!Confirmed
<1> QED BY <1>5, <1>8, <1>9, <1>10, ShiftFacts

(* A command with another address.                                         *)
LEMMA WithAddress ==
  ASSUME NEW c, NEW e \in BOOLEAN, NEW w \in Nat, NEW a \in Nat, NEW z \in Nat, NEW m \in Int,
         c = [write_defined_p |-> TRUE, write |-> e, width |-> w, addr |-> a, size |-> z]
  PROVE  [c EXCEPT !.addr = m] = [write_defined_p |-> TRUE, write |-> e, width |-> w, addr |-> m, size |-> z]
<1>1. PICK h : h = [c EXCEPT !.addr = m]
  OBVIOUS
<1>2. c.addr = a
  OBVIOUS
<1>3. h = [write_defined_p |-> TRUE, write |-> e, width |-> w, addr |-> m, size |-> z]
  BY <1>1, <1>2
<1> QED BY <1>1, <1>3, Zenon

(* A command that READ_COMMAND reports is taken for the one of chunk p     *)
(* when it is that one.                                                    *)
LEMMA IsAtFacts ==
  ASSUME BlockSizes, client.b \in Blocks, NEW v \in Commands, v.write_defined_p = TRUE, NEW p \in Nat
  PROVE  J!IsAt(v, p) <=> IsFor(client.b, v, p)
<1>1. PICK b \in Blocks : b = client.b
  OBVIOUS
<1>2. PICK w, z, a, e : w = b.width /\ z = b.size /\ a = AddrOf(b, p) /\ e = b.write
  OBVIOUS
<1>3. PICK s : s = [write_defined_p |-> TRUE, write |-> e, width |-> w, addr |-> a, size |-> z]
  OBVIOUS
<1>4. s = J!Sent(p)
  <2>1. J!Addr(p) = a
    BY <1>1, <1>2 DEF J!Addr, J!Blk, AddrOf
  <2> QED BY <1>1, <1>2, <1>3, <2>1 DEF J!Sent, J!Command, J!Blk
<1>5. PICK vw, vz, va, ve : /\ v = [write_defined_p |-> TRUE, write |-> ve, width |-> vw, addr |-> va, size |-> vz]
                            /\ vw = v.width /\ vz = v.size /\ va = v.addr /\ ve = v.write
  BY DEF Commands
<1>6. CASE b.mod = "CPU0"
  <2>1. PICK m, n : m = va % MAX_SPRS /\ n = a % MAX_SPRS
    OBVIOUS
  <2>2. J!SprCut(v) = [write_defined_p |-> TRUE, write |-> ve, width |-> vw, addr |-> m, size |-> vz]
    <3>1. J!SprCut(v) = [v EXCEPT !.addr = v.addr % MAX_SPRS]
      BY <1>1, <1>6 DEF J!SprCut, J!Blk
    <3>2. J!SprCut(v) = [v EXCEPT !.addr = m]
      BY <1>5, <2>1, <3>1
    <3>3. v = [write_defined_p |-> TRUE, write |-> ve, width |-> vw, addr |-> va, size |-> vz]
      BY <1>5, Zenon
    <3>4. ve \in BOOLEAN /\ vw \in Nat /\ va \in Nat /\ vz \in Nat
      BY <1>5 DEF Commands
    <3>5. MAX_SPRS \in Nat /\ MAX_SPRS > 0
      BY <1>1, BlockFacts
    <3>6. m \in Int
      BY <2>1, <3>4, <3>5
    <3> QED BY <3>2, <3>3, <3>4, <3>6, WithAddress, Zenon
  <2>3. J!SprCut(s) = [write_defined_p |-> TRUE, write |-> e, width |-> w, addr |-> n, size |-> z]
    <3>1. J!SprCut(s) = [s EXCEPT !.addr = s.addr % MAX_SPRS]
      BY <1>1, <1>6 DEF J!SprCut, J!Blk
    <3>2. s.addr = a
      BY <1>3
    <3> QED BY <1>3, <2>1, <3>1, <3>2
  <2>4. J!IsAt(v, p) <=> J!SprCut(v) = J!SprCut(s)
    BY <1>4 DEF J!IsAt
  <2>5. J!IsAt(v, p) <=> ve = e /\ vw = w /\ m = n /\ vz = z
    <3>1. PICK f, g : f = J!SprCut(v) /\ g = J!SprCut(s)
      OBVIOUS
    <3>2. /\ f = [write_defined_p |-> TRUE, write |-> ve, width |-> vw, addr |-> m, size |-> vz]
          /\ g = [write_defined_p |-> TRUE, write |-> e, width |-> w, addr |-> n, size |-> z]
      BY <2>2, <2>3, <3>1
    <3>3. f = g <=> ve = e /\ vw = w /\ m = n /\ vz = z
      BY <3>2
    <3> QED BY <2>4, <3>1, <3>3
  <2>6. IsFor(b, v, p) <=> ve = e /\ vw = w /\ m = n /\ vz = z
    BY <1>2, <1>5, <1>6, <2>1 DEF IsFor
  <2> QED BY <1>1, <2>5, <2>6
<1>7. CASE b.mod # "CPU0"
  <2>1. J!SprCut(v) = v /\ J!SprCut(s) = s
    BY <1>1, <1>7 DEF J!SprCut, J!Blk
  <2>2. J!IsAt(v, p) <=> v = s
    BY <1>4, <2>1 DEF J!IsAt
  <2>3. v = s <=> ve = e /\ vw = w /\ va = a /\ vz = z
    BY <1>3, <1>5
  <2>4. IsFor(b, v, p) <=> ve = e /\ vw = w /\ va = a /\ vz = z
    BY <1>2, <1>5, <1>7 DEF IsFor
  <2> QED BY <1>1, <2>2, <2>3, <2>4
<1> QED BY <1>6, <1>7

(* The command as READ_COMMAND reports it.                                 *)
LEMMA ReportFacts ==
  ASSUME NEW d \in Commands, NEW v, v = [d EXCEPT !.write_defined_p = TRUE]
  PROVE  /\ v \in Commands /\ v.write_defined_p = TRUE
         /\ v.write = d.write /\ v.width = d.width /\ v.addr = d.addr /\ v.size = d.size
         /\ d.write_defined_p = TRUE => v = d
BY DEF Commands

(* A command that was refused or dropped is not taken for that of a chunk  *)
(* to come.                                                                *)
LEMMA RefusedIsNotPast ==
  ASSUME BlockSizes, NEW b \in Blocks, NEW p \in Nat, NEW v,
         v.write = TRUE, v.width = 1, v.addr = 0, v.size = 1, IsFor(b, v, p + 1)
  PROVE  FALSE
<1>1. b.width = 1 /\ b.size = 1
  BY DEF IsFor
<1>3. b.mod # "CPU0"
  BY <1>1, BlockFacts
<1>4. AddrOf(b, p + 1) = 0
  BY <1>3 DEF IsFor
<1>5. AddrOf(b, p) \in Nat /\ AddrOf(b, p + 1) = AddrOf(b, p) + 1
  BY <1>1, AddrFacts
<1> QED BY <1>4, <1>5

(* READ_COMMAND.                                                           *)
LEMMA ReadCommandStep ==
  ASSUME BlockSizes, JtagInv(tgt, client), NEW wire \in J!Wires, NEW read \in BOOLEAN, J!ReadCommand(wire, read)
  PROVE  JtagInv(tgt', client')
<1>1. /\ tgt \in Targets /\ client \in Clients /\ client.b \in Blocks /\ client.pos \in Nat /\ tgt.cmd \in Commands
      /\ Linked(tgt, client) /\ Stored(tgt, client) /\ Taken(client) /\ Concluded(tgt, client)
      /\ client.at = "moving" => client.pos < client.b.chunks
      /\ tgt.mod_id \in J!Modules \cup {"UNDEFINED"}
  BY InvParts
<1>2. PICK b, p : b = client.b /\ p = client.pos
  OBVIOUS
<1>3. b \in Blocks /\ p \in Nat /\ b.write \in BOOLEAN
  BY <1>1, <1>2, BlockFacts
<1>4. PICK y : y = J!read_command(tgt, wire)
  OBVIOUS
<1>5. PICK x : x = J!jtag_shift_dr(y, wire)
  OBVIOUS
<1>6. /\ client.at = "moving" /\ client.cmd /\ client.doubt /\ tgt' = x.t
      /\ client' =
           CASE ~ J!Confirmed(x, read) -> [client EXCEPT !.fresh = FALSE]
             [] J!Confirmed(x, read) /\ J!IsAt(x.val, p) -> [client EXCEPT !.doubt = FALSE, !.fresh = FALSE]
             [] J!Confirmed(x, read) /\ J!IsPast(x.val, p) /\ ~ b.write ->
                  [client EXCEPT !.cmd = FALSE, !.fresh = FALSE]
             [] J!Confirmed(x, read) /\ J!IsPast(x.val, p) /\ b.write ->
                  [client EXCEPT !.doubt = FALSE, !.fresh = FALSE, !.pos = p + 1,
                                 !.at = IF p + 1 = b.chunks THEN "done" ELSE client.at]
             [] OTHER -> IF client.fresh THEN [client EXCEPT !.at = "refused", !.fresh = FALSE]
                                         ELSE [client EXCEPT !.cmd = FALSE]
  BY <1>2, <1>4, <1>5 DEF J!ReadCommand, J!Blk
<1>7. PICK v : v = [tgt.cmd EXCEPT !.write_defined_p = TRUE]
  OBVIOUS
<1>8. Missed(x) \/ (x.t = tgt /\ x.ok = TRUE /\ x.val = v)
  <2>1. CASE x = y
    BY <1>4, <1>7, <2>1 DEF J!read_command, J!Response, J!Garbled, Missed
  <2> QED BY <1>5, <2>1, ShiftFacts
<1>a. J!Confirmed(x, read) => x.t = tgt /\ x.val = v
  BY <1>8 DEF J!Confirmed, Missed
<1>9. /\ v \in Commands /\ v.write_defined_p = TRUE
      /\ v.write = tgt.cmd.write /\ v.width = tgt.cmd.width /\ v.addr = tgt.cmd.addr /\ v.size = tgt.cmd.size
      /\ tgt.cmd.write_defined_p = TRUE => v = tgt.cmd
  <2>1. PICK d \in Commands : d = tgt.cmd
    BY <1>1
  <2>2. v = [d EXCEPT !.write_defined_p = TRUE]
    BY <1>7, <2>1
  <2>3. /\ v \in Commands /\ v.write_defined_p = TRUE
        /\ v.write = d.write /\ v.width = d.width /\ v.addr = d.addr /\ v.size = d.size
        /\ d.write_defined_p = TRUE => v = d
    BY <2>2, ReportFacts
  <2> QED BY <2>1, <2>3
<1>10. (J!IsAt(v, p) <=> IsFor(b, v, p)) /\ (J!IsAt(v, p + 1) <=> IsFor(b, v, p + 1))
  <2>1. J!IsAt(v, p) <=> IsFor(client.b, v, p)
    BY <1>1, <1>3, <1>9, IsAtFacts
  <2>2. p + 1 \in Nat
    BY <1>3
  <2>3. J!IsAt(v, p + 1) <=> IsFor(client.b, v, p + 1)
    BY <1>1, <1>9, <2>2, IsAtFacts
  <2> QED BY <1>2, <2>1, <2>3
<1>11. J!IsPast(v, p) <=> IsFor(b, v, p + 1) /\ ~ IsFor(b, v, p)
  BY <1>10 DEF J!IsPast
<1>12. /\ tgt.mod_id = b.mod
       /\ tgt.cmd # J!NoCommand => Fits(b) /\ v = tgt.cmd /\ (IsFor(b, v, p) \/ IsFor(b, v, p + 1))
  <2>1. /\ tgt.mod_id = b.mod
        /\ tgt.cmd # J!NoCommand => Fits(b) /\ (IsFor(b, tgt.cmd, p) \/ IsFor(b, tgt.cmd, p + 1))
    BY <1>1, <1>2, <1>6 DEF Linked
  <2>2. tgt.cmd # J!NoCommand => tgt.cmd.write_defined_p = TRUE
    BY <1>1, <2>1 DEF IsFor, Commands
  <2> QED BY <1>9, <2>1, <2>2
<1>b. tgt.cmd = J!NoCommand => ~ IsFor(b, v, p + 1)
  <2> SUFFICES ASSUME tgt.cmd = J!NoCommand, IsFor(b, v, p + 1) PROVE FALSE
    OBVIOUS
  <2>1. v.write = TRUE /\ v.width = 1 /\ v.addr = 0 /\ v.size = 1
    BY <1>9, NoCommandFacts
  <2> QED BY <1>3, <2>1, RefusedIsNotPast
<1>13. PICK c2 : c2 = client'
  OBVIOUS
<1>14. CASE ~ J!Confirmed(x, read)
  <2>1. c2 = [client EXCEPT !.fresh = FALSE]
    BY <1>6, <1>13, <1>14, Zenon
  <2>2. /\ c2 \in Clients /\ c2.b = client.b /\ c2.pos = client.pos /\ c2.got = client.got /\ c2.at = client.at
        /\ c2.cmd = client.cmd /\ c2.doubt = client.doubt /\ c2.stall = client.stall /\ c2.sel = client.sel
        /\ c2.fresh = FALSE
    BY <1>1, <2>1 DEF Clients
  <2>3. PICK t2 : t2 = x.t
    OBVIOUS
  <2>4. /\ t2 \in Targets /\ t2.mod_id = tgt.mod_id /\ t2.cells = tgt.cells /\ t2.stalled = tgt.stalled
        /\ t2.cmd = tgt.cmd \/ t2.cmd = J!NoCommand
    BY <1>1, <1>8, <2>3, MissedFacts
  <2>5. JtagInv(t2, c2)
    BY <2>2, <2>4, DroppedKeeps
  <2> QED BY <1>6, <1>13, <2>3, <2>5
<1>15. CASE J!Confirmed(x, read) /\ IsFor(b, v, p)
  <2>1. x.val = v
    BY <1>a, <1>15
  <2>2. J!IsAt(x.val, p) /\ ~ J!IsPast(x.val, p)
    BY <1>10, <1>11, <1>15, <2>1
  <2>3. c2 = [client EXCEPT !.doubt = FALSE, !.fresh = FALSE]
    BY <1>6, <1>13, <1>15, <2>2, Zenon
  <2>4. /\ c2 \in Clients /\ c2.b = b /\ c2.pos = p /\ c2.got = client.got /\ c2.at = client.at
        /\ c2.cmd = client.cmd /\ c2.stall = client.stall /\ c2.sel = client.sel /\ c2.doubt = FALSE
        /\ c2.fresh = FALSE
    BY <1>1, <1>2, <2>3 DEF Clients
  <2>5. Linked(tgt, c2)
    BY <1>1, <1>2, <1>6, <1>12, <1>15, <2>4 DEF Linked
  <2>6. Concluded(tgt, c2)
    BY <1>1, <1>2, <2>4 DEF Concluded
  <2>7. JtagInv(tgt, c2)
    BY <1>1, <1>2, <1>6, <2>4, <2>5, <2>6, SamePlace
  <2> QED BY <1>6, <1>a, <1>13, <1>15, <2>7
<1>16. CASE J!Confirmed(x, read) /\ ~ IsFor(b, v, p) /\ IsFor(b, v, p + 1) /\ ~ b.write
  <2>1. x.val = v
    BY <1>a, <1>16
  <2>2. ~ J!IsAt(x.val, p) /\ J!IsPast(x.val, p)
    BY <1>10, <1>11, <1>16, <2>1
  <2>3. c2 = [client EXCEPT !.cmd = FALSE, !.fresh = FALSE]
    BY <1>6, <1>13, <1>16, <2>2, Zenon
  <2>4. /\ c2 \in Clients /\ c2.b = b /\ c2.pos = p /\ c2.got = client.got /\ c2.at = client.at
        /\ c2.cmd = FALSE /\ c2.stall = client.stall /\ c2.sel = client.sel /\ c2.fresh = FALSE
    BY <1>1, <1>2, <2>3 DEF Clients
  <2>5. Linked(tgt, c2)
    BY <1>1, <1>2, <1>12, <2>4 DEF Linked
  <2>6. Concluded(tgt, c2)
    BY <1>1, <1>2, <2>4 DEF Concluded
  <2>7. JtagInv(tgt, c2)
    BY <1>1, <1>2, <1>6, <2>4, <2>5, <2>6, SamePlace
  <2> QED BY <1>6, <1>a, <1>13, <1>16, <2>7
<1>17. CASE J!Confirmed(x, read) /\ ~ IsFor(b, v, p) /\ IsFor(b, v, p + 1) /\ b.write
  <2>1. x.val = v
    BY <1>a, <1>17
  <2>2. ~ J!IsAt(x.val, p) /\ J!IsPast(x.val, p)
    BY <1>10, <1>11, <1>17, <2>1
  <2>3. c2 = [client EXCEPT !.doubt = FALSE, !.fresh = FALSE, !.pos = p + 1,
                            !.at = IF p + 1 = b.chunks THEN "done" ELSE client.at]
    BY <1>6, <1>13, <1>17, <2>2, Zenon
  <2>4. Fits(b) /\ tgt.cmd # J!NoCommand
    BY <1>12, <1>17, <1>b
  <2>5. v = tgt.cmd
    BY <1>12, <2>4
  <2>6. Held(b, p + 1, tgt.cells) /\ Only(b, p, tgt.cells)
    BY <1>1, <1>2, <1>6, <1>17, <2>4, <2>5 DEF Stored
  <2>7. PICK a : a = IF p + 1 = b.chunks THEN "done" ELSE "moving"
    OBVIOUS
  <2>8. c2 = [client EXCEPT !.doubt = FALSE, !.fresh = FALSE, !.pos = p + 1, !.at = a]
    BY <1>6, <2>3, <2>7
  <2>9. /\ c2 \in Clients /\ c2.b = b /\ c2.pos = p + 1 /\ c2.at = a
        /\ c2.cmd = client.cmd /\ c2.stall = client.stall /\ c2.sel = client.sel /\ c2.fresh = FALSE
    <3>1. a \in {"done", "moving"} /\ p + 1 \in Nat
      BY <1>3, <2>7
    <3>2. c2 \in Clients
      BY <1>1, <2>8, <3>1 DEF Clients
    <3> QED BY <1>1, <1>2, <2>8, <3>2 DEF Clients
  <2>10. Taken(c2)
    BY <1>17, <2>9 DEF Taken
  <2>11. JtagInv(tgt, c2)
    BY <1>1, <1>2, <1>6, <1>17, <2>4, <2>5, <2>6, <2>7, <2>9, <2>10, NextChunk
  <2> QED BY <1>6, <1>a, <1>13, <1>17, <2>11
<1>18. CASE J!Confirmed(x, read) /\ ~ IsFor(b, v, p) /\ ~ IsFor(b, v, p + 1)
  <2>1. x.val = v
    BY <1>a, <1>18
  <2>2. ~ J!IsAt(x.val, p) /\ ~ J!IsPast(x.val, p)
    BY <1>10, <1>11, <1>18, <2>1
  <2>3. tgt.cmd = J!NoCommand
    BY <1>12, <1>18
  <2>4. c2 = IF client.fresh THEN [client EXCEPT !.at = "refused", !.fresh = FALSE] ELSE [client EXCEPT !.cmd = FALSE]
    BY <1>6, <1>13, <1>18, <2>2, Zenon
  <2>5. CASE client.fresh
    <3>1. ~ Fits(b)
      <4> SUFFICES ASSUME Fits(b) PROVE FALSE
        OBVIOUS
      <4>1. IsFor(b, tgt.cmd, p)
        BY <1>1, <1>2, <2>5 DEF Linked
      <4> QED BY <2>3, <4>1, NoCommandFacts DEF IsFor
    <3>2. c2 = [client EXCEPT !.at = "refused", !.fresh = FALSE]
      BY <2>4, <2>5
    <3>3. /\ c2 \in Clients /\ c2.b = b /\ c2.pos = p /\ c2.got = client.got /\ c2.at = "refused"
          /\ c2.cmd = client.cmd /\ c2.stall = client.stall /\ c2.sel = client.sel /\ c2.doubt = client.doubt
          /\ c2.fresh = FALSE
      BY <1>1, <1>2, <3>2 DEF Clients
    <3>4. Linked(tgt, c2)
      BY <1>1, <1>2, <3>3 DEF Linked
    <3>5. Concluded(tgt, c2)
      BY <1>1, <1>2, <3>1, <3>3 DEF Concluded
    <3>6. JtagInv(tgt, c2)
      BY <1>1, <1>2, <3>1, <3>3, <3>4, <3>5, SamePlace
    <3> QED BY <1>6, <1>a, <1>13, <1>18, <3>6
  <2>6. CASE ~ client.fresh
    <3>1. c2 = [client EXCEPT !.cmd = FALSE]
      BY <2>4, <2>6
    <3>2. /\ c2 \in Clients /\ c2.b = client.b /\ c2.pos = client.pos /\ c2.got = client.got /\ c2.at = client.at
          /\ c2.cmd = FALSE /\ c2.stall = client.stall /\ c2.sel = client.sel /\ c2.doubt = client.doubt
          /\ c2.fresh = FALSE
      BY <1>1, <2>6, <3>1 DEF Clients
    <3>3. JtagInv(tgt, c2)
      BY <1>1, <3>2, DroppedKeeps
    <3> QED BY <1>6, <1>a, <1>13, <1>18, <3>3
  <2> QED BY <2>5, <2>6
<1> QED BY <1>3, <1>14, <1>15, <1>16, <1>17, <1>18

(* WRITE_CONTROL.                                                          *)
LEMMA WriteControlStep ==
  ASSUME BlockSizes, JtagInv(tgt, client), NEW reset \in BOOLEAN, NEW stall \in BOOLEAN, NEW caught \in BOOLEAN,
         NEW wire \in J!Wires, NEW read \in BOOLEAN, J!WriteControl(reset, stall, caught, wire, read)
  PROVE  JtagInv(tgt', client')
<1>1. /\ tgt \in Targets /\ client \in Clients /\ Linked(tgt, client) /\ Concluded(tgt, client)
  BY InvParts
<1>2. PICK y : y = J!write_control(tgt, reset, stall, caught, wire)
  OBVIOUS
<1>3. PICK x : x = J!jtag_shift_dr(y, wire)
  OBVIOUS
<1>4. PICK c : c = [client EXCEPT !.at = IF reset THEN "over" ELSE client.at, !.fresh = FALSE]
  OBVIOUS
<1>5. /\ client.sel /\ client.b.mod = "CPU0" /\ tgt' = x.t
      /\ client' = CASE J!Confirmed(x, read) -> [c EXCEPT !.stall = IF stall /\ ~ reset THEN "stalled" ELSE "unknown"]
                     [] J!Told(x, read, "CRC_IN_ERROR") -> c
                     [] OTHER -> [c EXCEPT !.stall = "unknown"]
  BY <1>2, <1>3, <1>4 DEF J!WriteControl, J!Blk
<1>6. tgt.mod_id = "CPU0"
  BY <1>1, <1>5 DEF Linked
<1>7. PICK st \in BOOLEAN : st = IF reset THEN caught ELSE stall
  OBVIOUS
<1>8. \/ Missed(x)
      \/ x.t = tgt /\ x.ok = TRUE /\ x.status = {"CRC_IN_ERROR"}
      \/ x.t = [tgt EXCEPT !.stalled = st] /\ x.ok = TRUE /\ x.status = {}
  <2>1. CASE x = y /\ wire # "stray" /\ wire # "lost"
    BY <1>2, <1>6, <1>7, <2>1 DEF J!write_control, J!Garbled, J!Response, J!Done, J!Wires, Missed
  <2> QED BY <1>3, <2>1, ShiftFacts
<1>9. PICK t2 : t2 = x.t
  OBVIOUS
<1>10. /\ t2 \in Targets /\ t2.mod_id = tgt.mod_id /\ t2.cells = tgt.cells
       /\ t2.cmd = tgt.cmd \/ t2.cmd = J!NoCommand
       /\ x.ok = FALSE \/ x.status = {"CRC_IN_ERROR"} => t2.stalled = tgt.stalled
       /\ x.ok /\ x.status = {} => t2.stalled = st
  <2>1. CASE Missed(x)
    <3>1. /\ t2 \in Targets /\ t2.mod_id = tgt.mod_id /\ t2.cells = tgt.cells /\ t2.stalled = tgt.stalled
          /\ t2.cmd = tgt.cmd \/ t2.cmd = J!NoCommand
      BY <1>1, <1>9, <2>1, MissedFacts
    <3>2. ~ (x.ok /\ x.status = {})
      BY <2>1 DEF Missed
    <3> QED BY <3>1, <3>2
  <2>2. CASE x.t = tgt /\ x.ok = TRUE /\ x.status = {"CRC_IN_ERROR"}
    BY <1>1, <1>9, <2>2 DEF Targets
  <2>3. CASE x.t = [tgt EXCEPT !.stalled = st] /\ x.ok = TRUE /\ x.status = {}
    BY <1>1, <1>9, <2>3 DEF Targets
  <2> QED BY <1>8, <2>1, <2>2, <2>3
<1>11. PICK c2 : c2 = client'
  OBVIOUS
<1>12. /\ c \in Clients /\ c.b = client.b /\ c.pos = client.pos /\ c.got = client.got /\ c.at \in {client.at, "over"}
       /\ c.cmd = client.cmd /\ c.sel = client.sel /\ c.doubt = client.doubt /\ c.stall = client.stall
       /\ c.fresh = FALSE
  BY <1>1, <1>4 DEF Clients
<1>13. \/ c2 = c /\ t2.stalled = tgt.stalled
       \/ c2 = [c EXCEPT !.stall = "stalled"] /\ t2.stalled
       \/ c2 = [c EXCEPT !.stall = "unknown"]
  <2>1. CASE J!Confirmed(x, read)
    <3>1. x.ok /\ x.status = {} /\ ~ J!Told(x, read, "CRC_IN_ERROR")
      BY <2>1 DEF J!Confirmed, J!Told
    <3>2. c2 = [c EXCEPT !.stall = IF stall /\ ~ reset THEN "stalled" ELSE "unknown"]
      BY <1>5, <1>11, <2>1, <3>1, Zenon
    <3>3. stall /\ ~ reset => t2.stalled
      BY <1>7, <1>10, <3>1
    <3> QED BY <3>2, <3>3
  <2>2. CASE ~ J!Confirmed(x, read) /\ J!Told(x, read, "CRC_IN_ERROR")
    <3>1. x.status = {"CRC_IN_ERROR"}
      BY <1>8, <2>2 DEF J!Told, Missed
    <3>2. c2 = c
      BY <1>5, <1>11, <2>2, Zenon
    <3> QED BY <1>10, <3>1, <3>2
  <2>3. CASE ~ J!Confirmed(x, read) /\ ~ J!Told(x, read, "CRC_IN_ERROR")
    BY <1>5, <1>11, <2>3, Zenon
  <2> QED BY <2>1, <2>2, <2>3
<1>14. /\ c2 \in Clients /\ c2.b = c.b /\ c2.pos = c.pos /\ c2.got = c.got /\ c2.at = c.at
       /\ c2.cmd = c.cmd /\ c2.sel = c.sel /\ c2.doubt = c.doubt /\ c2.fresh = FALSE
       /\ c2.stall = "stalled" => t2.stalled \/ (c.stall = "stalled" /\ t2.stalled = tgt.stalled)
  BY <1>12, <1>13 DEF Clients
<1>15. Linked(t2, c2)
  BY <1>1, <1>10, <1>12, <1>14 DEF Linked
<1>16. Concluded(t2, c2)
  BY <1>1, <1>10, <1>12, <1>14 DEF Concluded
<1>17. JtagInv(t2, c2)
  BY <1>10, <1>12, <1>14, <1>15, <1>16, SamePlace
<1> QED BY <1>5, <1>9, <1>11, <1>17

(* READ_CONTROL.                                                           *)
LEMMA ReadControlStep ==
  ASSUME BlockSizes, JtagInv(tgt, client), NEW wire \in J!Wires, NEW read \in BOOLEAN, J!ReadControl(wire, read)
  PROVE  JtagInv(tgt', client')
<1>1. /\ tgt \in Targets /\ client \in Clients /\ Linked(tgt, client) /\ Concluded(tgt, client)
  BY InvParts
<1>2. PICK y : y = J!read_control(tgt, wire)
  OBVIOUS
<1>3. PICK x : x = J!jtag_shift_dr(y, wire)
  OBVIOUS
<1>4. /\ tgt' = x.t
      /\ client' = [client EXCEPT !.fresh = FALSE,
                      !.stall = IF ~ J!Confirmed(x, read) THEN client.stall
                                ELSE IF x.val THEN "stalled" ELSE "unknown"]
  BY <1>2, <1>3 DEF J!ReadControl
<1>5. Missed(x) \/ (x.t = tgt /\ x.ok = TRUE /\ x.val = (tgt.mod_id = "CPU0" /\ tgt.stalled))
  <2>1. CASE x = y
    BY <1>2, <2>1 DEF J!read_control, J!Garbled, J!Response, Missed
  <2> QED BY <1>3, <2>1, ShiftFacts
<1>a. PICK t2 : t2 = x.t
  OBVIOUS
<1>b. /\ t2 \in Targets /\ t2.mod_id = tgt.mod_id /\ t2.cells = tgt.cells /\ t2.stalled = tgt.stalled
      /\ t2.cmd = tgt.cmd \/ t2.cmd = J!NoCommand
  BY <1>1, <1>5, <1>a, MissedFacts
<1>6. PICK c2 : c2 = client'
  OBVIOUS
<1>7. PICK st \in {"stalled", "unknown"} :
         /\ c2 = [client EXCEPT !.fresh = FALSE, !.stall = st]
         /\ st = "stalled" => tgt.stalled \/ client.stall = "stalled"
  <2>1. J!Confirmed(x, read) => x.val = (tgt.mod_id = "CPU0" /\ tgt.stalled)
    BY <1>5 DEF J!Confirmed, Missed
  <2>2. PICK st : st = IF ~ J!Confirmed(x, read) THEN client.stall ELSE IF x.val THEN "stalled" ELSE "unknown"
    OBVIOUS
  <2>3. st \in {"stalled", "unknown"} /\ (st = "stalled" => tgt.stalled \/ client.stall = "stalled")
    BY <1>1, <2>1, <2>2 DEF Clients
  <2> QED BY <1>4, <1>6, <2>2, <2>3
<1>8. /\ c2 \in Clients /\ c2.b = client.b /\ c2.pos = client.pos /\ c2.got = client.got /\ c2.at = client.at
      /\ c2.cmd = client.cmd /\ c2.sel = client.sel /\ c2.doubt = client.doubt /\ c2.fresh = FALSE
      /\ c2.stall = "stalled" => tgt.stalled \/ client.stall = "stalled"
  BY <1>1, <1>7 DEF Clients
<1>9. Linked(t2, c2)
  BY <1>1, <1>8, <1>b DEF Linked
<1>10. Concluded(t2, c2)
  BY <1>1, <1>8, <1>b DEF Concluded
<1>11. JtagInv(t2, c2)
  BY <1>b, <1>8, <1>9, <1>10, SamePlace
<1> QED BY <1>4, <1>6, <1>11, <1>a

(* A block that is begun: nothing is selected, moved or written.           *)
LEMMA Begun ==
  ASSUME BlockSizes, NEW t \in Targets, NEW c, NEW block \in Blocks, NEW how \in {"over", "moving"},
         NEW stall \in {"unknown", "stalled"}, c = J!Client(block, how, stall), t.cells = J!Untouched,
         stall = "stalled" => t.stalled
  PROVE  JtagInv(t, c)
<1>1. c = [b |-> block, at |-> how, stall |-> stall,
           sel |-> FALSE, cmd |-> FALSE, doubt |-> FALSE, fresh |-> FALSE, pos |-> 0, got |-> <<>>]
  BY DEF J!Client
<1>2. /\ c.b = block /\ c.at = how /\ c.stall = stall /\ c.sel = FALSE /\ c.cmd = FALSE /\ c.pos = 0
      /\ c.fresh = FALSE /\ c.got = <<>>
  BY <1>1
<1>3. c \in Clients
  <2>1. <<>> \in Seq(Int)
    OBVIOUS
  <2> QED BY <1>1, <2>1 DEF Clients
<1>4. block.chunks \in Nat /\ block.chunks > 0 /\ block.size \in Nat
  BY BlockFacts
<1>5. 0 * block.size = 0
  BY <1>4
<1>6. JtagTyped(t, c)
  BY <1>2, <1>3, <1>4 DEF JtagTyped
<1>7. Linked(t, c)
  BY <1>2 DEF Linked
<1>8. Held(block, 0, t.cells)
  BY <1>5 DEF Held, Chunks
<1>9. \A m \in Kinds : \A k \in Room(m) : t.cells[m][k] = 0
  <2> SUFFICES ASSUME NEW m \in Kinds, NEW k \in Room(m) PROVE t.cells[m][k] = 0
    OBVIOUS
  <2>1. m \in DOMAIN J!Cells /\ k \in J!Cells[m]
    BY CellsAre
  <2> QED BY <2>1 DEF J!Untouched
<1>10. Stored(t, c)
  BY <1>2, <1>8, <1>9 DEF Stored, Only
<1>11. Taken(c)
  <2>1. <<>> = [k \in 1 .. 0 |-> PlaceOf(block, k - 1)]
    OBVIOUS
  <2> QED BY <1>2, <1>5, <2>1 DEF Taken
<1>12. Concluded(t, c)
  BY <1>2 DEF Concluded
<1> QED BY <1>6, <1>7, <1>10, <1>11, <1>12 DEF JtagInv

(* The cells before anything is written.                                   *)
LEMMA UntouchedFacts == J!Untouched \in Contents
<1>1. J!Untouched = [m \in Kinds |-> [c \in Room(m) |-> 0]]
  BY CellsAre DEF J!Untouched
<1>2. \A m \in Kinds : [c \in Room(m) |-> 0] \in [Room(m) -> Int]
  OBVIOUS
<1> QED BY <1>1, <1>2 DEF Contents

(* The first states.                                                       *)
LEMMA JtagInit ==
  ASSUME BlockSizes, J!Init
  PROVE  JtagInv(tgt, client)
<1>1. tgt = [instr |-> "UNDEFINED", mod_id |-> "UNDEFINED", cmd |-> J!NoCommand,
             stalled |-> FALSE, cells |-> J!Untouched]
  BY DEF J!Init
<1>2. PICK block \in Blocks : client = J!Client(block, "over", "unknown")
  BY DEF J!Init
<1>3. PICK cs, cm : cs = J!Untouched /\ cm = J!NoCommand
  OBVIOUS
<1>4. cs \in Contents /\ cm \in Commands
  BY <1>3, UntouchedFacts, NoCommandFacts
<1>5. tgt \in Targets /\ tgt.cells = J!Untouched
  BY <1>1, <1>3, <1>4 DEF Targets
<1> QED BY <1>2, <1>5, Begun

(* The client begins a block.                                              *)
LEMMA BeginStep ==
  ASSUME BlockSizes, JtagInv(tgt, client), NEW block \in Blocks, J!Begin(block)
  PROVE  JtagInv(tgt', client')
<1>1. tgt \in Targets /\ client.stall \in {"unknown", "stalled"} /\ Concluded(tgt, client)
  BY InvParts
<1>2. client' = J!Client(block, "moving", client.stall) /\ tgt' = [tgt EXCEPT !.cells = J!Untouched]
  BY DEF J!Begin
<1>3. PICK cs, t2, c2 : cs = J!Untouched /\ t2 = tgt' /\ c2 = client'
  OBVIOUS
<1>4. cs \in Contents
  BY <1>3, UntouchedFacts
<1>5. t2 \in Targets /\ t2.cells = cs /\ t2.stalled = tgt.stalled
  BY <1>1, <1>2, <1>3, <1>4 DEF Targets
<1>6. PICK st \in {"unknown", "stalled"} : st = client.stall
  BY <1>1
<1>7. c2 = J!Client(block, "moving", st)
  BY <1>2, <1>3, <1>6
<1>8. st = "stalled" => t2.stalled
  BY <1>1, <1>5, <1>6 DEF Concluded
<1>9. JtagInv(t2, c2)
  BY <1>3, <1>5, <1>7, <1>8, Begun
<1> QED BY <1>3, <1>9

(* Shifts of the instruction register, and a program that stalls.          *)
LEMMA OtherStep ==
  ASSUME BlockSizes, JtagInv(tgt, client),
         \/ \E instr \in {"DEBUG", "BYPASS"} : J!jtag_shift_ir(instr)
         \/ J!jtag_reset \/ J!or1ksim_run
  PROVE  JtagInv(tgt', client')
<1>1. tgt \in Targets /\ tgt.stalled \in BOOLEAN
  BY InvParts
<1>2. PICK t2 : t2 = tgt'
  OBVIOUS
<1>3. /\ client' = client
      /\ \/ \E instr \in {"DEBUG", "BYPASS", "UNDEFINED"} : t2 = [tgt EXCEPT !.instr = instr]
         \/ t2 = [tgt EXCEPT !.stalled = TRUE]
  BY <1>2 DEF J!jtag_shift_ir, J!jtag_reset, J!or1ksim_run
<1>4. /\ t2 \in Targets /\ t2.mod_id = tgt.mod_id /\ t2.cmd = tgt.cmd /\ t2.cells = tgt.cells
      /\ tgt.stalled => t2.stalled
  BY <1>1, <1>3 DEF Targets
<1>5. JtagInv(t2, client)
  BY <1>4, SameClient
<1> QED BY <1>2, <1>3, <1>5

(* Every step.                                                             *)
LEMMA JtagStep ==
  ASSUME BlockSizes, JtagInv(tgt, client), [J!Next]_J!vars
  PROVE  JtagInv(tgt', client')
<1>1. CASE UNCHANGED J!vars
  BY <1>1 DEF J!vars
<1>2. CASE J!Next
  <2>1. ASSUME NEW block \in Blocks, J!Begin(block) PROVE JtagInv(tgt', client')
    BY <2>1, BeginStep
  <2>2. CASE \/ \E instr \in {"DEBUG", "BYPASS"} : J!jtag_shift_ir(instr)
             \/ J!jtag_reset \/ J!or1ksim_run
    BY <2>2, OtherStep
  <2>3. ASSUME NEW wire \in J!Wires, NEW read \in BOOLEAN, J!SelectModule(wire, read)
        PROVE  JtagInv(tgt', client')
    BY <2>3, SelectStep
  <2>4. ASSUME NEW wire \in J!Wires, NEW read \in BOOLEAN, J!WriteCommand(wire, read)
        PROVE  JtagInv(tgt', client')
    BY <2>4, WriteCommandStep
  <2>5. ASSUME NEW wire \in J!Wires, NEW read \in BOOLEAN, J!ReadCommand(wire, read)
        PROVE  JtagInv(tgt', client')
    BY <2>5, ReadCommandStep
  <2>6. ASSUME NEW wire \in J!Wires, NEW read \in BOOLEAN, NEW n \in (J!Blk.size - 1) .. (J!Blk.size + 1),
               J!GoCommand(n, wire, read)
        PROVE  JtagInv(tgt', client')
    BY <2>6, GoStep
  <2>7. ASSUME NEW wire \in J!Wires, NEW read \in BOOLEAN, J!ReadControl(wire, read)
        PROVE  JtagInv(tgt', client')
    BY <2>7, ReadControlStep
  <2>8. ASSUME NEW wire \in J!Wires, NEW read \in BOOLEAN, NEW reset \in BOOLEAN, NEW stall \in BOOLEAN,
               NEW caught \in BOOLEAN, J!WriteControl(reset, stall, caught, wire, read)
        PROVE  JtagInv(tgt', client')
    BY <2>8, WriteControlStep
  <2> QED BY <1>2, <2>1, <2>2, <2>3, <2>4, <2>5, <2>6, <2>7, <2>8 DEF J!Next
<1> QED BY <1>1, <1>2

(* Whether a block is supported, as the interface decides it.              *)
LEMMA SupportedFits ==
  ASSUME BlockSizes, client.b \in Blocks
  PROVE  J!Supported <=> Fits(client.b)
<1>1. PICK a : a = J!Accepted(client.b.mod, J!Command(client.b.write, client.b.width, AddrOf(client.b, 0), client.b.size))
  OBVIOUS
<1>2. Answers(client.b, 0, a)
  BY <1>1, AcceptedFacts
<1>3. J!Supported <=> a.write_defined_p
  BY <1>1 DEF J!Supported, J!Sent, J!Blk, J!Addr, AddrOf
<1> QED BY <1>2, <1>3, NoCommandFacts DEF Answers, IsFor

(* The invariant gives ClientInformed,                                     *)
LEMMA InvMeansInformed ==
  ASSUME BlockSizes, JtagInv(tgt, client)
  PROVE  J!ClientInformed
<1>1. client.b \in Blocks /\ Concluded(tgt, client)
  BY InvParts
<1>2. J!Supported <=> Fits(client.b)
  BY <1>1, SupportedFits
<1>3. ASSUME Outside(client.b) PROVE J!Blk.mod = "WISHBONE" /\ ~ J!InMemory
  <2>1. client.b.mod = "WISHBONE"
    BY <1>3 DEF Outside
  <2>2. PICK k \in Chunks(client.b, client.b.chunks) : PlaceOf(client.b, k) \notin Room("WISHBONE")
    BY <1>3 DEF Outside
  <2>3. k \in 0 .. J!Blk.size * J!Blk.chunks - 1
    <3>1. PICK z \in Nat, n \in Nat : z = client.b.size /\ n = client.b.chunks
      BY <1>1, BlockFacts
    <3>2. n * z = z * n
      OBVIOUS
    <3>3. k \in 0 .. n * z - 1
      BY <3>1 DEF Chunks
    <3> QED BY <3>1, <3>2, <3>3 DEF J!Blk
  <2>4. J!Place(k) = PlaceOf(client.b, k)
    BY DEF J!Place, J!Blk, PlaceOf
  <2> QED BY <2>1, <2>2, <2>3, <2>4, CellsAre DEF J!InMemory, J!Blk
<1>4. J!RefusedRightly
  BY <1>1, <1>2, <1>3 DEF J!RefusedRightly, Concluded
<1>5. J!KnownStalled
  BY <1>1 DEF J!KnownStalled, Concluded
<1> QED BY <1>4, <1>5 DEF J!ClientInformed

(* The bytes of a block, counted in either order.                          *)
LEMMA BytesOf ==
  ASSUME BlockSizes, NEW b \in Blocks
  PROVE  b.size * b.chunks \in Nat /\ Chunks(b, b.chunks) = 0 .. b.size * b.chunks - 1
<1>1. PICK z \in Nat, n \in Nat : z = b.size /\ n = b.chunks
  BY BlockFacts
<1>2. n * z = z * n /\ z * n \in Nat
  OBVIOUS
<1> QED BY <1>1, <1>2 DEF Chunks

(* TypeOK,                                                                 *)
LEMMA InvMeansTypes ==
  ASSUME BlockSizes, JtagInv(tgt, client)
  PROVE  J!TypeOK
<1>1. /\ tgt \in Targets /\ client.b \in Blocks /\ client.pos \in Nat /\ client.pos <= client.b.chunks
      /\ Linked(tgt, client) /\ Stored(tgt, client) /\ tgt.cmd \in Commands
  BY InvParts
<1>2. PICK u \in Nat : u = client.b.size * client.b.chunks /\ Chunks(client.b, client.b.chunks) = 0 .. u - 1
  BY <1>1, BytesOf
<1>3. /\ tgt.instr \in {"UNDEFINED", "DEBUG", "BYPASS"}
      /\ tgt.mod_id \in J!Modules \cup {"UNDEFINED"} /\ tgt.stalled \in BOOLEAN
  BY <1>1 DEF Targets
<1>4. \A m \in DOMAIN J!Cells : \A c \in J!Cells[m] : tgt.cells[m][c] \in J!Zero .. J!Blk.size * J!Blk.chunks
  <2> SUFFICES ASSUME NEW m \in Kinds, NEW c \in Room(m) PROVE tgt.cells[m][c] \in -1 .. u
    BY <1>2, CellsAre DEF J!Zero, J!Blk
  <2>1. CASE tgt.cells[m][c] = 0
    BY <2>1
  <2>2. CASE tgt.cells[m][c] # 0
    <3>1. PICK k \in 0 .. u - 1 : tgt.cells[m][c] \in {k + 1, -1}
      BY <1>1, <1>2, <2>2 DEF Stored, Only, Own, J!Zero
    <3> QED BY <3>1
  <2> QED BY <2>1, <2>2
<1>5. client.pos \in 0 .. J!Blk.chunks
  BY <1>1, BlockFacts DEF J!Blk
<1>6. ASSUME client.cmd, tgt.cmd.write_defined_p
      PROVE  J!IsAt(tgt.cmd, client.pos) \/ J!IsAt(tgt.cmd, client.pos + 1)
  <2>2. IsFor(client.b, tgt.cmd, client.pos) \/ IsFor(client.b, tgt.cmd, client.pos + 1)
    BY <1>1, <1>6, NoCommandFacts DEF Linked
  <2>3. PICK v \in Commands, p \in Nat, q \in Nat : v = tgt.cmd /\ p = client.pos /\ q = client.pos + 1
    BY <1>1
  <2>4. v.write_defined_p = TRUE
    BY <1>6, <2>3 DEF Commands
  <2>5. J!IsAt(v, p) <=> IsFor(client.b, v, p)
    BY <1>1, <2>4, IsAtFacts
  <2>6. J!IsAt(v, q) <=> IsFor(client.b, v, q)
    BY <1>1, <2>4, IsAtFacts
  <2> QED BY <2>2, <2>3, <2>5, <2>6
<1> QED BY <1>3, <1>4, <1>5, <1>6 DEF J!TypeOK

(* and BlocksExact.                                                        *)
LEMMA InvMeansExact ==
  ASSUME BlockSizes, JtagInv(tgt, client)
  PROVE  J!BlocksExact
<1>1. /\ client.b \in Blocks /\ client.pos \in Nat /\ client.pos <= client.b.chunks
      /\ Stored(tgt, client) /\ Taken(client) /\ Concluded(tgt, client)
  BY InvParts
<1>2. PICK b \in Blocks : b = client.b
  BY <1>1
<1>3. PICK u \in Nat : u = b.size * b.chunks /\ Chunks(b, b.chunks) = 0 .. u - 1
  BY BytesOf
<1>4. PICK y \in Nat : y = client.pos * b.size /\ Chunks(b, client.pos) = 0 .. y - 1
  <2>1. client.pos * b.size \in Nat
    BY <1>1, ChunkFacts
  <2> QED BY <2>1 DEF Chunks
<1>5. \A k : J!Place(k) = PlaceOf(b, k)
  BY <1>2 DEF J!Place, J!Blk, PlaceOf
<1>6. ASSUME NEW m \in Kinds, NEW c \in Room(m), NEW k \in 0 .. u - 1, b.write, m = b.mod, PlaceOf(b, k) = c, k < y
      PROVE  tgt.cells[m][c] = k + 1
  <2>1. k \in Chunks(b, client.pos)
    BY <1>4, <1>6
  <2> QED BY <1>1, <1>2, <1>6, <2>1 DEF Stored, Held
<1>7. ASSUME NEW m \in Kinds, NEW c \in Room(m), tgt.cells[m][c] # 0
      PROVE  /\ Fits(b) /\ b.write /\ m = b.mod
             /\ \E k \in 0 .. u - 1 : /\ PlaceOf(b, k) = c /\ k < (client.pos + 1) * b.size
                                      /\ tgt.cells[m][c] \in {k + 1, J!Zero}
  BY <1>1, <1>2, <1>3, <1>7 DEF Stored, Only, Own
<1>8. J!WriteExact
  <2> SUFFICES ASSUME NEW m \in Kinds, NEW c \in Room(m)
               PROVE  LET v == tgt.cells[m][c]
                          mine == {k \in 0 .. u - 1 : b.write /\ m = b.mod /\ PlaceOf(b, k) = c}
                      IN  /\ \A k \in mine : k < y => v = k + 1
                          /\ v # 0 => /\ \E k \in mine : k < (client.pos + 1) * b.size /\ v \in {k + 1, J!Zero}
                                      /\ client.at # "refused"
    BY <1>2, <1>3, <1>4, <1>5, CellsAre DEF J!WriteExact, J!Blk
  <2>1. Fits(b) => client.at # "refused"
    BY <1>1, <1>2 DEF Concluded
  <2> QED BY <1>6, <1>7, <2>1
<1>9. J!ReadExact
  BY <1>1, <1>2, <1>5 DEF J!ReadExact, Taken, J!Blk
<1> QED BY <1>8, <1>9, InvMeansTypes DEF J!BlocksExact

(* Blocks are moved exactly through the JTAG interface, whatever the wire  *)
(* spoils, whatever command an earlier block left and wherever the client  *)
(* stops (BlocksExact): go_command advances the address only with a chunk  *)
(* that is there.                                                          *)
THEOREM BlocksAreExact ==
  ASSUME BlockSizes
  PROVE  J!Spec => []J!BlocksExact
<1>1. J!Init => JtagInv(tgt, client)
  BY JtagInit
<1>2. JtagInv(tgt, client) /\ [J!Next]_J!vars => JtagInv(tgt, client)'
  BY JtagStep
<1>3. JtagInv(tgt, client) => J!BlocksExact
  BY InvMeansExact
<1> QED BY <1>1, <1>2, <1>3, PTL DEF J!Spec

(* What the client concludes is so (ClientInformed): a block is refused    *)
(* only if its module does not support it, ends in an error only if it is  *)
(* not in memory, and a processor known to be stalled is stalled.          *)
THEOREM JtagClientIsInformed ==
  ASSUME BlockSizes
  PROVE  J!Spec => []J!ClientInformed
<1>1. J!Init => JtagInv(tgt, client)
  BY JtagInit
<1>2. JtagInv(tgt, client) /\ [J!Next]_J!vars => JtagInv(tgt, client)'
  BY JtagStep
<1>3. JtagInv(tgt, client) => J!ClientInformed
  BY InvMeansInformed
<1> QED BY <1>1, <1>2, <1>3, PTL DEF J!Spec

=============================================================================
