---------------------------- MODULE SchedProofs -----------------------------
(***************************************************************************)
(* Proofs about Sched for every set of jobs, every heap size and every     *)
(* choice of delays.                                                       *)
(***************************************************************************)
EXTENDS Sched, SchedOpsProofs, FiniteSetTheorems, FunctionTheorems

-----------------------------------------------------------------------------
(* The queue sim_reset leaves: the guard and one check_int.                *)
LEMMA AfterResetFacts ==
  /\ AfterReset \in Queues(AllJobs) /\ Len(AfterReset) = 2
  /\ IsQueued(AfterReset, sched_guard) /\ IsQueued(AfterReset, check_int)
  /\ NonHeadOK(AfterReset)
  /\ AfterReset[1] = Entry(check_int, 1)
  /\ AfterReset[2] = Entry(sched_guard, SCHED_TIME_MAX - 1)
  /\ DueIn(AfterReset, 1) = 1 /\ DueIn(AfterReset, 2) = SCHED_TIME_MAX
<1>1. check_int \in AllJobs /\ sched_guard \in AllJobs
  BY DEF AllJobs
<1>2. /\ AfterReset \in Queues(AllJobs) /\ Len(AfterReset) = 2 /\ NonHeadOK(AfterReset)
      /\ AfterReset[1] = Entry(check_int, 1)
      /\ AfterReset[2] = Entry(sched_guard, SCHED_TIME_MAX - 1)
      /\ DueIn(AfterReset, 1) = 1 /\ DueIn(AfterReset, 2) = SCHED_TIME_MAX
  <2>1. PICK t : t = 1
    OBVIOUS
  <2>2. GuardOnly = << Entry(sched_guard, SCHED_TIME_MAX) >> /\ AfterReset = sched_add(GuardOnly, check_int, t)
    BY <2>1 DEF AfterReset, GuardOnly
  <2> QED BY <1>1, <2>1, <2>2, SchedConstants, ResetQueue
<1>3. AfterReset[1].job = check_int /\ AfterReset[2].job = sched_guard
  BY <1>2 DEF Entry
<1> QED BY <1>2, <1>3 DEF IsQueued

-----------------------------------------------------------------------------
(* The inductive invariant: the queue always holds the guard and, except   *)
(* while its function runs, check_int.                                     *)
IndInv == TypeOK /\ NoLeak /\ OnlyHeadLate /\ GuardQueued /\ CheckIntQueued

(* The queue that sim_init leaves satisfies IndInv.                        *)
LEMMA InitIndInv == Init => IndInv
<1> SUFFICES ASSUME Init PROVE IndInv
  OBVIOUS
<1>1. queue = AfterReset /\ free = SCHED_HEAP_SIZE - 2 /\ phase = "insn"
  BY DEF Init
<1>2. TypeOK
  BY <1>1, AfterResetFacts, SchedConstants DEF TypeOK, Queues, Entries
<1> QED
  BY <1>1, <1>2, AfterResetFacts, SchedConstants
  DEF IndInv, NoLeak, OnlyHeadLate, NonHeadOK, GuardQueued, CheckIntQueued

(* What IndInv says of the state, in the form the lemmas above use.        *)
LEMMA IndInvFacts ==
  ASSUME IndInv
  PROVE  /\ queue \in Queues(AllJobs) /\ queue # << >> /\ Len(queue) \in Nat /\ Len(queue) >= 1
         /\ free \in Nat /\ Len(queue) + free = SCHED_HEAP_SIZE
         /\ NonHeadOK(queue)
         /\ IsQueued(queue, sched_guard)
         /\ phase # check_int => IsQueued(queue, check_int) /\ Len(queue) >= 2
         /\ phase \in {"insn", "restart", "drain", check_int} \cup Jobs
<1>1. queue \in Queues(AllJobs) /\ free \in Nat /\ Len(queue) \in Nat
  BY SchedConstants DEF IndInv, TypeOK, Queues, Entries
<1>2. PICK g \in 1..Len(queue) : queue[g].job = sched_guard
  BY DEF IndInv, GuardQueued, IsQueued
<1>3. ASSUME phase # check_int
      PROVE  IsQueued(queue, check_int) /\ Len(queue) >= 2
  <2>1. PICK c \in 1..Len(queue) : queue[c].job = check_int
    BY <1>3 DEF IndInv, CheckIntQueued, IsQueued
  <2>2. c # g
    BY <1>2, <2>1, SchedConstants
  <2> QED BY <1>1, <2>1, <2>2 DEF IsQueued
<1>4. queue # << >> /\ Len(queue) >= 1
  BY <1>1, <1>2
<1> QED BY <1>1, <1>3, <1>4 DEF IndInv, TypeOK, NoLeak, OnlyHeadLate, NonHeadOK, GuardQueued

(* And what it takes to establish it after a step.                         *)
LEMMA IndInvFromFacts ==
  ASSUME queue' \in Queues(AllJobs), free' \in Nat,
         Len(queue') + free' = SCHED_HEAP_SIZE,
         NonHeadOK(queue'), IsQueued(queue', sched_guard),
         phase' = check_int \/ IsQueued(queue', check_int),
         phase' \in {"insn", "restart", "drain", check_int} \cup Jobs
  PROVE  IndInv'
<1>1. Len(queue') \in Nat /\ free' \in 0..SCHED_HEAP_SIZE
  BY SchedConstants
<1>2. TypeOK'
  BY <1>1 DEF TypeOK, Queues, Entries
<1> QED BY <1>2 DEF IndInv, NoLeak, OnlyHeadLate, NonHeadOK, GuardQueued, CheckIntQueued

(* Adding a job other than by check_int's own function.                    *)
LEMMA AddStep ==
  ASSUME IndInv, free > 0, NEW job \in AllJobs, NEW t \in Int,
         queue' = sched_add(queue, job, t), free' = free - 1, phase' = phase
  PROVE  IndInv'
<1>1. /\ queue' \in Queues(AllJobs) /\ Len(queue') = Len(queue) + 1
      /\ \A j \in AllJobs : IsQueued(queue, j) => IsQueued(queue', j)
      /\ NonHeadOK(queue')
  BY IndInvFacts, AddFacts DEF OthersSame
<1>2. sched_guard \in AllJobs /\ check_int \in AllJobs
  BY DEF AllJobs
<1>3. free' \in Nat /\ Len(queue') + free' = SCHED_HEAP_SIZE
  BY <1>1, IndInvFacts
<1> QED BY <1>1, <1>2, <1>3, IndInvFacts, IndInvFromFacts

(* The loop test of exec_main and do_scheduler leads to the next           *)
(* instruction or to another job.                                          *)
LEMMA LoopTestPhase ==
  ASSUME NEW q PROVE LoopTest(q) \in {"insn", "drain"}
BY DEF LoopTest

(* Every step of the scheduler and of its callers preserves IndInv.        *)
LEMMA NextIndInv == IndInv /\ [Next]_vars => IndInv'
<1> SUFFICES ASSUME IndInv, [Next]_vars PROVE IndInv'
  OBVIOUS
<1> USE IndInvFacts, SchedConstants
<1>a. sched_guard \in AllJobs /\ check_int \in AllJobs /\ Jobs \subseteq AllJobs
  BY DEF AllJobs
<1>1. CASE UNCHANGED vars
  BY <1>1 DEF vars, IndInv, TypeOK, NoLeak, OnlyHeadLate, GuardQueued, CheckIntQueued
<1>2. ASSUME NEW job \in Jobs \ NextJobs, NEW t \in InsnDelays \cup JobDelays, SchedAdd(job, t)
      PROVE  IndInv'
  <2>1. t \in Int /\ job \in AllJobs
    BY <1>a
  <2> QED BY <1>2, <2>1, AddStep DEF SchedAdd
<1>3. ASSUME NEW job \in NextJobs, SchedNextInsn(job)
      PROVE  IndInv'
  <2>1. 1 - AllTime(queue)[NegRun(queue)] \in Int /\ job \in AllJobs
    BY <1>a, NegRunExists
  <2> QED BY <1>3, <2>1, AddStep DEF SchedNextInsn, sched_next_insn
<1>4. ASSUME NEW job \in Jobs, SchedFindRemove(job)
      PROVE  IndInv'
  <2>1. IsQueued(queue, job) /\ queue' = UnlinkAt(queue, FirstOf(queue, job))
          /\ free' = free + 1 /\ phase' = phase
    BY <1>4 DEF SchedFindRemove, sched_find_remove
  <2>2. FirstOf(queue, job) \in 1..Len(queue) /\ queue[FirstOf(queue, job)].job = job
    BY <2>1, FirstOfExists
  <2>3. /\ queue' \in Queues(AllJobs) /\ Len(queue') = Len(queue) - 1 /\ NonHeadOK(queue')
        /\ \A j \in AllJobs : IsQueued(queue, j) /\ job # j => IsQueued(queue', j)
    BY <2>1, <2>2, UnlinkFacts DEF OthersSame
  <2>4. free' \in Nat /\ Len(queue') + free' = SCHED_HEAP_SIZE
    BY <2>1, <2>3
  <2> QED BY <2>1, <2>3, <2>4, <1>a, IndInvFromFacts
<1>5. ASSUME NEW n \in 0..MaxCycles, Clock(n)
      PROVE  IndInv'
  <2>1. n \in Int /\ queue' = Elapse(queue, n) /\ free' = free /\ phase = "insn"
          /\ phase' \in {"insn", "drain"}
    BY <1>5, LoopTestPhase DEF Clock
  <2>2. /\ queue' \in Queues(AllJobs) /\ Len(queue') = Len(queue) /\ NonHeadOK(queue')
        /\ \A j \in AllJobs : IsQueued(queue, j) => IsQueued(queue', j)
    BY <2>1, ElapseFacts, ElapseJobs
  <2>3. phase # check_int
    BY <2>1, <1>a
  <2> QED BY <2>1, <2>2, <2>3, <1>a, IndInvFromFacts
<1>6. CASE RunJob
  <2>1. /\ queue[1].job # sched_guard /\ queue' = UnlinkAt(queue, 1) /\ free' = free + 1
        /\ phase = "drain" /\ phase' = queue[1].job
    BY <1>6 DEF RunJob, PopHead
  <2>2. 1 \in 1..Len(queue) /\ queue[1].job \in AllJobs /\ phase # check_int
    BY <2>1, <1>a, EntryType
  <2>3. /\ queue' \in Queues(AllJobs) /\ Len(queue') = Len(queue) - 1 /\ NonHeadOK(queue')
        /\ \A j \in AllJobs : IsQueued(queue, j) /\ queue[1].job # j => IsQueued(queue', j)
    BY <2>1, <2>2, UnlinkFacts DEF OthersSame
  <2>4. free' \in Nat /\ Len(queue') + free' = SCHED_HEAP_SIZE
    BY <2>1, <2>3
  <2>5. phase' \in {"insn", "restart", "drain", check_int} \cup Jobs
    BY <2>1, <2>2 DEF AllJobs
  <2> QED BY <2>1, <2>2, <2>3, <2>4, <2>5, <1>a, IndInvFromFacts
<1>7. CASE RunGuard
  <2> DEFINE q == UnlinkAt(queue, 1)
  <2>1. /\ queue[1].job = sched_guard /\ queue' = sched_add(q, sched_guard, SCHED_TIME_MAX)
        /\ free' = free /\ phase = "drain" /\ phase' \in {"insn", "drain"}
    BY <1>7, LoopTestPhase DEF RunGuard, PopHead
  <2>2. 1 \in 1..Len(queue) /\ phase # check_int
    BY <2>1, <1>a
  <2>3. /\ q \in Queues(AllJobs) /\ Len(q) = Len(queue) - 1 /\ NonHeadOK(q)
        /\ \A j \in AllJobs : IsQueued(queue, j) /\ queue[1].job # j => IsQueued(q, j)
    BY <2>1, <2>2, UnlinkFacts DEF OthersSame
  <2>4. Len(q) >= 1 /\ IsQueued(q, check_int)
    BY <2>1, <2>2, <2>3, <1>a
  <2> HIDE DEF q
  <2>5. q # << >> /\ SCHED_TIME_MAX \in Int
    BY <2>3, <2>4
  <2>6. /\ queue' \in Queues(AllJobs) /\ Len(queue') = Len(q) + 1 /\ NonHeadOK(queue')
        /\ IsQueued(queue', sched_guard)
        /\ \A j \in AllJobs : IsQueued(q, j) => IsQueued(queue', j)
    BY <2>1, <2>3, <2>5, <1>a, AddFacts DEF OthersSame
  <2>7. free' \in Nat /\ Len(queue') + free' = SCHED_HEAP_SIZE
    BY <2>1, <2>3, <2>6
  <2> QED BY <2>1, <2>4, <2>6, <2>7, <1>a, IndInvFromFacts
<1>8. CASE EndJob
  <2>1. queue' = queue /\ free' = free /\ phase' \in {"insn", "drain"} /\ phase \in Jobs
    BY <1>8, LoopTestPhase DEF EndJob
  <2>2. phase # check_int
    BY <2>1
  <2> QED BY <2>1, <2>2, IndInvFromFacts
<1>9. CASE EndCheckInt
  <2>1. /\ queue' = sched_add(queue, check_int, CHECK_INT_TIME) /\ free > 0 /\ free' = free - 1
        /\ phase' \in {"insn", "drain"} /\ CHECK_INT_TIME \in Int
    BY <1>9, LoopTestPhase DEF EndCheckInt
  <2>2. /\ queue' \in Queues(AllJobs) /\ Len(queue') = Len(queue) + 1 /\ NonHeadOK(queue')
        /\ IsQueued(queue', check_int)
        /\ \A j \in AllJobs : IsQueued(queue, j) => IsQueued(queue', j)
    BY <2>1, <1>a, AddFacts DEF OthersSame
  <2>3. free' \in Nat /\ Len(queue') + free' = SCHED_HEAP_SIZE
    BY <2>1, <2>2
  <2> QED BY <2>1, <2>2, <2>3, <1>a, IndInvFromFacts
<1>10. CASE Reset
  <2>1. queue' = AfterReset /\ free' = free + Len(queue) - 2 /\ phase' = phase
    BY <1>10 DEF Reset
  <2>2. free' \in Nat /\ Len(queue') + free' = SCHED_HEAP_SIZE
    BY <2>1, AfterResetFacts
  <2> QED BY <2>1, <2>2, AfterResetFacts, IndInvFromFacts
<1>11. CASE ResetInLoop
  <2>1. queue' = AfterReset /\ free' = free + Len(queue) - 2 /\ phase' = "restart"
    BY <1>11 DEF ResetInLoop
  <2>2. free' \in Nat /\ Len(queue') + free' = SCHED_HEAP_SIZE
    BY <2>1, AfterResetFacts
  <2> QED BY <2>1, <2>2, AfterResetFacts, IndInvFromFacts
<1>12. ASSUME NEW past \in 0..MaxPast, NEW n \in 0..MaxCycles, ClockAfterReset(past, n)
       PROVE  IndInv'
  <2>1. n - past \in Int /\ queue' = Elapse(queue, n - past) /\ free' = free /\ phase = "restart"
          /\ phase' \in {"insn", "drain"}
    BY <1>12, LoopTestPhase DEF ClockAfterReset
  <2>2. /\ queue' \in Queues(AllJobs) /\ Len(queue') = Len(queue) /\ NonHeadOK(queue')
        /\ \A j \in AllJobs : IsQueued(queue, j) => IsQueued(queue', j)
    BY <2>1, ElapseFacts, ElapseJobs
  <2>3. phase # check_int
    BY <2>1, <1>a
  <2> QED BY <2>1, <2>2, <2>3, <1>a, IndInvFromFacts
<1> QED
  BY <1>1, <1>2, <1>3, <1>4, <1>5, <1>6, <1>7, <1>8, <1>9, <1>10, <1>11, <1>12 DEF Next

(* IndInv holds in every reachable state.                                  *)
LEMMA IndInvHolds == Spec => []IndInv
BY InitIndInv, NextIndInv, PTL DEF Spec

(* Every reachable state of the scheduler is well typed: queue entries are *)
(* (job, integer) pairs, and the free list neither underflows nor grows    *)
(* beyond the allocated heap.                                              *)
THEOREM TypeCorrect == Spec => []TypeOK
<1>1. IndInv => TypeOK
  BY DEF IndInv
<1> QED BY <1>1, IndInvHolds, PTL

(* No entry of the heap is lost or duplicated by sched_add,                *)
(* sched_find_remove, do_scheduler and sched_reset.                        *)
THEOREM NoEntryLeaks == Spec => []NoLeak
<1>1. IndInv => NoLeak
  BY DEF IndInv
<1> QED BY <1>1, IndInvHolds, PTL

(* The delta of an entry behind the head is never negative, whatever       *)
(* job_time values sched_add is given.                                     *)
THEOREM OnlyTheHeadIsLate == Spec => []OnlyHeadLate
<1>1. IndInv => OnlyHeadLate
  BY DEF IndInv
<1> QED BY <1>1, IndInvHolds, PTL

(* do_scheduler never pops the last entry, so it never follows the null    *)
(* pointer behind it.                                                      *)
THEOREM PopIsSafe == Spec => []PopSafe
<1>1. IndInv => PopSafe
  <2> SUFFICES ASSUME IndInv, phase = "drain" PROVE Len(queue) >= 2
    BY DEF PopSafe
  <2>1. phase # check_int
    BY SchedConstants DEF AllJobs
  <2> QED BY <2>1, IndInvFacts
<1> QED BY <1>1, IndInvHolds, PTL

-----------------------------------------------------------------------------
(* When do_scheduler hands control back to the execution loop, no job of   *)
(* the whole queue is due, although its loop tests the head alone.         *)
THEOREM NothingIsLeftDue == Spec => NothingLeftDue
<1> DEFINE Drained == (phase # "insn" /\ phase' = "insn")
                        => \A i \in 1..Len(queue') : DueIn(queue', i) > 0
<1>1. IndInv /\ IndInv' /\ Next => Drained
  <2> SUFFICES ASSUME IndInv, IndInv', Next, phase # "insn", phase' = "insn"
               PROVE  \A i \in 1..Len(queue') : DueIn(queue', i) > 0
    OBVIOUS
  <2>1. queue' \in Queues(AllJobs) /\ NonHeadOK(queue') /\ Len(queue') >= 1
    <3>1. queue' \in Queues(AllJobs) /\ Len(queue') \in Nat
      BY DEF IndInv, TypeOK, Queues, Entries
    <3>2. \E g \in 1..Len(queue') : queue'[g].job = sched_guard
      BY DEF IndInv, GuardQueued, IsQueued
    <3> QED BY <3>1, <3>2 DEF IndInv, OnlyHeadLate, NonHeadOK
  <2>2. phase' = LoopTest(queue')
    <3>1. CASE RunJob
      <4>1. queue[1].job \in AllJobs
        BY IndInvFacts, EntryType
      <4> QED BY <3>1, <4>1, SchedConstants DEF RunJob
    <3>2. CASE RunGuard
      BY <3>2 DEF RunGuard
    <3>3. CASE EndJob
      BY <3>3 DEF EndJob
    <3>4. CASE EndCheckInt
      BY <3>4 DEF EndCheckInt
    <3>5. CASE \E past \in 0..MaxPast, n \in 0..MaxCycles : ClockAfterReset(past, n)
      BY <3>5 DEF ClockAfterReset
    <3> QED
      BY <3>1, <3>2, <3>3, <3>4, <3>5
      DEF Next, SchedAdd, SchedNextInsn, SchedFindRemove, Clock, Reset, ResetInLoop
  <2>3. ~ HeadDue(queue')
    BY <2>2 DEF LoopTest
  <2> QED BY <2>1, <2>3, HeadNotDueNoneDue
<1>2. IndInv /\ IndInv' /\ [Next]_vars => [Drained]_vars
  BY <1>1
<1> QED BY <1>2, IndInvHolds, PTL DEF Spec, NothingLeftDue

-----------------------------------------------------------------------------
(* What decoding a queue yields.                                           *)
LEMMA DecodeFacts ==
  ASSUME NEW q \in Queues(AllJobs), NEW p, p = Decode(q)
  PROVE  /\ Len(p) = Len(q) /\ Len(q) \in Nat
         /\ \A k \in 1..Len(q) : /\ p[k].job = q[k].job /\ p[k].left = DueIn(q, k)
                                 /\ p[k].left \in Int
                                 /\ p[k] = Abs!Pending(q[k].job, DueIn(q, k))
<1>1. Len(q) \in Nat
  BY EntryType
<1>2. p = [k \in 1..Len(q) |-> [job |-> q[k].job, left |-> DueIn(q, k)]]
  BY DEF Decode
<1>3. \A k \in 1..Len(q) : k \in 0..Len(q) /\ DueIn(q, k) \in Int
  BY <1>1, AllTimeUnfolds DEF DueIn
<1>4. Len(p) = Len(q)
  BY <1>1, <1>2
<1> QED BY <1>1, <1>2, <1>3, <1>4 DEF Abs!Pending

(* The walk of sched_add stops where the abstract list has the new job.    *)
LEMMA PlaceIsInsertPos ==
  ASSUME NEW q \in Queues(AllJobs), NEW t \in Int, NEW p, p = Decode(q)
  PROVE  Abs!Place(p, t) = InsertPos(q, t)
<1> DEFINE P(i) == /\ \A j \in 1..(i - 1) : p[j].left < t
                   /\ i <= Len(p) => p[i].left >= t
<1>1. /\ Len(p) = Len(q) /\ Len(q) \in Nat
      /\ \A k \in 1..Len(q) : p[k].left = DueIn(q, k) /\ p[k].left \in Int
  BY DecodeFacts
<1>2. \A k \in 1..Len(q) : DueIn(q, k) = AllTime(q)[k - 1] + q[k].time
  BY AllTimeUnfolds DEF DueIn
<1>3. \A i \in 1..(Len(q) + 1) : P(i) <=> IsInsertPos(q, t, i)
  <2> SUFFICES ASSUME NEW i \in 1..(Len(q) + 1) PROVE P(i) <=> IsInsertPos(q, t, i)
    OBVIOUS
  <2>1. \A j \in 1..(i - 1) : /\ j \in 1..Len(q)
                              /\ p[j].left < t <=> ~ (AllTime(q)[j - 1] + q[j].time >= t)
    BY <1>1, <1>2
  <2>2. i <= Len(q) => i \in 1..Len(q) /\ p[i].left = AllTime(q)[i - 1] + q[i].time
    BY <1>1, <1>2
  <2> QED BY <1>1, <2>1, <2>2 DEF IsInsertPos
<1>4. InsertPos(q, t) \in 1..(Len(q) + 1) /\ P(InsertPos(q, t))
  <2>1. InsertPos(q, t) \in 1..(Len(q) + 1) /\ IsInsertPos(q, t, InsertPos(q, t))
    BY InsertPosExists
  <2> HIDE DEF P
  <2> QED BY <1>3, <2>1
<1>5. ASSUME NEW i \in 1..(Len(q) + 1), NEW k \in 1..(Len(q) + 1), P(i), P(k), i < k
      PROVE  FALSE
  <2>1. i \in 1..(k - 1) /\ i \in 1..Len(q) /\ i <= Len(p)
    BY <1>1, <1>5
  <2>2. p[i].left < t /\ p[i].left >= t /\ p[i].left \in Int
    BY <1>1, <1>5, <2>1
  <2> QED BY <2>2
<1>6. Abs!Place(p, t) \in 1..(Len(q) + 1) /\ P(Abs!Place(p, t))
  <2>1. Abs!Place(p, t) = CHOOSE i \in 1..(Len(q) + 1) : P(i)
    BY <1>1 DEF Abs!Place
  <2> HIDE DEF P
  <2> QED BY <1>4, <2>1
<1> HIDE DEF P
<1> QED BY <1>1, <1>4, <1>5, <1>6

(* sched_add adds the job to the abstract list.                            *)
LEMMA DecodeAdd ==
  ASSUME NEW q \in Queues(AllJobs), Len(q) >= 1, NEW job \in AllJobs, NEW t \in Int
  PROVE  Decode(sched_add(q, job, t)) = Abs!Add(Decode(q), job, t)
<1> DEFINE r == sched_add(q, job, t)
           p == Decode(q)
           i == InsertPos(q, t)
<1>1. r \in Queues(AllJobs) /\ Gains(q, r, i) /\ r[i].job = job /\ DueIn(r, i) = AddedDue(q, t)
  BY AddGains
<1>2. Abs!Place(p, t) = i
  BY PlaceIsInsertPos
<1>3. /\ Len(p) = Len(q) /\ Len(q) \in Nat
      /\ \A k \in 1..Len(q) : /\ p[k].left = DueIn(q, k)
                              /\ p[k] = Abs!Pending(q[k].job, DueIn(q, k))
  BY DecodeFacts
<1>4. Abs!Left(p, t) = AddedDue(q, t)
  <2>1. 1 \in 1..Len(q) /\ 1 - 1 = 0
    BY <1>3
  <2>2. DueIn(q, 1) = AllTime(q)[0] + q[1].time /\ AllTime(q)[0] = 0 /\ q[1].time \in Int
    BY <2>1, AllTimeUnfolds, EntryType DEF DueIn
  <2>3. p[1].left = q[1].time
    BY <1>3, <2>1, <2>2
  <2> HIDE DEF p, i
  <2> QED BY <1>2, <2>3 DEF Abs!Left, AddedDue, i
<1>5. Abs!Add(p, job, t) =
        [k \in 1..(Len(q) + 1) |->
           IF k < i THEN p[k] ELSE IF k = i THEN Abs!Pending(job, AddedDue(q, t)) ELSE p[k - 1]]
  BY <1>2, <1>3, <1>4 DEF Abs!Add
<1>6. Decode(r) = [k \in 1..Len(r) |-> Abs!Pending(r[k].job, DueIn(r, k))]
  BY DEF Decode, Abs!Pending
<1> HIDE DEF r, p, i
<1>7. Len(r) = Len(q) + 1 /\ i \in 1..(Len(q) + 1)
  BY <1>1 DEF Gains
<1>8. \A k \in 1..(Len(q) + 1) :
        Abs!Pending(r[k].job, DueIn(r, k)) =
          IF k < i THEN p[k] ELSE IF k = i THEN Abs!Pending(job, AddedDue(q, t)) ELSE p[k - 1]
  <2> SUFFICES ASSUME NEW k \in 1..(Len(q) + 1)
               PROVE  Abs!Pending(r[k].job, DueIn(r, k)) =
                        IF k < i THEN p[k] ELSE IF k = i THEN Abs!Pending(job, AddedDue(q, t))
                        ELSE p[k - 1]
    OBVIOUS
  <2>1. CASE k < i
    <3>1. k \in 1..Len(q)
      BY <1>3, <1>7, <2>1
    <3> QED BY <1>1, <1>3, <2>1, <3>1 DEF Gains
  <2>2. CASE k = i
    BY <1>1, <1>7, <2>2
  <2>3. CASE k > i
    <3>1. k - 1 \in 1..Len(q) /\ k - 1 >= i /\ (k - 1) + 1 = k /\ ~(k < i) /\ k # i
      BY <1>3, <1>7, <2>3
    <3>2. r[k].job = q[k - 1].job /\ DueIn(r, k) = DueIn(q, k - 1)
      BY <1>1, <3>1 DEF Gains
    <3> QED BY <1>3, <3>1, <3>2
  <2> QED BY <1>3, <1>7, <2>1, <2>2, <2>3
<1> QED BY <1>5, <1>6, <1>7, <1>8 DEF r, p

(* Unlinking an entry drops it from the abstract list.                     *)
LEMMA DecodeDrop ==
  ASSUME NEW q \in Queues(AllJobs), NEW i \in 1..Len(q)
  PROVE  Decode(UnlinkAt(q, i)) = Abs!Drop(Decode(q), i)
<1> DEFINE r == UnlinkAt(q, i)
           p == Decode(q)
<1>1. r \in Queues(AllJobs) /\ Gains(r, q, i)
  BY UnlinkGains
<1>2. /\ Len(p) = Len(q) /\ Len(q) \in Nat
      /\ \A k \in 1..Len(q) : p[k] = Abs!Pending(q[k].job, DueIn(q, k))
  BY DecodeFacts
<1>3. Abs!Drop(p, i) = [k \in 1..(Len(q) - 1) |-> IF k < i THEN p[k] ELSE p[k + 1]]
  BY <1>2 DEF Abs!Drop
<1>4. Decode(r) = [k \in 1..Len(r) |-> Abs!Pending(r[k].job, DueIn(r, k))]
  BY DEF Decode, Abs!Pending
<1> HIDE DEF r, p
<1>5. Len(q) = Len(r) + 1 /\ Len(r) \in Nat /\ Len(r) = Len(q) - 1
  BY <1>1, <1>2, EntryType DEF Gains
<1>6. \A k \in 1..Len(r) :
        Abs!Pending(r[k].job, DueIn(r, k)) = IF k < i THEN p[k] ELSE p[k + 1]
  <2> SUFFICES ASSUME NEW k \in 1..Len(r)
               PROVE  Abs!Pending(r[k].job, DueIn(r, k)) = IF k < i THEN p[k] ELSE p[k + 1]
    OBVIOUS
  <2>1. k \in 1..Len(q) /\ k + 1 \in 1..Len(q) /\ (~(k < i) => k >= i)
    BY <1>2, <1>5
  <2> QED BY <1>1, <1>2, <2>1 DEF Gains
<1> QED BY <1>3, <1>4, <1>5, <1>6 DEF r, p

(* Cycles pass for every job of the abstract list.                         *)
LEMMA DecodePass ==
  ASSUME NEW q \in Queues(AllJobs), Len(q) >= 1, NEW n \in Int
  PROVE  Decode(Elapse(q, n)) = Abs!Pass(Decode(q), n)
<1> DEFINE r == Elapse(q, n)
           p == Decode(q)
<1>1. /\ r \in Queues(AllJobs) /\ Len(r) = Len(q)
      /\ \A k \in 1..Len(q) : r[k].job = q[k].job /\ DueIn(r, k) = DueIn(q, k) - n
  BY ElapseFacts
<1>2. /\ Len(p) = Len(q) /\ Len(q) \in Nat
      /\ \A k \in 1..Len(q) : p[k].job = q[k].job /\ p[k].left = DueIn(q, k)
  BY DecodeFacts
<1>3. Abs!Pass(p, n) = [k \in 1..Len(q) |-> Abs!Pending(p[k].job, p[k].left - n)]
  BY <1>2 DEF Abs!Pass
<1>4. Decode(r) = [k \in 1..Len(r) |-> Abs!Pending(r[k].job, DueIn(r, k))]
  BY DEF Decode, Abs!Pending
<1> HIDE DEF r, p
<1> QED BY <1>1, <1>2, <1>3, <1>4 DEF r, p

(* The reset queue, the loop test and the head's lateness have the same    *)
(* meaning on both levels.                                                 *)
LEMMA DecodeReset == Decode(AfterReset) = Abs!Fresh
<1>1. /\ AfterReset \in Queues(AllJobs) /\ Len(AfterReset) = 2
      /\ AfterReset[1] = Entry(check_int, 1)
      /\ AfterReset[2] = Entry(sched_guard, SCHED_TIME_MAX - 1)
      /\ DueIn(AfterReset, 1) = 1 /\ DueIn(AfterReset, 2) = SCHED_TIME_MAX
  BY AfterResetFacts
<1>2. AfterReset[1].job = check_int /\ AfterReset[2].job = sched_guard
  BY <1>1 DEF Entry
<1>3. Decode(AfterReset) = [k \in 1..2 |-> Abs!Pending(AfterReset[k].job, DueIn(AfterReset, k))]
  BY <1>1 DEF Decode, Abs!Pending
<1>4. Decode(AfterReset) = << Abs!Pending(AfterReset[1].job, DueIn(AfterReset, 1)),
                              Abs!Pending(AfterReset[2].job, DueIn(AfterReset, 2)) >>
  BY <1>3
<1> QED BY <1>1, <1>2, <1>4 DEF Abs!Fresh

(* The head of the list is the job that is due first, and do_scheduler     *)
(* returns when the abstract scheduler does.                               *)
LEMMA DecodeHead ==
  ASSUME NEW q \in Queues(AllJobs), Len(q) >= 1
  PROVE  /\ Decode(q)[1].job = q[1].job
         /\ Decode(q)[1].left = q[1].time
         /\ LoopTest(q) = Abs!Return(Decode(q))
         /\ HeadDue(q) <=> Decode(q)[1].left <= 0
         /\ NonHeadOK(q) => 1 - AllTime(q)[NegRun(q)] = 1 + Abs!Lateness(Decode(q))
<1>1. 1 \in 1..Len(q) /\ 1 - 1 = 0
  BY EntryType
<1>2. q[1].time \in Int /\ DueIn(q, 1) = AllTime(q)[0] + q[1].time /\ AllTime(q)[0] = 0
  BY <1>1, AllTimeUnfolds, EntryType DEF DueIn
<1>3. Decode(q)[1].job = q[1].job /\ Decode(q)[1].left = q[1].time
  BY <1>1, <1>2, DecodeFacts
<1>4. NonHeadOK(q) => 1 - AllTime(q)[NegRun(q)] = 1 + Abs!Lateness(Decode(q))
  BY <1>2, <1>3, NegRunIs DEF Abs!Lateness
<1> QED BY <1>3, <1>4 DEF LoopTest, Abs!Return, HeadDue

(* do_scheduler is only at its loop's top while the head is due.           *)
DrainIsDue == phase = "drain" => HeadDue(queue)

(* It is so in every behaviour.                                            *)
LEMMA DrainIsDueHolds == Spec => []DrainIsDue
<1>1. Init => DrainIsDue
  BY DEF Init, DrainIsDue
<1>2. IndInv /\ DrainIsDue /\ [Next]_vars => DrainIsDue'
  <2> SUFFICES ASSUME IndInv, DrainIsDue, [Next]_vars PROVE DrainIsDue'
    OBVIOUS
  <2>1. CASE UNCHANGED vars
    BY <2>1 DEF vars, DrainIsDue
  <2>2. CASE RunJob
    <3>1. queue[1].job \in AllJobs
      BY IndInvFacts, EntryType
    <3> QED BY <2>2, <3>1, SchedConstants DEF RunJob, DrainIsDue
  <2>3. CASE EndJob \/ EndCheckInt \/ RunGuard
    BY <2>3 DEF EndJob, EndCheckInt, RunGuard, LoopTest, DrainIsDue
  <2>4. CASE Reset
    BY <2>4, SchedConstants DEF Reset, AllJobs, DrainIsDue
  <2>5. CASE \E n \in 0..MaxCycles : Clock(n)
    BY <2>5 DEF Clock, LoopTest, DrainIsDue
  <2>6. CASE ResetInLoop \/ \E past \in 0..MaxPast, n \in 0..MaxCycles : ClockAfterReset(past, n)
    BY <2>6 DEF ResetInLoop, ClockAfterReset, LoopTest, DrainIsDue
  <2> QED
    BY <2>1, <2>2, <2>3, <2>4, <2>5, <2>6
    DEF Next, SchedAdd, SchedNextInsn, SchedFindRemove, Running, DrainIsDue
<1> QED BY <1>1, <1>2, IndInvHolds, PTL DEF Spec

(* Every step of the delta-encoded queue is a step of the abstract list.   *)
LEMMA StepRefines ==
  ASSUME IndInv, DrainIsDue, [Next]_vars
  PROVE  [Abs!Next]_(Abs!absvars)
<1> DEFINE p == Decode(queue)
<1>0. /\ queue \in Queues(AllJobs) /\ Len(queue) >= 1 /\ NonHeadOK(queue)
      /\ check_int \in AllJobs /\ sched_guard \in AllJobs /\ Jobs \subseteq AllJobs
  BY IndInvFacts DEF AllJobs
<1>a. /\ p[1].job = queue[1].job
      /\ HeadDue(queue) <=> p[1].left <= 0
      /\ 1 - AllTime(queue)[NegRun(queue)] = 1 + Abs!Lateness(p)
      /\ \A k \in 1..Len(queue) : p[k].job = queue[k].job
      /\ Len(p) = Len(queue)
  BY <1>0, DecodeHead, DecodeFacts
<1>b. Len(queue) \in Nat /\ 1 \in 1..Len(queue) /\ queue[1].job \in AllJobs
  BY <1>0, EntryType
<1>c. /\ AfterReset \in Queues(AllJobs) /\ Len(AfterReset) >= 1 /\ Decode(AfterReset) = Abs!Fresh
  BY AfterResetFacts, DecodeReset
<1>1. CASE UNCHANGED vars
  BY <1>1 DEF vars, Abs!absvars
<1>2. ASSUME NEW job \in Jobs \ NextJobs, NEW t \in InsnDelays \cup JobDelays, SchedAdd(job, t)
      PROVE  Abs!Next
  <2>1. t \in Int /\ queue' = sched_add(queue, job, t)
    BY <1>2, SchedConstants DEF SchedAdd
  <2>2. Decode(queue') = Abs!Add(p, job, t)
    BY <1>0, <2>1, DecodeAdd
  <2>3. Abs!AddJob
    BY <1>2, <2>2 DEF SchedAdd, Running, Abs!AddJob
  <2> QED BY <2>3 DEF Abs!Next
<1>3. ASSUME NEW job \in NextJobs, SchedNextInsn(job)
      PROVE  Abs!Next
  <2> DEFINE t == 1 - AllTime(queue)[NegRun(queue)]
  <2>1. t \in Int /\ job \in AllJobs /\ queue' = sched_add(queue, job, t)
    BY <1>0, <1>3, SchedConstants, NegRunExists DEF SchedNextInsn, sched_next_insn
  <2>2. t = 1 + Abs!Lateness(p)
    BY <1>a
  <2> HIDE DEF t
  <2>3. Decode(queue') = Abs!Add(p, job, t)
    BY <1>0, <2>1, DecodeAdd
  <2>4. Abs!AddJob
    BY <1>3, <2>2, <2>3 DEF SchedNextInsn, Running, Abs!AddJob
  <2> QED BY <2>4 DEF Abs!Next
<1>4. ASSUME NEW job \in Jobs, SchedFindRemove(job)
      PROVE  Abs!Next
  <2> DEFINE i == FirstOf(queue, job)
  <2>1. IsQueued(queue, job) /\ queue' = UnlinkAt(queue, i)
    BY <1>4 DEF SchedFindRemove, sched_find_remove
  <2>2. i \in 1..Len(queue) /\ queue[i].job = job /\ \A j \in 1..(i - 1) : queue[j].job # job
    BY <1>0, <2>1, FirstOfExists
  <2> HIDE DEF i
  <2>3. Decode(queue') = Abs!Drop(p, i)
    BY <1>0, <2>1, <2>2, DecodeDrop
  <2>4. \A j \in 1..(i - 1) : j \in 1..Len(queue)
    BY <1>b, <2>2
  <2>5. /\ i \in 1..Len(p) /\ p[i].job \in Jobs
        /\ \A j \in 1..(i - 1) : p[j].job # p[i].job
    BY <1>a, <2>2, <2>4
  <2> HIDE DEF p
  <2>6. /\ phase # "drain" /\ phase' = phase
    BY <1>4 DEF SchedFindRemove, Running
  <2>7. Abs!RemoveJob
    BY <2>3, <2>5, <2>6 DEF Abs!RemoveJob, p
  <2> QED BY <2>7 DEF Abs!Next
<1>5. ASSUME NEW n \in 0..MaxCycles, Clock(n)
      PROVE  Abs!Next
  <2>1. n \in Int /\ queue' = Elapse(queue, n) /\ phase = "insn" /\ phase' = LoopTest(queue')
    BY <1>5 DEF Clock
  <2>2. Decode(queue') = Abs!Pass(p, n)
    BY <1>0, <2>1, DecodePass
  <2>3. queue' \in Queues(AllJobs) /\ Len(queue') >= 1
    BY <1>0, <2>1, ElapseFacts
  <2>4. phase' = Abs!Return(Decode(queue'))
    BY <2>1, <2>3, DecodeHead
  <2>5. Abs!PassTime
    BY <2>1, <2>2, <2>4 DEF Abs!PassTime
  <2> QED BY <2>5 DEF Abs!Next
<1>6. CASE RunJob
  <2>1. /\ phase = "drain" /\ queue[1].job # sched_guard /\ queue' = UnlinkAt(queue, 1)
        /\ phase' = queue[1].job /\ HeadDue(queue)
    BY <1>6 DEF RunJob, PopHead, DrainIsDue
  <2>2. Decode(queue') = Abs!Drop(p, 1)
    BY <1>0, <1>b, <2>1, DecodeDrop
  <2>3. Abs!StartJob
    BY <1>a, <2>1, <2>2 DEF Abs!StartJob
  <2> QED BY <2>3 DEF Abs!Next
<1>7. CASE RunGuard
  <2> DEFINE q == UnlinkAt(queue, 1)
  <2>1. /\ phase = "drain" /\ queue[1].job = sched_guard
        /\ queue' = sched_add(q, sched_guard, SCHED_TIME_MAX)
        /\ phase' = LoopTest(queue') /\ HeadDue(queue)
    BY <1>7 DEF RunGuard, PopHead, DrainIsDue
  <2>2. q \in Queues(AllJobs) /\ Len(q) >= 1 /\ Decode(q) = Abs!Drop(p, 1)
    <3>1. phase # check_int
      BY <2>1, SchedConstants DEF AllJobs
    <3>2. Len(queue) >= 2
      BY <3>1, IndInvFacts
    <3>3. q \in Queues(AllJobs) /\ Len(q) = Len(queue) - 1
      BY <1>0, <1>b, UnlinkFacts
    <3> QED BY <1>0, <1>b, <3>2, <3>3, DecodeDrop
  <2> HIDE DEF q
  <2>3. SCHED_TIME_MAX \in Int
    BY SchedConstants
  <2>4. Decode(queue') = Abs!Add(Decode(q), sched_guard, SCHED_TIME_MAX)
    BY <1>0, <2>1, <2>2, <2>3, DecodeAdd
  <2>5. queue' \in Queues(AllJobs) /\ Len(queue') >= 1
    BY <1>0, <2>1, <2>2, <2>3, AddFacts
  <2>6. phase' = Abs!Return(Decode(queue'))
    BY <2>1, <2>5, DecodeHead
  <2>7. Abs!StartJob
    BY <1>a, <2>1, <2>2, <2>4, <2>6 DEF Abs!StartJob
  <2> QED BY <2>7 DEF Abs!Next
<1>8. CASE EndJob
  <2>1. phase \in Jobs /\ phase # check_int /\ queue' = queue /\ phase' = LoopTest(queue)
    BY <1>8, SchedConstants DEF EndJob
  <2>2. phase' = Abs!Return(p)
    BY <1>0, <2>1, DecodeHead
  <2>3. Abs!FinishJob
    BY <2>1, <2>2 DEF Abs!FinishJob
  <2> QED BY <2>3 DEF Abs!Next
<1>9. CASE EndCheckInt
  <2>1. /\ phase = check_int /\ queue' = sched_add(queue, check_int, CHECK_INT_TIME)
        /\ phase' = LoopTest(queue') /\ CHECK_INT_TIME \in Int
    BY <1>9, SchedConstants DEF EndCheckInt
  <2>2. Decode(queue') = Abs!Add(p, check_int, CHECK_INT_TIME)
    BY <1>0, <2>1, DecodeAdd
  <2>3. queue' \in Queues(AllJobs) /\ Len(queue') >= 1
    BY <1>0, <2>1, AddFacts
  <2>4. phase' = Abs!Return(Decode(queue'))
    BY <2>1, <2>3, DecodeHead
  <2>5. Abs!FinishJob
    BY <2>1, <2>2, <2>4 DEF Abs!FinishJob
  <2> QED BY <2>5 DEF Abs!Next
<1>10. CASE Reset
  <2>1. Abs!ResetJobs
    BY <1>10, <1>c, SchedConstants DEF Reset, AllJobs, Abs!ResetJobs
  <2> QED BY <2>1 DEF Abs!Next
<1>11. CASE ResetInLoop
  <2>1. Abs!ResetJobs
    BY <1>11, <1>c DEF ResetInLoop, Abs!ResetJobs
  <2> QED BY <2>1 DEF Abs!Next
<1>12. ASSUME NEW past \in 0..MaxPast, NEW n \in 0..MaxCycles, ClockAfterReset(past, n)
       PROVE  Abs!Next
  <2> DEFINE m == n - past
  <2>1. /\ m \in Int /\ m \in (- MaxPast)..MaxCycles
        /\ queue' = Elapse(queue, m) /\ phase = "restart" /\ phase' = LoopTest(queue')
    BY <1>12, SchedConstants DEF ClockAfterReset
  <2> HIDE DEF m
  <2>2. Decode(queue') = Abs!Pass(p, m)
    BY <1>0, <2>1, DecodePass
  <2>3. queue' \in Queues(AllJobs) /\ Len(queue') >= 1
    BY <1>0, <2>1, ElapseFacts
  <2>4. phase' = Abs!Return(Decode(queue'))
    BY <2>1, <2>3, DecodeHead
  <2>5. Abs!PassTime
    BY <2>1, <2>2, <2>4 DEF Abs!PassTime
  <2> QED BY <2>5 DEF Abs!Next
<1> QED
  BY <1>1, <1>2, <1>3, <1>4, <1>5, <1>6, <1>7, <1>8, <1>9, <1>10, <1>11, <1>12 DEF Next

(* The job queue of sched.c implements the list of absolute times: no call *)
(* changes the due time of a job it is not about, jobs run in the order of *)
(* their due times, and only when due.                                     *)
THEOREM DeltasImplementTimes == Spec => Sched_refines
<1>1. Init => Abs!Init
  BY DecodeReset DEF Init, Abs!Init
<1>2. IndInv /\ DrainIsDue /\ [Next]_vars => [Abs!Next]_(Abs!absvars)
  BY StepRefines
<1> QED BY <1>1, <1>2, IndInvHolds, DrainIsDueHolds, PTL DEF Spec, Sched_refines, Abs!Spec

-----------------------------------------------------------------------------
(* The entries of one job.                                                 *)
Where(q, job) == {i \in 1..Len(q) : q[i].job = job}

(* There are finitely many of them.                                        *)
LEMMA WhereFinite ==
  ASSUME NEW q \in Queues(AllJobs), NEW job
  PROVE  IsFiniteSet(Where(q, job)) /\ Cardinality(Where(q, job)) \in Nat
<1>1. Len(q) \in Nat /\ Len(q) \in Int /\ 1 \in Int
  BY EntryType
<1>2. IsFiniteSet(1..Len(q))
  BY <1>1, FS_Interval
<1>3. Where(q, job) \in SUBSET (1..Len(q))
  BY DEF Where
<1> QED BY <1>2, <1>3, FS_Subset, FS_CardinalityType

(* One more entry is one more entry of its job.                            *)
LEMMA GainsOne ==
  ASSUME NEW q \in Queues(AllJobs), NEW r \in Queues(AllJobs), NEW i, Gains(q, r, i), NEW job
  PROVE  Cardinality(Where(r, job)) = Cardinality(Where(q, job)) + (IF r[i].job = job THEN 1 ELSE 0)
<1> DEFINE S == Where(q, job)
           T == Where(r, job) \ {i}
           f == [k \in S |-> IF k < i THEN k ELSE k + 1]
<1>1. /\ Len(q) \in Nat /\ Len(r) = Len(q) + 1 /\ i \in 1..Len(r)
      /\ \A k \in 1..Len(q) : /\ k < i => r[k].job = q[k].job
                              /\ k >= i => r[k + 1].job = q[k].job
  BY EntryType DEF Gains
<1>2. f \in [S -> T]
  <2> SUFFICES ASSUME NEW k \in S PROVE (IF k < i THEN k ELSE k + 1) \in T
    OBVIOUS
  <2> QED BY <1>1 DEF Where
<1>3. \A a, b \in S : f[a] = f[b] => a = b
  BY <1>1 DEF Where
<1>4. \A t \in T : \E s \in S : f[s] = t
  <2> SUFFICES ASSUME NEW t \in T PROVE \E s \in S : f[s] = t
    OBVIOUS
  <2>0. t \in 1..Len(r) /\ t # i /\ r[t].job = job
    BY DEF Where
  <2>1. CASE t < i
    <3>1. t \in S /\ f[t] = t
      BY <1>1, <2>0, <2>1 DEF Where
    <3> QED BY <3>1
  <2>2. CASE t > i
    <3>1. t - 1 \in 1..Len(q) /\ t - 1 >= i /\ (t - 1) + 1 = t
      BY <1>1, <2>0, <2>2
    <3>2. t - 1 \in S /\ f[t - 1] = t
      BY <1>1, <2>0, <3>1 DEF Where
    <3> QED BY <3>2
  <2> QED BY <1>1, <2>0, <2>1, <2>2
<1> HIDE DEF f
<1>5. f \in Bijection(S, T)
  BY <1>2, <1>3, <1>4, Fun_IsBij
<1>6. IsFiniteSet(S) /\ Cardinality(T) = Cardinality(S)
  BY <1>5, WhereFinite, FS_Bijection DEF ExistsBijection
<1>7. /\ IsFiniteSet(Where(r, job)) /\ Cardinality(Where(r, job)) \in Nat
      /\ Cardinality(T) = IF i \in Where(r, job) THEN Cardinality(Where(r, job)) - 1
                          ELSE Cardinality(Where(r, job))
  BY WhereFinite, FS_RemoveElement
<1>8. i \in Where(r, job) <=> r[i].job = job
  BY <1>1 DEF Where
<1>9. Cardinality(S) \in Nat
  BY WhereFinite
<1> HIDE DEF S, T
<1> QED BY <1>6, <1>7, <1>8, <1>9 DEF S

(* Jobs with so many entries each have no more than so many together: an   *)
(* entry is known by its job and its rank among the entries of that job.   *)
LEMMA FewEntries ==
  ASSUME NEW q \in Queues(AllJobs), NEW n \in Nat,
         \A job \in Jobs : Cardinality(Where(q, job)) <= n
  PROVE  LET S == {i \in 1..Len(q) : q[i].job \in Jobs}
         IN  IsFiniteSet(S) /\ Cardinality(S) <= Cardinality(Jobs) * n
<1> DEFINE S == {i \in 1..Len(q) : q[i].job \in Jobs}
           Upto(i) == {k \in Where(q, q[i].job) : k <= i}
           rank(i) == Cardinality(Upto(i))
           T == Jobs \X (1..n)
           f == [i \in S |-> << q[i].job, rank(i) >>]
<1>0. Len(q) \in Nat
  BY EntryType
<1>1. ASSUME NEW i \in S
      PROVE  /\ IsFiniteSet(Upto(i)) /\ i \in Upto(i)
             /\ rank(i) \in 1..n
  <2>1. i \in 1..Len(q) /\ q[i].job \in Jobs /\ i \in Nat
    BY <1>0
  <2>2. /\ IsFiniteSet(Where(q, q[i].job)) /\ Cardinality(Where(q, q[i].job)) \in Nat
        /\ Cardinality(Where(q, q[i].job)) <= n
    BY <2>1, WhereFinite
  <2>3. Upto(i) \in SUBSET Where(q, q[i].job) /\ i \in Upto(i)
    BY <2>1 DEF Where
  <2>4. IsFiniteSet(Upto(i)) /\ rank(i) <= Cardinality(Where(q, q[i].job))
    BY <2>2, <2>3, FS_Subset
  <2>5. rank(i) \in Nat /\ rank(i) # 0
    BY <2>3, <2>4, FS_CardinalityType, FS_EmptySet
  <2> HIDE DEF rank
  <2> QED BY <2>2, <2>3, <2>4, <2>5
<1>2. ASSUME NEW a \in S, NEW b \in S, q[a].job = q[b].job, a < b
      PROVE  rank(a) # rank(b)
  <2>0. a \in Int /\ b \in Int /\ a < b /\ \A k \in Where(q, q[a].job) : k \in Int
    BY <1>0, <1>2 DEF Where
  <2>1. Upto(a) \in SUBSET Upto(b)
    <3> SUFFICES ASSUME NEW k \in Where(q, q[a].job), k <= a
                 PROVE  k \in Where(q, q[b].job) /\ k <= b
      OBVIOUS
    <3>1. k \in Where(q, q[b].job)
      BY <1>2
    <3> QED BY <2>0, <3>1
  <2>2. b \notin Upto(a) /\ b \in Upto(b)
    <3>1. b \in Upto(b)
      BY <1>1
    <3> QED BY <2>0, <3>1
  <2>3. IsFiniteSet(Upto(b))
    BY <1>1
  <2> HIDE DEF Upto
  <2> QED BY <2>1, <2>2, <2>3, FS_Subset
<1> HIDE DEF rank
<1>3. f \in [S -> T]
  BY <1>1
<1>4. \A a, b \in S : f[a] = f[b] => a = b
  <2> SUFFICES ASSUME NEW a \in S, NEW b \in S, f[a] = f[b], a # b PROVE FALSE
    OBVIOUS
  <2>1. q[a].job = q[b].job /\ rank(a) = rank(b)
    OBVIOUS
  <2>2. a < b \/ b < a
    BY <1>0
  <2> HIDE DEF S
  <2> QED BY <1>2, <2>1, <2>2
<1> HIDE DEF f
<1>5. IsFiniteSet(T) /\ Cardinality(T) = Cardinality(Jobs) * n
  <2>1. IsFiniteSet(1..n) /\ Cardinality(1..n) = n
    <3>1. 1 \in Int /\ n \in Int
      OBVIOUS
    <3>2. IsFiniteSet(1..n) /\ Cardinality(1..n) = IF 1 > n THEN 0 ELSE n - 1 + 1
      BY <3>1, FS_Interval
    <3> QED BY <3>2
  <2> QED BY <2>1, SchedConstants, FS_Product
<1>6. f \in Injection(S, T)
  BY <1>3, <1>4, Fun_IsInj
<1> HIDE DEF S, T
<1>7. IsFiniteSet(S) /\ Cardinality(S) <= Cardinality(T)
  BY <1>5, <1>6, FS_Injection
<1> QED BY <1>5, <1>7 DEF S

(* How often a job is queued after a call of sched_add, ...                *)
LEMMA AddOne ==
  ASSUME NEW q \in Queues(AllJobs), Len(q) >= 1, NEW job \in AllJobs, NEW t \in Int,
         NEW r, r = sched_add(q, job, t), NEW j
  PROVE  Cardinality(Where(r, j)) = Cardinality(Where(q, j)) + (IF job = j THEN 1 ELSE 0)
<1>1. r \in Queues(AllJobs) /\ Gains(q, r, InsertPos(q, t)) /\ r[InsertPos(q, t)].job = job
  BY AddGains
<1> QED BY <1>1, GainsOne

(* ... when an entry is unlinked, ...                                      *)
LEMMA DropOne ==
  ASSUME NEW q \in Queues(AllJobs), NEW i \in 1..Len(q), NEW r, r = UnlinkAt(q, i), NEW j
  PROVE  Cardinality(Where(q, j)) = Cardinality(Where(r, j)) + (IF q[i].job = j THEN 1 ELSE 0)
<1>1. r \in Queues(AllJobs) /\ Gains(r, q, i)
  BY UnlinkGains
<1> QED BY <1>1, GainsOne

(* ... when cycles pass, ...                                               *)
LEMMA PassNone ==
  ASSUME NEW q \in Queues(AllJobs), Len(q) >= 1, NEW n \in Int, NEW r, r = Elapse(q, n), NEW j
  PROVE  Where(r, j) = Where(q, j)
<1>1. Len(r) = Len(q) /\ \A k \in 1..Len(q) : r[k].job = q[k].job
  BY ElapseFacts
<1> QED BY <1>1 DEF Where

(* ... and after a reset.                                                  *)
LEMMA ResetOnes ==
  /\ \A job \in Jobs : Cardinality(Where(AfterReset, job)) = 0
  /\ Cardinality(Where(AfterReset, sched_guard)) = 1
  /\ Cardinality(Where(AfterReset, check_int)) = 1
<1>1. /\ Len(AfterReset) = 2
      /\ AfterReset[1].job = check_int /\ AfterReset[2].job = sched_guard
  BY AfterResetFacts DEF Entry
<1>2. \A i \in 1..2 : i = 1 \/ i = 2
  OBVIOUS
<1>3. Where(AfterReset, check_int) = {1} /\ Where(AfterReset, sched_guard) = {2}
  BY <1>1, <1>2, SchedConstants DEF Where
<1>4. ASSUME NEW job \in Jobs PROVE Where(AfterReset, job) = {}
  BY <1>1, <1>2, SchedConstants DEF Where
<1> QED BY <1>3, <1>4, FS_Singleton, FS_EmptySet

(* How often each job is queued.  A reset typed at check_int's prompt      *)
(* queues check_int, which then queues itself: that makes two of it, until *)
(* the next one runs.                                                      *)
Few ==
  /\ \A job \in Jobs : Cardinality(Where(queue, job)) <= MaxCopies
  /\ Cardinality(Where(queue, sched_guard)) <= 1
  /\ Cardinality(Where(queue, check_int)) <= (IF phase = check_int THEN 1 ELSE 2)

(* Every step keeps these bounds.                                          *)
LEMMA NextFew ==
  ASSUME IndInv, Few, [Next]_vars
  PROVE  Few'
<1> DEFINE C(q, job) == Cardinality(Where(q, job))
<1>a. /\ queue \in Queues(AllJobs) /\ Len(queue) >= 1 /\ Len(queue) \in Nat
      /\ phase \in {"insn", "restart", "drain", check_int} \cup Jobs
  BY IndInvFacts
<1>b. \A job : C(queue, job) \in Nat
  BY <1>a, WhereFinite
<1>c. /\ check_int \notin Jobs /\ sched_guard \notin Jobs /\ check_int # sched_guard
      /\ check_int # "insn" /\ check_int # "restart" /\ check_int # "drain"
      /\ check_int \in AllJobs /\ sched_guard \in AllJobs /\ Jobs \subseteq AllJobs
      /\ MaxCopies \in Nat /\ CHECK_INT_TIME \in Int /\ SCHED_TIME_MAX \in Int
  BY SchedConstants DEF AllJobs
<1>d. /\ \A job \in Jobs : C(queue, job) <= MaxCopies
      /\ C(queue, sched_guard) <= 1
      /\ C(queue, check_int) <= (IF phase = check_int THEN 1 ELSE 2)
  BY DEF Few
<1>e. \A q : LoopTest(q) # check_int
  BY <1>c, LoopTestPhase
<1>1. ASSUME NEW job \in Jobs, NEW t \in Int, Copies(job) < MaxCopies,
             queue' = sched_add(queue, job, t), phase' = phase
      PROVE  Few'
  <2>1. C(queue, job) < MaxCopies
    BY <1>1 DEF Copies, Where
  <2>2. \A j : C(queue', j) = C(queue, j) + (IF job = j THEN 1 ELSE 0)
    BY <1>1, <1>a, <1>c, AddOne
  <2> HIDE DEF C
  <2>3. /\ \A j \in Jobs : C(queue', j) <= MaxCopies
        /\ C(queue', sched_guard) = C(queue, sched_guard)
        /\ C(queue', check_int) = C(queue, check_int)
    BY <1>b, <1>c, <1>d, <2>1, <2>2
  <2> QED BY <1>1, <1>d, <2>3 DEF Few, C
<1>2. ASSUME NEW i \in 1..Len(queue), NEW r, r = UnlinkAt(queue, i)
      PROVE  /\ r \in Queues(AllJobs)
             /\ \A j : /\ C(r, j) \in Nat /\ C(r, j) <= C(queue, j)
                       /\ j = queue[i].job => C(r, j) = C(queue, j) - 1
  <2>1. r \in Queues(AllJobs)
    BY <1>2, <1>a, UnlinkGains
  <2>2. \A j : C(queue, j) = C(r, j) + (IF queue[i].job = j THEN 1 ELSE 0)
    BY <1>2, <1>a, DropOne
  <2>3. \A j : C(r, j) \in Nat
    BY <2>1, WhereFinite
  <2> HIDE DEF C
  <2> QED BY <1>b, <2>1, <2>2, <2>3
<1>3. ASSUME queue' = AfterReset PROVE Few'
  <2>1. /\ \A job \in Jobs : C(queue', job) = 0
        /\ C(queue', sched_guard) = 1 /\ C(queue', check_int) = 1
    BY <1>3, ResetOnes
  <2> HIDE DEF C
  <2>2. /\ \A job \in Jobs : C(queue', job) <= MaxCopies
        /\ C(queue', sched_guard) <= 1 /\ C(queue', check_int) <= 1
    BY <1>c, <2>1
  <2>3. C(queue', check_int) <= (IF phase' = check_int THEN 1 ELSE 2)
    BY <2>1
  <2> QED BY <2>2, <2>3 DEF Few, C
<1> HIDE DEF C
<1>4. ASSUME NEW job \in Jobs \ NextJobs, NEW t \in InsnDelays \cup JobDelays, SchedAdd(job, t)
      PROVE  Few'
  BY <1>1, <1>4, SchedConstants DEF SchedAdd
<1>5. ASSUME NEW job \in NextJobs, SchedNextInsn(job) PROVE Few'
  <2>1. 1 - AllTime(queue)[NegRun(queue)] \in Int /\ job \in Jobs
    BY <1>a, NegRunExists, SchedConstants
  <2> QED BY <1>1, <1>5, <2>1 DEF SchedNextInsn, sched_next_insn
<1>6. ASSUME NEW job \in Jobs, SchedFindRemove(job) PROVE Few'
  <2>1. queue' = UnlinkAt(queue, FirstOf(queue, job)) /\ phase' = phase
    BY <1>6 DEF SchedFindRemove, sched_find_remove
  <2>2. FirstOf(queue, job) \in 1..Len(queue)
    BY <1>6, <1>a, FirstOfExists DEF SchedFindRemove
  <2>3. \A j : C(queue', j) \in Nat /\ C(queue', j) <= C(queue, j)
    BY <1>2, <2>1, <2>2
  <2>4. /\ \A j \in Jobs : C(queue', j) <= MaxCopies
        /\ C(queue', sched_guard) <= 1
        /\ C(queue', check_int) <= (IF phase' = check_int THEN 1 ELSE 2)
    BY <1>b, <1>c, <1>d, <2>1, <2>3
  <2> QED BY <2>4 DEF Few, C
<1>7. ASSUME NEW n \in 0..MaxCycles, Clock(n) PROVE Few'
  <2>1. queue' = Elapse(queue, n) /\ phase' # check_int /\ phase # check_int /\ n \in Int
    BY <1>7, <1>c, <1>e DEF Clock
  <2>2. \A j : Where(queue', j) = Where(queue, j)
    BY <1>a, <2>1, PassNone
  <2> QED BY <2>1, <2>2 DEF Few
<1>8. CASE RunJob
  <2>1. queue' = UnlinkAt(queue, 1) /\ phase' = queue[1].job /\ 1 \in 1..Len(queue) /\ phase = "drain"
    BY <1>8, <1>a DEF RunJob, PopHead
  <2>2. /\ \A j : C(queue', j) \in Nat /\ C(queue', j) <= C(queue, j)
        /\ phase' = check_int => C(queue', check_int) = C(queue, check_int) - 1
    BY <1>2, <2>1
  <2>3. C(queue, check_int) <= 2
    BY <1>c, <1>d, <2>1
  <2>4. /\ \A j \in Jobs : C(queue', j) <= MaxCopies
        /\ C(queue', sched_guard) <= 1
        /\ C(queue', check_int) <= (IF phase' = check_int THEN 1 ELSE 2)
    BY <1>b, <1>c, <1>d, <2>2, <2>3
  <2> QED BY <2>4 DEF Few, C
<1>9. ASSUME NEW job \in {check_int, sched_guard}, NEW t \in Int, NEW q \in Queues(AllJobs),
             Len(q) >= 1, queue' = sched_add(q, job, t), phase' # check_int,
             \A j : C(q, j) \in Nat /\ C(q, j) <= C(queue, j),
             job = check_int => phase = check_int,
             job = sched_guard => C(q, job) = C(queue, job) - 1
      PROVE  Few'
  <2>1. \A j : C(queue', j) = C(q, j) + (IF job = j THEN 1 ELSE 0)
    BY <1>9, <1>c, AddOne DEF C
  <2>2. /\ \A j \in Jobs : C(queue', j) <= MaxCopies
        /\ C(queue', sched_guard) <= 1
        /\ C(queue', check_int) <= 2
    <3>1. /\ \A j : C(q, j) \in Nat /\ C(queue, j) \in Nat /\ C(q, j) <= C(queue, j)
          /\ \A j : j # job => C(queue', j) = C(q, j)
          /\ C(queue', job) = C(q, job) + 1
      BY <1>9, <1>b, <2>1
    <3>2. \A j \in Jobs : C(queue', j) <= MaxCopies
      BY <1>9, <1>c, <1>d, <3>1
    <3>3. CASE job = check_int
      <4>1. phase = check_int /\ C(queue, check_int) <= 1
        BY <1>9, <1>d, <3>3
      <4> QED BY <1>c, <1>d, <3>1, <3>2, <3>3, <4>1
    <3>4. CASE job = sched_guard
      <4>1. C(queue', sched_guard) = C(queue, sched_guard)
        BY <1>9, <3>1, <3>4
      <4>2. C(queue, check_int) <= 2
        BY <1>d, <3>1
      <4> QED BY <1>c, <1>d, <3>1, <3>2, <3>4, <4>1, <4>2
    <3> QED BY <1>9, <3>3, <3>4
  <2> QED BY <1>9, <2>2 DEF Few, C
<1>10. CASE RunGuard
  <2> DEFINE q == PopHead(queue)
  <2>1. /\ queue' = sched_add(q, sched_guard, SCHED_TIME_MAX) /\ phase' # check_int
        /\ q = UnlinkAt(queue, 1) /\ queue[1].job = sched_guard /\ 1 \in 1..Len(queue)
        /\ phase # check_int
    BY <1>10, <1>a, <1>c, <1>e DEF RunGuard, PopHead
  <2>2. /\ q \in Queues(AllJobs)
        /\ \A j : C(q, j) \in Nat /\ C(q, j) <= C(queue, j)
        /\ C(q, sched_guard) = C(queue, sched_guard) - 1
    BY <1>2, <2>1
  <2>3. Len(q) >= 1
    <3>1. Len(queue) >= 2
      BY <2>1, IndInvFacts
    <3> QED BY <1>a, <2>1, <3>1, UnlinkGains DEF Gains
  <2> HIDE DEF q
  <2> QED BY <1>9, <1>c, <2>1, <2>2, <2>3
<1>11. CASE EndJob
  BY <1>11, <1>c, <1>d, <1>e DEF EndJob, Few, C
<1>12. CASE EndCheckInt
  <2>1. /\ queue' = sched_add(queue, check_int, CHECK_INT_TIME)
        /\ phase = check_int /\ phase' # check_int
    BY <1>12, <1>e DEF EndCheckInt
  <2>2. \A j : C(queue, j) \in Nat /\ C(queue, j) <= C(queue, j)
    BY <1>b
  <2> QED BY <1>9, <1>a, <1>c, <2>1, <2>2
<1>13. CASE Reset \/ ResetInLoop
  BY <1>13, <1>3 DEF Reset, ResetInLoop
<1>14. ASSUME NEW past \in 0..MaxPast, NEW n \in 0..MaxCycles, ClockAfterReset(past, n)
       PROVE  Few'
  <2>1. /\ queue' = Elapse(queue, n - past) /\ n - past \in Int
        /\ phase' # check_int /\ phase # check_int
    BY <1>14, <1>c, <1>e, SchedConstants DEF ClockAfterReset
  <2>2. \A j : Where(queue', j) = Where(queue, j)
    BY <1>a, <2>1, PassNone
  <2> QED BY <2>1, <2>2 DEF Few
<1>15. CASE UNCHANGED vars
  BY <1>15 DEF vars, Few
<1> QED
  BY <1>4, <1>5, <1>6, <1>7, <1>8, <1>10, <1>11, <1>12, <1>13, <1>14, <1>15 DEF Next

(* The bounds hold in every reachable state.                               *)
LEMMA FewHolds == Spec => []Few
<1>1. Init => Few
  <2> SUFFICES ASSUME Init PROVE Few
    OBVIOUS
  <2>1. /\ \A job \in Jobs : Cardinality(Where(queue, job)) <= MaxCopies
        /\ Cardinality(Where(queue, sched_guard)) <= 1
        /\ Cardinality(Where(queue, check_int)) <= 1
    BY ResetOnes, SchedConstants DEF Init
  <2>2. Cardinality(Where(queue, check_int)) <= 2
    BY ResetOnes DEF Init
  <2> QED BY <2>1, <2>2 DEF Few
<1>2. IndInv /\ Few /\ [Next]_vars => Few'
  BY NextFew
<1> QED BY <1>1, <1>2, IndInvHolds, PTL DEF Spec

(* sched_add may take an entry from the free list without a test, for any  *)
(* number of jobs: a heap with room for the entries of the clients, the    *)
(* guard, two check_int and one more is never used up.                     *)
THEOREM HeapIsEnough == Spec => []HeapSuffices
<1>1. ASSUME IndInv, Few PROVE HeapSuffices
  <2> DEFINE S == {i \in 1..Len(queue) : queue[i].job \in Jobs}
             G == Where(queue, sched_guard)
             P == Where(queue, check_int)
             B == Cardinality(Jobs) * MaxCopies
  <2>1. /\ queue \in Queues(AllJobs) /\ Len(queue) \in Nat /\ free \in Nat
        /\ Len(queue) + free = SCHED_HEAP_SIZE
    BY <1>1, IndInvFacts
  <2>2. IsFiniteSet(S) /\ Cardinality(S) <= B
    BY <1>1, <2>1, FewEntries, SchedConstants DEF Few
  <2>3. IsFiniteSet(G) /\ Cardinality(G) \in Nat /\ Cardinality(G) <= 1
    BY <1>1, <2>1, WhereFinite DEF Few
  <2>4. IsFiniteSet(P) /\ Cardinality(P) \in Nat /\ Cardinality(P) <= 2
    <3>1. IsFiniteSet(P) /\ Cardinality(P) \in Nat
      BY <2>1, WhereFinite
    <3>2. Cardinality(P) <= (IF phase = check_int THEN 1 ELSE 2)
      BY <1>1 DEF Few
    <3> QED BY <3>1, <3>2
  <2>5. 1..Len(queue) = (S \cup G) \cup P
    BY <2>1, EntryType DEF AllJobs, Where
  <2>6. B \in Nat /\ Cardinality(S) \in Nat
    <3>1. Cardinality(Jobs) \in Nat /\ Cardinality(S) \in Nat
      BY <2>2, SchedConstants, FS_CardinalityType
    <3> QED BY <3>1, SchedConstants
  <2>7. Cardinality(1..Len(queue)) = Len(queue)
    <3>1. PICK n \in Int : n = Len(queue) /\ n >= 0
      BY <2>1
    <3>2. 1 \in Int
      OBVIOUS
    <3>3. Cardinality(1..n) = IF 1 > n THEN 0 ELSE n - 1 + 1
      BY <3>2, FS_Interval
    <3> QED BY <3>1, <3>3
  <2> HIDE DEF S, G, P, B
  <2>8. /\ IsFiniteSet(S \cup G) /\ Cardinality(S \cup G) \in Nat
        /\ Cardinality(S \cup G) <= Cardinality(S) + Cardinality(G)
    <3>1. /\ IsFiniteSet(S \cup G)
          /\ Cardinality(S \cup G) = Cardinality(S) + Cardinality(G) - Cardinality(S \cap G)
      BY <2>2, <2>3, FS_Union
    <3>2. Cardinality(S \cap G) \in Nat /\ Cardinality(S \cup G) \in Nat
      BY <2>2, <3>1, FS_Intersection, FS_CardinalityType
    <3> QED BY <2>3, <2>6, <3>1, <3>2
  <2>9. Cardinality((S \cup G) \cup P) <= Cardinality(S \cup G) + Cardinality(P)
    <3>1. Cardinality((S \cup G) \cup P)
            = Cardinality(S \cup G) + Cardinality(P) - Cardinality((S \cup G) \cap P)
      BY <2>4, <2>8, FS_Union
    <3>2. Cardinality((S \cup G) \cap P) \in Nat
      BY <2>8, FS_Intersection, FS_CardinalityType
    <3> QED BY <2>4, <2>8, <3>1, <3>2
  <2>10. Len(queue) <= Cardinality(S \cup G) + Cardinality(P)
    BY <2>5, <2>7, <2>9
  <2>11. Len(queue) <= B + 3
    BY <2>1, <2>2, <2>3, <2>4, <2>6, <2>8, <2>10
  <2>12. SCHED_HEAP_SIZE >= B + 4 => free > 0
    BY <2>1, <2>6, <2>11
  <2> QED BY <2>12 DEF HeapSuffices, B
<1> QED BY <1>1, IndInvHolds, FewHolds, PTL

=============================================================================
