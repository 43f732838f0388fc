------------------------------ MODULE PicProofs -----------------------------
(***************************************************************************)
(* Proofs about interrupt delivery, for every set of lines, every choice   *)
(* of non-maskable ones and every configuration.                           *)
(***************************************************************************)
EXTENDS Pic, SchedOpsProofs, FiniteSetTheorems

PicJobs == {"pic_rep_int", "tick_raise_except", "kbd_job", "check_int", "sched_guard"}

(* Names for the jobs, which the proofs need not know to be strings.       *)
Report == "pic_rep_int"
(* The other jobs.                                                         *)
Tick == "tick_raise_except"
Kbd == "kbd_job"
Poll == "check_int"
Guard == "sched_guard"

(* The jobs are different ones.                                            *)
LEMMA JobFacts ==
  /\ Report \in PicJobs /\ Tick \in PicJobs /\ Kbd \in PicJobs /\ Poll \in PicJobs
  /\ Guard \in PicJobs
  /\ Report # Tick /\ Report # Kbd /\ Report # Poll /\ Report # Guard
  /\ Tick # Kbd /\ Tick # Poll /\ Tick # Guard
  /\ Kbd # Poll /\ Kbd # Guard /\ Poll # Guard
BY DEF PicJobs, Report, Tick, Kbd, Poll, Guard

(* A queue in which every report is due, now or before now.                *)
Prompt(q) ==
  /\ q \in Queues(PicJobs) /\ Len(q) >= 1 /\ NonHeadOK(q)
  /\ \A x : IsDue(q, Report, x) => x <= 0

(* The queue between two job functions: the guard and the poll are in it,  *)
(* so that the one is there when the other is popped.                      *)
Healthy(q) == Prompt(q) /\ IsQueued(q, Guard) /\ IsQueued(q, Poll)

(* Queues that have the jobs of another, and one of them perhaps again.    *)
Keeps(q, r) == \A j : IsQueued(q, j) => IsQueued(r, j)

-----------------------------------------------------------------------------
(* SCHED_ADD (pic_rep_int, NULL, 0).                                       *)
LEMMA AddReport ==
  ASSUME NEW q, Healthy(q), NEW r, r = sched_add(q, "pic_rep_int", 0)
  PROVE  Healthy(r) /\ Keeps(q, r) /\ IsQueued(r, Report)
<1>1. PICK t \in Int : t = 0
  OBVIOUS
<1>2. r = sched_add(q, Report, t) /\ t >= 0
  BY <1>1 DEF Report
<1>3. /\ r \in Queues(PicJobs) /\ Len(r) >= 1 /\ NonHeadOK(r)
      /\ OthersSame(q, r, Report) /\ IsQueued(r, Report)
      /\ \A x : IsDue(r, Report, x) <=> IsDue(q, Report, x) \/ x = t
  BY <1>2, JobFacts, AddFacts DEF Healthy, Prompt
<1>4. \A x : IsDue(r, Report, x) => x <= 0
  BY <1>1, <1>3 DEF Healthy, Prompt
<1>5. Keeps(q, r)
  BY <1>3 DEF Keeps, OthersSame
<1> QED BY <1>3, <1>4, <1>5 DEF Healthy, Prompt, Keeps

(* Another job is added.                                                   *)
LEMMA AddOther ==
  ASSUME NEW q, Prompt(q), NEW job \in PicJobs, job # Report, NEW t \in Int,
         NEW r, r = sched_add(q, job, t)
  PROVE  /\ Prompt(r) /\ Keeps(q, r) /\ IsQueued(r, job)
         /\ IsQueued(r, Report) <=> IsQueued(q, Report)
<1>1. /\ r \in Queues(PicJobs) /\ Len(r) >= 1 /\ NonHeadOK(r)
      /\ OthersSame(q, r, job) /\ IsQueued(r, job)
  BY AddFacts DEF Prompt
<1> QED BY <1>1 DEF Prompt, Keeps, OthersSame

(* Entry i is unlinked.                                                    *)
LEMMA Unlinked ==
  ASSUME NEW q, Healthy(q), NEW i \in 1..Len(q), NEW job, job = q[i].job,
         NEW r, r = UnlinkAt(q, i)
  PROVE  /\ Prompt(r)
         /\ \A j : j # job => (IsQueued(r, j) <=> IsQueued(q, j))
<1>1. /\ r \in Queues(PicJobs) /\ Len(r) \in Nat /\ NonHeadOK(r)
      /\ OthersSame(r, q, job)
      /\ \A x : IsDue(r, job, x) => IsDue(q, job, x)
  BY UnlinkFacts DEF Healthy, Prompt
<1>2. \A j : j # job => (IsQueued(r, j) <=> IsQueued(q, j))
  BY <1>1 DEF OthersSame
<1>3. \A x : IsDue(r, Report, x) => x <= 0
  BY <1>1 DEF Healthy, Prompt, OthersSame
<1>4. Len(r) >= 1
  <2>1. IsQueued(r, Guard) \/ IsQueued(r, Poll)
    BY <1>2, JobFacts DEF Healthy
  <2> QED BY <1>1, <2>1 DEF IsQueued
<1> QED BY <1>1, <1>2, <1>3, <1>4 DEF Prompt

(* Cycles pass.                                                            *)
LEMMA Elapsed ==
  ASSUME NEW q, Healthy(q), NEW n \in Nat, NEW r, r = Elapse(q, n)
  PROVE  Healthy(r) /\ Keeps(q, r)
<1>1. /\ r \in Queues(PicJobs) /\ Len(r) = Len(q) /\ NonHeadOK(r)
      /\ \A j : /\ IsQueued(r, j) <=> IsQueued(q, j)
                /\ \A x \in Int : IsDue(r, j, x) <=> IsDue(q, j, x + n)
  <2>1. n \in Int /\ q \in Queues(PicJobs) /\ Len(q) >= 1 /\ NonHeadOK(q)
    BY DEF Healthy, Prompt
  <2>2. r \in Queues(PicJobs) /\ Len(r) = Len(q) /\ NonHeadOK(r)
    BY <2>1, ElapseFacts
  <2> QED BY <2>1, <2>2, ElapseJobs
<1>2. ASSUME NEW x, IsDue(r, Report, x) PROVE x <= 0
  <2>1. x \in Int
    BY <1>1, <1>2, DueIsInt
  <2>2. x + n <= 0
    BY <1>1, <1>2, <2>1 DEF Healthy, Prompt
  <2> QED BY <2>1, <2>2
<1> QED BY <1>1, <1>2 DEF Healthy, Prompt, Keeps

-----------------------------------------------------------------------------
(* AddReports: the function that it is defined by exists.                  *)
Adding(q, k, f) == [i \in 0..k |-> IF i = 0 THEN q ELSE sched_add(f[i - 1], "pic_rep_int", 0)]

(* Such a function exists for every number of reports, by a least          *)
(* counterexample.                                                         *)
LEMMA AddingExists ==
  ASSUME NEW q, NEW k \in Nat
  PROVE  \E f : f = Adding(q, k, f)
<1> DEFINE OK(m) == \E f : /\ f = [i \in 0..m |-> f[i]] /\ f[0] = q
                           /\ \A i \in 1..m : f[i] = sched_add(f[i - 1], "pic_rep_int", 0)
           Bad == {m \in Nat : ~ OK(m)}
<1>1. OK(0)
  <2> DEFINE f == [i \in 0..0 |-> q]
  <2>1. f = [i \in 0..0 |-> f[i]] /\ f[0] = q /\ 1..0 = {}
    OBVIOUS
  <2> HIDE DEF f
  <2> QED BY <2>1
<1>2. ASSUME NEW m \in Nat, m # 0, OK(m - 1) PROVE OK(m)
  <2>1. PICK g : /\ g = [i \in 0..(m - 1) |-> g[i]] /\ g[0] = q
                 /\ \A i \in 1..(m - 1) : g[i] = sched_add(g[i - 1], "pic_rep_int", 0)
    BY <1>2
  <2> DEFINE h == [i \in 0..m |-> IF i = m THEN sched_add(g[m - 1], "pic_rep_int", 0) ELSE g[i]]
  <2>2. h = [i \in 0..m |-> h[i]] /\ h[0] = q
    BY <1>2, <2>1
  <2>3. ASSUME NEW i \in 1..m PROVE h[i] = sched_add(h[i - 1], "pic_rep_int", 0)
    <3>1. i - 1 \in 0..m /\ i \in 0..m /\ i - 1 # m
      BY <1>2
    <3>2. h[i - 1] = g[i - 1]
      BY <3>1
    <3>3. CASE i = m
      BY <3>1, <3>2, <3>3
    <3>4. CASE i # m
      <4>1. i \in 1..(m - 1) /\ h[i] = g[i]
        BY <1>2, <3>1, <3>4
      <4> QED BY <2>1, <3>2, <4>1
    <3> QED BY <3>3, <3>4
  <2> HIDE DEF h
  <2> QED BY <2>2, <2>3
<1> HIDE DEF OK
<1>3. Bad = {}
  <2> SUFFICES ASSUME Bad # {} PROVE FALSE
    OBVIOUS
  <2>1. PICK x \in Bad : \A y \in Bad : x <= y
    <3>1. Bad \subseteq Nat
      OBVIOUS
    <3> HIDE DEF Bad
    <3> QED BY <3>1, LeastIndex
  <2>2. x # 0 /\ x - 1 \in Nat /\ x - 1 \notin Bad
    BY <1>1, <2>1
  <2> QED BY <1>2, <2>1, <2>2
<1>4. PICK f : /\ f = [i \in 0..k |-> f[i]] /\ f[0] = q
               /\ \A i \in 1..k : f[i] = sched_add(f[i - 1], "pic_rep_int", 0)
  BY <1>3 DEF OK
<1>5. \A i \in 0..k : i # 0 => i \in 1..k
  OBVIOUS
<1>6. f = Adding(q, k, f)
  BY <1>4, <1>5 DEF Adding
<1> QED BY <1>6

(* What k reports leave of a queue.                                        *)
LEMMA AddReportsFacts ==
  ASSUME NEW q, Healthy(q), NEW k \in Nat, NEW r, r = AddReports(q, k)
  PROVE  Healthy(r) /\ Keeps(q, r) /\ (k > 0 => IsQueued(r, Report))
<1> DEFINE S == CHOOSE f : f = Adding(q, k, f)
<1>1. S = Adding(q, k, S)
  <2>1. \E f : f = Adding(q, k, f)
    BY AddingExists
  <2> QED BY <2>1, Zenon
<1>2. r = S[k]
  BY DEF AddReports, Adding
<1> HIDE DEF S
<1>3. S[0] = q /\ \A i \in 1..k : S[i] = sched_add(S[i - 1], "pic_rep_int", 0)
  BY <1>1 DEF Adding
<1> DEFINE P(i) == Healthy(S[i]) /\ Keeps(q, S[i]) /\ (i > 0 => IsQueued(S[i], Report))
           Bad == {i \in 0..k : ~ P(i)}
<1>4. P(0)
  BY <1>3 DEF Keeps
<1>5. ASSUME NEW i \in 1..k, P(i - 1) PROVE P(i)
  <2>1. Healthy(S[i - 1]) /\ Keeps(q, S[i - 1]) /\ S[i] = sched_add(S[i - 1], "pic_rep_int", 0)
    BY <1>3, <1>5
  <2>2. Healthy(S[i]) /\ Keeps(S[i - 1], S[i]) /\ IsQueued(S[i], Report)
    BY <2>1, AddReport
  <2> QED BY <2>1, <2>2 DEF Keeps
<1> HIDE DEF P
<1>6. Bad = {}
  <2> SUFFICES ASSUME Bad # {} PROVE FALSE
    OBVIOUS
  <2>1. PICK x \in Bad : \A y \in Bad : x <= y
    <3>1. Bad \subseteq Nat
      OBVIOUS
    <3> HIDE DEF Bad
    <3> QED BY <3>1, LeastIndex
  <2>2. x \in 1..k /\ x - 1 \in 0..k /\ x - 1 \notin Bad
    BY <1>4, <2>1
  <2> QED BY <1>5, <2>1, <2>2
<1>7. P(k)
  BY <1>6
<1> QED BY <1>2, <1>7 DEF P

-----------------------------------------------------------------------------
(* As many reports as lines that are new and unmasked.                     *)
LEMMA ReportedFacts ==
  ASSUME TypeOK, NEW ls \in SUBSET Lines
  PROVE  /\ Reported(ls) \in Nat
         /\ sr.IEE /\ (ls \ picsr) \cap picmr # {} => Reported(ls) > 0
<1> DEFINE new == (ls \ picsr) \cap picmr
<1>1. IsFiniteSet(new)
  <2>1. IsFiniteSet(Lines)
    BY PicConstants
  <2>2. new \subseteq Lines
    OBVIOUS
  <2> QED BY <2>1, <2>2, FS_Subset
<1>2. Cardinality(new) \in Nat
  BY <1>1, FS_CardinalityType
<1>3. new # {} => Cardinality(new) # 0
  BY <1>1, FS_EmptySet
<1> QED BY <1>2, <1>3 DEF Reported

(* The inductive invariant.  That every report is due is what makes        *)
(* do_scheduler take it before the next instruction.                       *)
IndInv == TypeOK /\ Healthy(queue) /\ (Deliverable => IsQueued(queue, Report))

(* The queue that sim_reset leaves.                                        *)
LEMMA ResetHealthy == Healthy(AfterReset)
<1> DEFINE g == << Entry(Guard, SCHED_TIME_MAX) >>
           h == sched_add(g, Kbd, slowdown)
<1>1. Prompt(g) /\ IsQueued(g, Guard)
  <2>1. g \in Queues(PicJobs) /\ Len(g) = 1 /\ g[1].job = Guard
    BY PicConstants, JobFacts DEF Queues, Entries, Entry
  <2> HIDE DEF g
  <2>2. NonHeadOK(g)
    BY <2>1 DEF NonHeadOK
  <2>3. IsQueued(g, Guard) /\ ~ IsQueued(g, Report)
    BY <2>1, JobFacts DEF IsQueued
  <2>4. \A x : ~ IsDue(g, Report, x)
    BY <2>3, QueuedIsDue
  <2> QED BY <2>1, <2>2, <2>3, <2>4 DEF Prompt
<1>2. AfterReset = sched_add(h, Poll, 1)
  BY DEF AfterReset, Guard, Kbd, Poll
<1> HIDE DEF g
<1>3. Prompt(h) /\ IsQueued(h, Guard)
  <2>1. slowdown \in Int
    BY PicConstants
  <2> QED BY <1>1, <2>1, JobFacts, AddOther DEF Keeps
<1> HIDE DEF h
<1>4. PICK t \in Int : t = 1
  OBVIOUS
<1>5. AfterReset = sched_add(h, Poll, t)
  BY <1>2, <1>4
<1>6. Prompt(AfterReset) /\ Keeps(h, AfterReset) /\ IsQueued(AfterReset, Poll)
  BY <1>3, <1>5, JobFacts, AddOther
<1> QED BY <1>3, <1>6 DEF Healthy, Keeps

(* The configurations start with no interrupt enabled.                     *)
LEMMA InitIndInv == Init => IndInv
<1> SUFFICES ASSUME Init PROVE IndInv
  OBVIOUS
<1>1. Healthy(queue)
  BY ResetHealthy DEF Init
<1>2. queue \in Seq([job : PicJobs, time : Int])
  BY <1>1 DEF Healthy, Prompt, Queues, Entries
<1>3. TypeOK
  BY <1>2, PicConstants DEF Init, TypeOK, PicJobs, Bits, Off, LowPower
<1>4. ~ Deliverable
  BY DEF Init, Deliverable, Off
<1> QED BY <1>1, <1>3, <1>4 DEF IndInv

(* The registers' types are kept by every step that keeps the queue's.     *)
LEMMA NextTypes ==
  ASSUME TypeOK, Next, Healthy(queue')
  PROVE  TypeOK'
<1> DEFINE Q == queue' \in Seq([job : PicJobs, time : Int])
<1>1. Q
  BY DEF Healthy, Prompt, Queues, Entries
<1>2. \A q : LoopTest(q) \in {"insn", "drain", "stopped"}
  BY DEF LoopTest
<1>3. Off \in Bits
  BY DEF Off, Bits
<1> USE <1>1, <1>2, <1>3, PicConstants DEF TypeOK, PicJobs
<1>4. ASSUME NEW l \in Lines, report_interrupt(l) \/ clear_interrupt(l) PROVE TypeOK'
  BY <1>4 DEF report_interrupt, clear_interrupt, conf, cpu, ext, LowPower
<1>5. ASSUME NEW l \in ExtLines,
             or1ksim_interrupt(l) \/ or1ksim_interrupt_set(l) \/ or1ksim_interrupt_clear(l)
      PROVE  TypeOK'
  BY <1>5 DEF or1ksim_interrupt, or1ksim_interrupt_set, or1ksim_interrupt_clear, conf, cpu
<1>6. ASSUME NEW mask \in SUBSET Lines, mtspr_PICMR(mask) \/ mtspr_PICSR(mask) PROVE TypeOK'
  BY <1>6 DEF mtspr_PICMR, mtspr_PICSR, conf, cpu, ext
<1>7. ASSUME NEW value \in Bits, mtspr_SR(value) PROVE TypeOK'
  BY <1>7 DEF mtspr_SR, SRHook, conf, ext
<1>8. ASSUME NEW value \in PMRs, mtspr_PMR(value) PROVE TypeOK'
  BY <1>8 DEF mtspr_PMR, conf, cpu, ext, LowPower, SPR_PMR_DME, SPR_PMR_SME
<1>9. CASE l_rfe
  BY <1>9 DEF l_rfe, SRHook, conf, ext
<1>10. CASE TickAck \/ \E t \in TickDelays : TickStart(t)
  BY <1>10 DEF TickAck, TickStart, conf, cpu, ext
<1>11. ASSUME NEW n \in 0..MaxCycles, Iterate(n) PROVE TypeOK'
  BY <1>11 DEF Iterate, conf, cpu, LowPower
<1>12. CASE pic_rep_int \/ tick_raise_except \/ PeriodicJob
  BY <1>12 DEF pic_rep_int, tick_raise_except, PeriodicJob, except_handle, conf, cpu, ext
<1>14. ASSUME NEW ls \in SUBSET Lines, kbd_job(ls) PROVE TypeOK'
  BY <1>14 DEF kbd_job, conf, cpu, ext, LowPower
<1>15. CASE ReturnEarly \/ or1ksim_run
  BY <1>15 DEF ReturnEarly, or1ksim_run, conf, cpu, ext
<1>16. CASE RunJob
  <2>1. \A l \in Lines : {l} \in SUBSET Lines
    OBVIOUS
  <2> QED BY <1>12, <1>14, <1>16, <2>1 DEF RunJob
<1>13. CASE sim_reset
  BY <1>13 DEF sim_reset, conf, ext, LowPower
<1> QED
  BY <1>4, <1>5, <1>6, <1>7, <1>8, <1>9, <1>10, <1>11, <1>13, <1>15, <1>16 DEF Next

-----------------------------------------------------------------------------
(* pic_ints_en adds a report whenever something unmasked is pending.       *)
LEMMA IntsEnFacts ==
  ASSUME NEW q, Healthy(q), NEW mask, NEW r, r = pic_ints_en(q, mask)
  PROVE  Healthy(r) /\ Keeps(q, r) /\ (mask \cap picsr # {} => IsQueued(r, Report))
<1>1. CASE mask \cap picsr # {}
  BY <1>1, AddReport DEF pic_ints_en
<1>2. CASE mask \cap picsr = {}
  BY <1>2 DEF pic_ints_en, Keeps
<1> QED BY <1>1, <1>2

(* A job is popped and, if it is periodic, queued again.                   *)
LEMMA PopFacts ==
  ASSUME IndInv, NEW job, Popped(job), NEW q, q = PopHead(queue)
  PROVE  /\ Prompt(q) /\ job \in PicJobs
         /\ \A j : j # job => (IsQueued(q, j) <=> IsQueued(queue, j))
<1>1. Healthy(queue) /\ queue[1].job = job /\ q = UnlinkAt(queue, 1)
  BY DEF IndInv, Popped, PopHead
<1>2. 1 \in 1..Len(queue) /\ queue[1].job \in PicJobs
  BY <1>1, EntryType DEF Healthy, Prompt
<1> QED BY <1>1, <1>2, Unlinked

(* Every step keeps the queue healthy, and a report in it while there is   *)
(* an interrupt to deliver.                                                *)
LEMMA NextHealthy ==
  ASSUME IndInv, Next
  PROVE  Healthy(queue') /\ (Deliverable' => IsQueued(queue', Report))
<1> DEFINE Goal == Healthy(queue') /\ (Deliverable' => IsQueued(queue', Report))
<1>a. TypeOK /\ Healthy(queue) /\ (Deliverable => IsQueued(queue, Report))
  BY DEF IndInv
<1>b. sr \in Bits /\ \A v \in Bits : v.IEE \in BOOLEAN
  BY <1>a DEF TypeOK, Bits
<1>1. ASSUME NEW l \in Lines, report_interrupt(l) PROVE Goal
  <2>1. /\ picsr' = picsr \cup {l} /\ picmr' = picmr /\ sr' = sr
        /\ queue' = AddReports(queue, Reported({l}))
    BY <1>1 DEF report_interrupt, cpu
  <2>2. /\ Reported({l}) \in Nat
        /\ sr.IEE /\ ({l} \ picsr) \cap picmr # {} => Reported({l}) > 0
    BY <1>a, ReportedFacts
  <2>3. /\ Healthy(queue') /\ Keeps(queue, queue')
        /\ Reported({l}) > 0 => IsQueued(queue', Report)
    BY <1>a, <2>1, <2>2, AddReportsFacts
  <2>4. ASSUME Deliverable' PROVE IsQueued(queue', Report)
    <3>1. sr.IEE /\ (picsr \cup {l}) \cap picmr # {}
      BY <2>1, <2>4 DEF Deliverable
    <3>2. CASE picsr \cap picmr # {}
      BY <1>a, <2>3, <3>1, <3>2 DEF Deliverable, Keeps
    <3>3. CASE picsr \cap picmr = {}
      <4>1. ({l} \ picsr) \cap picmr # {}
        BY <3>1, <3>3
      <4> QED BY <2>2, <2>3, <3>1, <4>1
    <3> QED BY <3>2, <3>3
  <2> QED BY <2>3, <2>4
<1>2. ASSUME NEW l \in Lines, clear_interrupt(l) PROVE Goal
  <2>1. queue' = queue /\ (Deliverable' => Deliverable)
    BY <1>2 DEF clear_interrupt, cpu, Deliverable
  <2> QED BY <1>a, <2>1
<1>3. ASSUME NEW l \in ExtLines,
             or1ksim_interrupt(l) \/ or1ksim_interrupt_set(l) \/ or1ksim_interrupt_clear(l)
      PROVE  Goal
  <2>1. queue' = queue /\ (Deliverable' => Deliverable)
    BY <1>3 DEF or1ksim_interrupt, or1ksim_interrupt_set, or1ksim_interrupt_clear, cpu, Deliverable
  <2> QED BY <1>a, <2>1
<1>4. ASSUME NEW mask \in SUBSET Lines, mtspr_PICMR(mask) PROVE Goal
  <2>1. /\ picmr' = mask \cup NMI /\ picsr' = picsr /\ sr' = sr
        /\ queue' = IF sr.IEE THEN pic_ints_en(queue, mask \cup NMI) ELSE queue
    BY <1>4 DEF mtspr_PICMR, cpu
  <2>2. CASE sr.IEE
    <3>1. Healthy(queue') /\ ((mask \cup NMI) \cap picsr # {} => IsQueued(queue', Report))
      BY <1>a, <2>1, <2>2, IntsEnFacts
    <3>2. Deliverable' => (mask \cup NMI) \cap picsr # {}
      BY <2>1 DEF Deliverable
    <3> QED BY <3>1, <3>2
  <2>3. CASE ~ sr.IEE
    BY <1>a, <2>1, <2>3 DEF Deliverable
  <2> QED BY <2>2, <2>3
<1>5. ASSUME NEW mask \in SUBSET Lines, mtspr_PICSR(mask) PROVE Goal
  <2>1. queue' = queue /\ picsr' \subseteq picsr /\ picmr' = picmr /\ sr' = sr
    BY <1>5 DEF mtspr_PICSR, cpu
  <2>2. Deliverable' => Deliverable
    BY <2>1 DEF Deliverable
  <2> QED BY <1>a, <2>1, <2>2
<1>6. ASSUME NEW value \in Bits, SRHook(value), picsr' = picsr, picmr' = picmr PROVE Goal
  <2>1. /\ sr' = value
        /\ queue' = IF value.IEE /\ ~ sr.IEE THEN pic_ints_en(queue, picmr) ELSE queue
    BY <1>6 DEF SRHook
  <2>2. CASE value.IEE /\ ~ sr.IEE
    <3>1. Healthy(queue') /\ (picmr \cap picsr # {} => IsQueued(queue', Report))
      BY <1>a, <2>1, <2>2, IntsEnFacts
    <3>2. Deliverable' => picmr \cap picsr # {}
      BY <1>6 DEF Deliverable
    <3> QED BY <3>1, <3>2
  <2>3. CASE ~ (value.IEE /\ ~ sr.IEE)
    <3>1. queue' = queue /\ (Deliverable' => Deliverable)
      BY <1>6, <1>b, <2>1, <2>3 DEF Deliverable
    <3> QED BY <1>a, <3>1
  <2> QED BY <2>2, <2>3
<1>7. ASSUME NEW value \in Bits, mtspr_SR(value) PROVE Goal
  BY <1>6, <1>7 DEF mtspr_SR
<1>8. CASE l_rfe
  <2>1. esr \in Bits
    BY <1>a DEF TypeOK
  <2> QED BY <1>6, <1>8, <2>1 DEF l_rfe
<1>9. ASSUME NEW value \in PMRs, mtspr_PMR(value) PROVE Goal
  <2>1. queue' = queue /\ (Deliverable' => Deliverable)
    BY <1>9 DEF mtspr_PMR, cpu, Deliverable
  <2> QED BY <1>a, <2>1
<1>10. ASSUME NEW t \in TickDelays, TickStart(t) PROVE Goal
  <2>1. /\ queue' = sched_add(queue, Tick, t) /\ (Deliverable' => Deliverable) /\ t \in Int
    BY <1>10, PicConstants DEF TickStart, cpu, Deliverable, Tick
  <2>2. Prompt(queue') /\ Keeps(queue, queue')
    BY <1>a, <2>1, JobFacts, AddOther DEF Healthy
  <2> QED BY <1>a, <2>1, <2>2 DEF Healthy, Keeps
<1>11. CASE TickAck
  <2> DEFINE i == FirstOf(queue, Tick)
  <2>1. IsQueued(queue, Tick)
    BY <1>11 DEF TickAck, Queued, Positions, IsQueued, Tick
  <2>2. queue' = UnlinkAt(queue, i) /\ (Deliverable' => Deliverable)
    BY <1>11, <2>1 DEF TickAck, sched_find_remove, cpu, Deliverable, Tick
  <2>3. i \in 1..Len(queue) /\ queue[i].job = Tick
    BY <1>a, <2>1, FirstOfExists DEF Healthy, Prompt
  <2> HIDE DEF i
  <2>4. Prompt(queue') /\ \A j : j # Tick => (IsQueued(queue', j) <=> IsQueued(queue, j))
    BY <1>a, <2>2, <2>3, Unlinked
  <2> QED BY <1>a, <2>2, <2>4, JobFacts DEF Healthy
<1>12. ASSUME NEW n \in 0..MaxCycles, Iterate(n) PROVE Goal
  <2> DEFINE k == Reported(ext_int_set)
             r == AddReports(queue, k)
  <2>1. /\ picsr' = (picsr \cup ext_int_set) \ ext_int_clr /\ picmr' = picmr /\ sr' = sr
        /\ queue' = Elapse(r, n) /\ n \in Nat
    BY <1>12, PicConstants DEF Iterate, cpu
  <2>2. k \in Nat /\ (sr.IEE /\ (ext_int_set \ picsr) \cap picmr # {} => k > 0)
    <3>1. ext_int_set \in SUBSET Lines
      BY <1>a DEF TypeOK
    <3> QED BY <1>a, <3>1, ReportedFacts
  <2> HIDE DEF k
  <2>3. Healthy(r) /\ Keeps(queue, r) /\ (k > 0 => IsQueued(r, Report))
    BY <1>a, <2>2, AddReportsFacts
  <2> HIDE DEF r
  <2>4. Healthy(queue') /\ Keeps(r, queue')
    BY <2>1, <2>3, Elapsed
  <2>5. ASSUME Deliverable' PROVE IsQueued(queue', Report)
    <3>1. sr.IEE /\ (picsr \cup ext_int_set) \cap picmr # {}
      BY <2>1, <2>5 DEF Deliverable
    <3>2. CASE picsr \cap picmr # {}
      BY <1>a, <2>3, <2>4, <3>1, <3>2 DEF Deliverable, Keeps
    <3>3. CASE picsr \cap picmr = {}
      <4>1. (ext_int_set \ picsr) \cap picmr # {}
        BY <3>1, <3>3
      <4> QED BY <2>2, <2>3, <2>4, <3>1, <4>1 DEF Keeps
    <3> QED BY <3>2, <3>3
  <2> QED BY <2>4, <2>5
<1>13. CASE pic_rep_int
  <2>1. Popped(Report) /\ queue' = PopHead(queue)
    BY <1>13 DEF pic_rep_int, Report
  <2>2. Prompt(queue') /\ \A j : j # Report => (IsQueued(queue', j) <=> IsQueued(queue, j))
    BY <2>1, PopFacts
  <2>3. Healthy(queue')
    BY <1>a, <2>2, JobFacts DEF Healthy
  <2>4. ~ Deliverable'
    BY <1>13 DEF pic_rep_int, except_handle, Deliverable, Off
  <2> QED BY <2>3, <2>4
<1>14. CASE tick_raise_except
  <2> DEFINE q == PopHead(queue)
             t == 1 - AllTime(q)[NegRun(q)]
  <2>1. Popped(Tick) /\ queue' = sched_add(q, Tick, t)
    BY <1>14 DEF tick_raise_except, sched_next_insn, Tick
  <2>2. Prompt(q) /\ \A j : j # Tick => (IsQueued(q, j) <=> IsQueued(queue, j))
    BY <2>1, PopFacts
  <2> HIDE DEF q
  <2>3. t \in Int
    BY <2>2, NegRunExists DEF Prompt
  <2> HIDE DEF t
  <2>4. Prompt(queue') /\ Keeps(q, queue')
    BY <2>1, <2>2, <2>3, JobFacts, AddOther
  <2>5. Deliverable' => Deliverable
    BY <1>14 DEF tick_raise_except, except_handle, Deliverable, Off, cpu
  <2> QED BY <1>a, <2>2, <2>4, <2>5, JobFacts DEF Healthy, Keeps
<1>15. ASSUME NEW job \in PicJobs, job = Poll \/ job = Guard, NEW t \in Int, Popped(job),
              queue' = sched_add(PopHead(queue), job, t)
       PROVE  Healthy(queue') /\ (IsQueued(queue, Report) => IsQueued(queue', Report))
  <2> DEFINE q == PopHead(queue)
  <2>1. Prompt(q) /\ \A j : j # job => (IsQueued(q, j) <=> IsQueued(queue, j))
    BY <1>15, PopFacts
  <2> HIDE DEF q
  <2>2. queue' = sched_add(q, job, t) /\ job # Report
    BY <1>15, JobFacts DEF q
  <2>3. Prompt(queue') /\ Keeps(q, queue') /\ IsQueued(queue', job)
    BY <1>15, <2>1, <2>2, AddOther
  <2> QED BY <1>15, <1>a, <2>1, <2>2, <2>3, JobFacts DEF Healthy, Keeps
<1>16. CASE PeriodicJob
  <2>1. PICK job \in {"check_int", "sched_guard"} :
          Popped(job) /\ queue' = sched_add(PopHead(queue), job, Periodic(job))
    BY <1>16 DEF PeriodicJob
  <2>2. job \in PicJobs /\ (job = Poll \/ job = Guard) /\ Periodic(job) \in Int
    BY PicConstants DEF PicJobs, Poll, Guard, Periodic
  <2>3. Healthy(queue') /\ (IsQueued(queue, Report) => IsQueued(queue', Report))
    BY <1>15, <2>1, <2>2
  <2>4. Deliverable' => Deliverable
    BY <1>16 DEF PeriodicJob, Deliverable, cpu
  <2> QED BY <1>a, <2>3, <2>4
<1>17. CASE sim_reset
  <2>1. queue' = sched_add(AfterReset, Poll, CHECK_INT_TIME) /\ CHECK_INT_TIME \in Int
    BY <1>17, PicConstants DEF sim_reset, Poll
  <2>2. Prompt(queue') /\ Keeps(AfterReset, queue')
    BY <2>1, ResetHealthy, JobFacts, AddOther DEF Healthy
  <2>3. ~ Deliverable'
    BY <1>17 DEF sim_reset, Deliverable, Off
  <2> QED BY <2>2, <2>3, ResetHealthy DEF Healthy, Keeps
<1>18. ASSUME NEW ls \in SUBSET Lines, kbd_job(ls) PROVE Goal
  <2> DEFINE q == PopHead(queue)
             k == Reported(ls)
             r == AddReports(q, k)
  <2>1. /\ Popped(Kbd) /\ picsr' = picsr \cup ls /\ picmr' = picmr /\ sr' = sr
        /\ queue' = sched_add(r, Kbd, slowdown) /\ slowdown \in Int
    BY <1>18, PicConstants DEF kbd_job, cpu, Kbd
  <2>2. k \in Nat /\ (sr.IEE /\ (ls \ picsr) \cap picmr # {} => k > 0)
    BY <1>a, ReportedFacts
  <2> HIDE DEF k
  <2>3. Prompt(q) /\ \A j : j # Kbd => (IsQueued(q, j) <=> IsQueued(queue, j))
    BY <2>1, PopFacts
  <2>4. Healthy(q) /\ (IsQueued(queue, Report) => IsQueued(q, Report))
    BY <1>a, <2>3, JobFacts DEF Healthy
  <2> HIDE DEF q
  <2>5. Healthy(r) /\ Keeps(q, r) /\ (k > 0 => IsQueued(r, Report))
    BY <2>2, <2>4, AddReportsFacts
  <2> HIDE DEF r
  <2>6. Prompt(queue') /\ Keeps(r, queue')
    BY <2>1, <2>5, JobFacts, AddOther DEF Healthy
  <2>7. Healthy(queue')
    BY <2>5, <2>6 DEF Healthy, Keeps
  <2>8. ASSUME Deliverable' PROVE IsQueued(queue', Report)
    <3>1. sr.IEE /\ (picsr \cup ls) \cap picmr # {}
      BY <2>1, <2>8 DEF Deliverable
    <3>2. CASE picsr \cap picmr # {}
      BY <1>a, <2>4, <2>5, <2>6, <3>1, <3>2 DEF Deliverable, Keeps
    <3>3. CASE picsr \cap picmr = {}
      <4>1. (ls \ picsr) \cap picmr # {}
        BY <3>1, <3>3
      <4> QED BY <2>2, <2>5, <2>6, <3>1, <4>1 DEF Keeps
    <3> QED BY <3>2, <3>3
  <2> QED BY <2>7, <2>8
<1>19. CASE ReturnEarly \/ or1ksim_run
  <2>1. queue' = queue /\ (Deliverable' => Deliverable)
    BY <1>19 DEF ReturnEarly, or1ksim_run, cpu, Deliverable
  <2> QED BY <1>a, <2>1
<1>20. CASE RunJob
  <2>1. \A l \in Lines : {l} \in SUBSET Lines
    OBVIOUS
  <2> QED BY <1>13, <1>14, <1>16, <1>18, <1>20, <2>1 DEF RunJob
<1> QED
  BY <1>1, <1>2, <1>3, <1>4, <1>5, <1>7, <1>8, <1>9, <1>10, <1>11, <1>12, <1>17, <1>19, <1>20
  DEF Next

(* IndInv is inductive.                                                    *)
LEMMA NextIndInv == IndInv /\ [Next]_vars => IndInv'
<1> SUFFICES ASSUME IndInv, [Next]_vars PROVE IndInv'
  OBVIOUS
<1>1. CASE Next
  <2>1. Healthy(queue') /\ (Deliverable' => IsQueued(queue', Report))
    BY <1>1, NextHealthy
  <2>2. TypeOK'
    BY <1>1, <2>1, NextTypes DEF IndInv
  <2> QED BY <2>1, <2>2 DEF IndInv
<1>2. CASE UNCHANGED vars
  BY <1>2 DEF vars, conf, cpu, ext, IndInv, TypeOK, Deliverable
<1> QED BY <1>1, <1>2

(* It holds in every reachable state.                                      *)
LEMMA IndInvHolds == Spec => []IndInv
BY InitIndInv, NextIndInv, PTL DEF Spec

(* No interrupt is lost, for any set of lines and any NMI: while one is    *)
(* pending, unmasked and enabled, pic_rep_int is queued, whichever of the  *)
(* line, PICMR and SR[IEE] came last, and after a reset too.               *)
THEOREM NoInterruptIsLost == Spec => []NoLostInterrupt
<1>1. IndInv => NoLostInterrupt
  BY DEF IndInv, NoLostInterrupt, Queued, Positions, IsQueued, Report
<1> QED BY <1>1, IndInvHolds, PTL

(* When the loop goes on to the next instruction no report is left in the  *)
(* queue: each is due at once and stays so, also when it is added while    *)
(* other jobs run or left behind by an early return of or1ksim_run, and    *)
(* do_scheduler leaves nothing due.                                        *)
THEOREM ReportsAreTaken == Spec => TakenAfterInsn
<1> DEFINE Goes == phase = "drain" \/ \E n \in 0..MaxCycles : Iterate(n)
           Taken == phase' = "insn" /\ Goes
                      => \A i \in 1..Len(queue') : queue'[i].job # "pic_rep_int"
<1>1. IndInv /\ IndInv' /\ Next => Taken
  <2> SUFFICES ASSUME IndInv', Next, Goes, phase' = "insn",
                      NEW i \in 1..Len(queue'), queue'[i].job = Report
               PROVE  FALSE
    BY DEF Report
  <2>1. queue' \in Queues(PicJobs) /\ Len(queue') >= 1 /\ NonHeadOK(queue')
        /\ \A x : IsDue(queue', Report, x) => x <= 0
    BY DEF IndInv, Healthy, Prompt
  <2>2. phase' = LoopTest(queue')
    <3>1. CASE phase = "drain"
      <4>1. RunJob \/ sim_reset
        BY <3>1 DEF Next, Iterate, ReturnEarly, or1ksim_run, report_interrupt, clear_interrupt,
                    or1ksim_interrupt, or1ksim_interrupt_set, or1ksim_interrupt_clear,
                    mtspr_PICMR, mtspr_PICSR, mtspr_SR, mtspr_PMR, l_rfe, TickStart, TickAck,
                    Executing
      <4> QED BY <4>1 DEF RunJob, pic_rep_int, tick_raise_except, PeriodicJob, kbd_job, sim_reset
    <3>2. CASE \E n \in 0..MaxCycles : Iterate(n)
      BY <3>2 DEF Iterate
    <3> QED BY <3>1, <3>2
  <2>3. ~ HeadDue(queue')
    BY <2>2 DEF LoopTest
  <2>4. DueIn(queue', i) > 0
    BY <2>1, <2>3, HeadNotDueNoneDue
  <2>5. DueIn(queue', i) <= 0 /\ DueIn(queue', i) \in Int
    <3>1. IsDue(queue', Report, DueIn(queue', i))
      BY DEF IsDue
    <3> QED BY <2>1, <3>1, DueIsInt
  <2> QED BY <2>4, <2>5
<1>2. IndInv /\ IndInv' /\ [Next]_vars => [Taken]_vars
  BY <1>1
<1> QED BY <1>2, IndInvHolds, PTL DEF Spec, TakenAfterInsn

=============================================================================
