----------------------------- MODULE TickProofs -----------------------------
(***************************************************************************)
(* Proofs about the tick timer, for every width of the counter and of its  *)
(* match field, every set of periods and every length of instructions.     *)
(***************************************************************************)
EXTENDS Tick, SchedOpsProofs, FiniteSetTheorems

(* Names for the jobs, which the proofs need not know to be strings.       *)
AllJobs == TickJobs \cup {"check_int", "sched_guard"}
(* The jobs of the queue.                                                  *)
Raise == "tick_raise_except"
Restart == "tick_restart"
OneShot == "tick_one_shot"
Poll == "check_int"
Guard == "sched_guard"

(* The jobs are different ones.                                            *)
LEMMA JobFacts ==
  /\ TickJobs = {Raise, Restart, OneShot} /\ AllJobs = TickJobs \cup {Poll, Guard}
  /\ Raise # Restart /\ Raise # OneShot /\ Restart # OneShot
  /\ Poll \notin TickJobs /\ Guard \notin TickJobs /\ Poll # Guard
  /\ Raise # Poll /\ Raise # Guard /\ Restart # Poll /\ Restart # Guard
  /\ OneShot # Poll /\ OneShot # Guard
  /\ Raise \in AllJobs /\ Restart \in AllJobs /\ OneShot \in AllJobs
  /\ Poll \in AllJobs /\ Guard \in AllJobs
BY DEF TickJobs, AllJobs, Raise, Restart, OneShot, Poll, Guard

-----------------------------------------------------------------------------
(* The remainder, as the quotient's rest.                                  *)
LEMMA Division ==
  ASSUME NEW m \in Nat, m > 0, NEW a \in Int
  PROVE  a \div m \in Int /\ a % m \in 0..(m - 1) /\ a = (a \div m) * m + (a % m)
OBVIOUS

(* It is the only rest smaller than the divisor.                           *)
LEMMA RestIs ==
  ASSUME NEW m \in Nat, m > 0, NEW a \in Int, NEW k \in Int, NEW r \in 0..(m - 1), a = k * m + r
  PROVE  a % m = r
OBVIOUS

(* Multiples of the divisor leave it alone.                                *)
LEMMA RestSame ==
  ASSUME NEW m \in Nat, m > 0, NEW a \in Int, NEW b \in Int, NEW k \in Int, b = a + k * m
  PROVE  b % m = a % m
<1>1. PICK d \in Int, r \in 0..(m - 1) : a = d * m + r /\ r = a % m
  BY Division
<1>2. (d + k) * m = d * m + k * m
  OBVIOUS
<1>3. b = (d + k) * m + r /\ d + k \in Int
  BY <1>1, <1>2
<1>4. b % m = r
  BY <1>3, RestIs
<1> QED BY <1>1, <1>4

(* The values of the registers.                                            *)
Registers == [TP : 0..(TP_MOD - 1), IP : BOOLEAN, IE : BOOLEAN, M : Modes]
(* The values of TTCR.                                                     *)
Counts == 0..(TTCR_MOD - 1)

(* The facts about the widths that the proofs use.                         *)
LEMMA WidthFacts ==
  /\ TP_MOD \in Nat /\ TP_MOD > 0 /\ TTCR_MOD \in Nat /\ TTCR_MOD > 0 /\ TTCR_MOD % TP_MOD = 0
  /\ 0..(TP_MOD - 1) \subseteq Counts
  /\ \A tp \in 0..(TP_MOD - 1) : tp % TP_MOD = tp
<1>1. TP_MOD \in Nat /\ TP_MOD > 0 /\ TTCR_MOD \in Nat /\ TTCR_MOD > 0 /\ TTCR_MOD % TP_MOD = 0
  BY TickConstants
<1>2. PICK d \in Int : TTCR_MOD = d * TP_MOD
  <2>1. TTCR_MOD \div TP_MOD \in Int /\ TTCR_MOD = (TTCR_MOD \div TP_MOD) * TP_MOD + (TTCR_MOD % TP_MOD)
    BY <1>1, Division
  <2> QED BY <1>1, <2>1
<1>3. d >= 1
  <2> SUFFICES ASSUME d <= 0 PROVE FALSE
    OBVIOUS
  <2>1. d * TP_MOD <= 0
    BY <1>1
  <2> QED BY <1>1, <1>2, <2>1
<1>4. TTCR_MOD >= TP_MOD
  <2>1. d * TP_MOD >= TP_MOD
    BY <1>1, <1>3
  <2> QED BY <1>2, <2>1
<1>5. \A tp \in 0..(TP_MOD - 1) : tp % TP_MOD = tp
  BY <1>1
<1> QED BY <1>1, <1>4, <1>5 DEF Counts

(* The part of TTCR that is compared with TP does not notice that TTCR     *)
(* wraps.                                                                  *)
LEMMA TickWrap ==
  ASSUME NEW a \in Int, NEW x \in Int, NEW b \in Int, b = a % TTCR_MOD
  PROVE  (b + x) % TP_MOD = (a + x) % TP_MOD
<1>1. /\ TP_MOD \in Nat /\ TP_MOD > 0 /\ TTCR_MOD \in Nat /\ TTCR_MOD > 0
      /\ TTCR_MOD % TP_MOD = 0
  BY WidthFacts
<1>2. PICK d \in Int : TTCR_MOD = d * TP_MOD
  <2>1. TTCR_MOD \div TP_MOD \in Int /\ TTCR_MOD = (TTCR_MOD \div TP_MOD) * TP_MOD + (TTCR_MOD % TP_MOD)
    BY <1>1, Division
  <2> QED BY <1>1, <2>1
<1>3. PICK e \in Int : a = e * TTCR_MOD + b
  BY <1>1, Division
<1>4. e * TTCR_MOD = (e * d) * TP_MOD /\ e * d \in Int
  BY <1>1, <1>2
<1>5. PICK k \in Int, p \in Int : k = e * d /\ p = k * TP_MOD /\ a = p + b
  BY <1>1, <1>3, <1>4
<1>6. a + x = (b + x) + p /\ a + x \in Int /\ b + x \in Int
  BY <1>5
<1>7. a + x = (b + x) + k * TP_MOD
  BY <1>5, <1>6
<1>8. PICK u \in Int, v \in Int : u = a + x /\ v = b + x
  BY <1>6
<1>9. u = v + k * TP_MOD
  BY <1>7, <1>8
<1>10. u % TP_MOD = v % TP_MOD
  BY <1>1, <1>9, RestSame
<1> QED BY <1>8, <1>10

(* CyclesUntil is the distance to the next match, zero at a match.         *)
LEMMA UntilFacts ==
  ASSUME NEW new \in Registers, NEW count \in Counts, NEW u, u = CyclesUntil(new, count)
  PROVE  /\ u \in Nat /\ u < TP_MOD
         /\ (count + u) % TP_MOD = new.TP
         /\ u = 0 <=> count % TP_MOD = new.TP
<1> DEFINE c == count % TP_MOD
           tp == new.TP
<1>1. TP_MOD \in Nat /\ TP_MOD > 0 /\ count \in Int
  BY WidthFacts DEF Counts
<1>2. tp \in 0..(TP_MOD - 1)
  BY DEF Registers
<1>3. PICK d \in Int : count = d * TP_MOD + c /\ c \in 0..(TP_MOD - 1)
  BY <1>1, Division
<1>4. u = IF tp >= c THEN tp - c ELSE tp + (TP_MOD - 1 - c) + 1
  BY DEF CyclesUntil
<1> HIDE DEF c, tp
<1>5. CASE tp >= c
  <2>1. /\ count + u = d * TP_MOD + tp /\ count + u \in Int
        /\ u \in Nat /\ u < TP_MOD /\ (u = 0 <=> c = tp)
    BY <1>1, <1>2, <1>3, <1>4, <1>5
  <2> QED BY <1>1, <1>2, <2>1, RestIs DEF c, tp
<1>6. CASE ~(tp >= c)
  <2>0. (d + 1) * TP_MOD = d * TP_MOD + TP_MOD
    BY <1>1
  <2>1. count + u = (d + 1) * TP_MOD + tp /\ count + u \in Int /\ d + 1 \in Int
    BY <1>1, <1>2, <1>3, <1>4, <1>6, <2>0
  <2>2. u \in Nat /\ u < TP_MOD /\ u # 0 /\ c # tp
    BY <1>1, <1>2, <1>3, <1>4, <1>6
  <2> QED BY <1>1, <1>2, <2>1, <2>2, RestIs DEF c, tp
<1> QED BY <1>5, <1>6

-----------------------------------------------------------------------------
(* The queue between two job functions: no delta behind the head is        *)
(* negative, the guard and the poll are in it, and no job of the timer is  *)
(* in it twice.                                                            *)
Healthy(q) ==
  /\ q \in Queues(AllJobs) /\ NonHeadOK(q) /\ IsQueued(q, Guard) /\ IsQueued(q, Poll)
  /\ Once(q, Raise) /\ Once(q, Restart) /\ Once(q, OneShot)

(* It is not empty.                                                        *)
LEMMA HealthyLen ==
  ASSUME NEW q, Healthy(q)
  PROVE  q \in Queues(AllJobs) /\ Len(q) >= 1
<1>1. q \in Queues(AllJobs) /\ IsQueued(q, Guard)
  BY DEF Healthy
<1>2. Len(q) \in Nat
  BY <1>1, EntryType
<1> QED BY <1>1, <1>2 DEF IsQueued

(* A job of the timer is removed.                                          *)
LEMMA RemoveTick ==
  ASSUME NEW q, Healthy(q), NEW job \in TickJobs, NEW r, r = sched_find_remove(q, job)
  PROVE  Healthy(r) /\ ~ IsQueued(r, job) /\ OthersSame(r, q, job)
<1>1. q \in Queues(AllJobs) /\ NonHeadOK(q) /\ Once(q, job)
  BY JobFacts DEF Healthy
<1>2. r \in Queues(AllJobs) /\ NonHeadOK(r) /\ ~ IsQueued(r, job) /\ OthersSame(r, q, job)
  BY <1>1, RemoveFacts
<1>3. Once(r, job)
  BY <1>2 DEF Once, IsQueued
<1>4. \A j : j # job => (IsQueued(r, j) <=> IsQueued(q, j)) /\ (Once(r, j) <=> Once(q, j))
  BY <1>2 DEF OthersSame
<1> QED BY <1>2, <1>3, <1>4, JobFacts DEF Healthy

(* A job of the timer that is not queued is added.                         *)
LEMMA AddTick ==
  ASSUME NEW q, Healthy(q), NEW job \in TickJobs, ~ IsQueued(q, job), NEW t \in Int,
         NEW r, r = sched_add(q, job, t)
  PROVE  /\ Healthy(r) /\ IsQueued(r, job) /\ OthersSame(q, r, job)
         /\ t >= 0 => \A x : IsDue(r, job, x) <=> x = t
         /\ \A b : b # job /\ (\A x : IsDue(q, b, x) => x >= t) => Before(r, job, b)
<1>1. /\ r \in Queues(AllJobs) /\ NonHeadOK(r)
      /\ OthersSame(q, r, job) /\ IsQueued(r, job) /\ Once(r, job)
      /\ \A x : IsDue(r, job, x) <=> IsDue(q, job, x) \/ x = AddedDue(q, t)
      /\ t >= 0 => AddedDue(q, t) = t
      /\ \A b : /\ b # job /\ ~ IsQueued(q, job)
                /\ \A x : IsDue(q, b, x) => x >= t
                => Before(r, job, b)
  <2>1. q \in Queues(AllJobs) /\ NonHeadOK(q) /\ Len(q) >= 1 /\ job \in AllJobs
    BY HealthyLen, JobFacts DEF Healthy
  <2> QED BY <2>1, AddFacts
<1>2. \A x : ~ IsDue(q, job, x)
  BY QueuedIsDue
<1>3. Healthy(r)
  BY <1>1, JobFacts DEF Healthy, OthersSame
<1> QED BY <1>1, <1>2, <1>3

(* A queue without one of two jobs has them in either order.               *)
LEMMA NoneBefore ==
  ASSUME NEW q, NEW a, NEW b, ~ IsQueued(q, a) \/ ~ IsQueued(q, b)
  PROVE  Before(q, a, b)
BY DEF Before, IsQueued

-----------------------------------------------------------------------------
(* An interrupt comes before the jobs for the same match.                  *)
RaiseFirst(q) == Before(q, Raise, Restart) /\ Before(q, Raise, OneShot)

(* sched_timer_job first removes every job that the registers asked for,   *)
(* except that of an interrupt which is still pending.                     *)
LEMMA StaleFacts ==
  ASSUME NEW q0, Healthy(q0), NEW prev \in Registers, NEW new \in Registers,
         IsQueued(q0, Raise) => prev.IE,
         IsQueued(q0, Restart) => prev.M = "RT",
         IsQueued(q0, OneShot) => prev.M = "SR",
         NEW q, q = RemoveStale(q0, prev, new)
  PROVE  /\ Healthy(q) /\ ~ IsQueued(q, Restart) /\ ~ IsQueued(q, OneShot)
         /\ ~ new.IP => ~ IsQueued(q, Raise)
         /\ new.IP => (IsQueued(q, Raise) <=> IsQueued(q0, Raise))
<1> DEFINE q1 == IF prev.IE /\ ~ new.IP THEN sched_find_remove(q0, Raise) ELSE q0
<1>0. new.IP \in BOOLEAN /\ prev.IE \in BOOLEAN
  BY DEF Registers
<1>1. /\ Healthy(q1)
      /\ ~ new.IP => ~ IsQueued(q1, Raise)
      /\ new.IP => (IsQueued(q1, Raise) <=> IsQueued(q0, Raise))
      /\ IsQueued(q1, Restart) <=> IsQueued(q0, Restart)
      /\ IsQueued(q1, OneShot) <=> IsQueued(q0, OneShot)
  <2>1. CASE prev.IE /\ ~ new.IP
    <3>1. q1 = sched_find_remove(q0, Raise)
      BY <2>1
    <3> HIDE DEF q1
    <3>2. Healthy(q1) /\ ~ IsQueued(q1, Raise) /\ OthersSame(q1, q0, Raise)
      BY <3>1, JobFacts, RemoveTick
    <3> QED BY <2>1, <3>2, JobFacts DEF OthersSame
  <2>2. CASE ~ (prev.IE /\ ~ new.IP)
    BY <1>0, <2>2
  <2> QED BY <2>1, <2>2
<1>2. q = CASE prev.M = "RT" -> sched_find_remove(q1, Restart)
            [] prev.M = "SR" -> sched_find_remove(q1, OneShot)
            [] OTHER         -> q1
  BY DEF RemoveStale, Raise, Restart, OneShot
<1> HIDE DEF q1
<1>3. CASE prev.M = "RT"
  <2>1. q = sched_find_remove(q1, Restart)
    BY <1>2, <1>3
  <2>2. Healthy(q) /\ ~ IsQueued(q, Restart) /\ OthersSame(q, q1, Restart)
    BY <1>1, <2>1, JobFacts, RemoveTick
  <2> QED BY <1>1, <1>3, <2>2, JobFacts DEF OthersSame
<1>4. CASE prev.M = "SR"
  <2>1. q = sched_find_remove(q1, OneShot)
    BY <1>2, <1>4
  <2>2. Healthy(q) /\ ~ IsQueued(q, OneShot) /\ OthersSame(q, q1, OneShot)
    BY <1>1, <2>1, JobFacts, RemoveTick
  <2> QED BY <1>1, <1>4, <2>2, JobFacts DEF OthersSame
<1>5. CASE prev.M # "RT" /\ prev.M # "SR"
  BY <1>1, <1>2, <1>5
<1> QED BY <1>3, <1>4, <1>5

(* AddRaise queues the interrupt for the match if it is enabled, before    *)
(* any job for the same cycle.                                             *)
LEMMA RaiseFacts ==
  ASSUME NEW q, Healthy(q), NEW new \in Registers, NEW u \in Nat,
         ~ new.IP => ~ IsQueued(q, Raise),
         \A x : IsDue(q, Restart, x) \/ IsDue(q, OneShot, x) => x >= u,
         NEW r, r = AddRaise(q, new, u)
  PROVE  /\ Healthy(r) /\ OthersSame(q, r, Raise)
         /\ new.IP => (IsQueued(r, Raise) <=> IsQueued(q, Raise))
         /\ ~ new.IP => /\ IsQueued(r, Raise) <=> new.IE
                        /\ \A x : IsDue(r, Raise, x) => x = u
                        /\ RaiseFirst(r)
<1>1. CASE new.IE /\ ~ new.IP
  <2>1. r = sched_add(q, Raise, u) /\ u \in Int /\ u >= 0
    BY <1>1 DEF AddRaise, Raise
  <2>2. /\ Healthy(r) /\ IsQueued(r, Raise) /\ OthersSame(q, r, Raise)
        /\ \A x : IsDue(r, Raise, x) <=> x = u
        /\ RaiseFirst(r)
    BY <1>1, <2>1, JobFacts, AddTick DEF RaiseFirst
  <2> QED BY <1>1, <2>2
<1>2. CASE ~ (new.IE /\ ~ new.IP)
  <2>1. r = q
    BY <1>2 DEF AddRaise
  <2>2. ~ new.IP => ~ IsQueued(r, Raise) /\ ~ new.IE
    BY <1>2, <2>1
  <2>3. ~ new.IP => RaiseFirst(r) /\ \A x : ~ IsDue(r, Raise, x)
    BY <2>2, NoneBefore, QueuedIsDue DEF RaiseFirst
  <2>4. OthersSame(q, r, Raise)
    BY <2>1 DEF OthersSame
  <2> QED BY <2>1, <2>2, <2>3, <2>4
<1> QED BY <1>1, <1>2

(* What sched_timer_job leaves in the queue: the jobs that the new         *)
(* registers ask for, due at the match.                                    *)
Timed(r, q0, new, u, run) ==
  /\ Healthy(r)
  /\ IsQueued(r, Restart) <=> new.M = "RT"
  /\ IsQueued(r, OneShot) <=> new.M = "SR" /\ run
  /\ \A x : IsDue(r, Restart, x) \/ IsDue(r, OneShot, x) => x = u
  /\ new.IP => (IsQueued(r, Raise) <=> IsQueued(q0, Raise))
  /\ ~ new.IP => /\ IsQueued(r, Raise) <=> /\ new.IE
                                           /\ \/ new.M \in {"RT", "CR"}
                                              \/ new.M = "SR" /\ run
                                              \/ new.M = "DIS" /\ u = 0
                 /\ \A x : IsDue(r, Raise, x) => x = u
                 /\ RaiseFirst(r)

(* sched_timer_job leaves the queue that Timed describes, whatever was     *)
(* queued for the registers before.                                        *)
LEMMA TimerJobFacts ==
  ASSUME NEW q0, Healthy(q0), NEW prev \in Registers, NEW new \in Registers,
         NEW count \in Counts, NEW run \in BOOLEAN,
         IsQueued(q0, Raise) => prev.IE,
         IsQueued(q0, Restart) => prev.M = "RT",
         IsQueued(q0, OneShot) => prev.M = "SR",
         NEW u, u = CyclesUntil(new, count),
         NEW r, r = sched_timer_job(q0, prev, new, count, run)
  PROVE  Timed(r, q0, new, u, run)
<1> DEFINE q == RemoveStale(q0, prev, new)
<1>1. u \in Nat /\ u \in Int /\ u >= 0
  BY UntilFacts
<1>2. new.M \in Modes
  BY DEF Registers
<1>3. r = CASE new.M = "DIS" -> IF u = 0 THEN AddRaise(q, new, u) ELSE q
            [] new.M = "RT"  -> AddRaise(sched_add(q, Restart, u), new, u)
            [] new.M = "SR"  -> IF run THEN AddRaise(sched_add(q, OneShot, u), new, u) ELSE q
            [] new.M = "CR"  -> AddRaise(q, new, u)
  BY DEF sched_timer_job, Restart, OneShot
<1>4. /\ Healthy(q) /\ ~ IsQueued(q, Restart) /\ ~ IsQueued(q, OneShot)
      /\ ~ new.IP => ~ IsQueued(q, Raise)
      /\ new.IP => (IsQueued(q, Raise) <=> IsQueued(q0, Raise))
  BY StaleFacts
<1> HIDE DEF q
<1>5. \A x : ~ IsDue(q, Restart, x) /\ ~ IsDue(q, OneShot, x)
  BY <1>4, QueuedIsDue
<1>6. ASSUME r = q, \/ new.M = "DIS" /\ u # 0
                    \/ new.M = "SR" /\ ~ run
      PROVE  Timed(r, q0, new, u, run)
  <2>1. r = q
    BY <1>6
  <2>2. ~ new.IP => RaiseFirst(r) /\ \A x : ~ IsDue(r, Raise, x)
    BY <1>4, <2>1, NoneBefore, QueuedIsDue DEF RaiseFirst
  <2> QED BY <1>4, <1>5, <1>6, <2>1, <2>2 DEF Timed
<1>7. CASE (new.M = "DIS" /\ u = 0) \/ new.M = "CR"
  <2>1. r = AddRaise(q, new, u)
    BY <1>3, <1>7
  <2>2. /\ Healthy(r) /\ OthersSame(q, r, Raise)
        /\ new.IP => (IsQueued(r, Raise) <=> IsQueued(q, Raise))
        /\ ~ new.IP => /\ IsQueued(r, Raise) <=> new.IE
                       /\ \A x : IsDue(r, Raise, x) => x = u
                       /\ RaiseFirst(r)
    BY <1>1, <1>4, <1>5, <2>1, RaiseFacts
  <2>3. /\ ~ IsQueued(r, Restart) /\ ~ IsQueued(r, OneShot)
        /\ \A x : ~ IsDue(r, Restart, x) /\ ~ IsDue(r, OneShot, x)
    BY <1>4, <1>5, <2>2, JobFacts DEF OthersSame
  <2> QED BY <1>4, <1>7, <2>2, <2>3 DEF Timed
<1>8. CASE new.M = "RT"
  <2> DEFINE p == sched_add(q, Restart, u)
  <2>1. r = AddRaise(p, new, u)
    BY <1>3, <1>8
  <2>2. /\ Healthy(p) /\ IsQueued(p, Restart) /\ OthersSame(q, p, Restart)
        /\ \A x : IsDue(p, Restart, x) <=> x = u
    BY <1>1, <1>4, JobFacts, AddTick
  <2> HIDE DEF p
  <2>3. /\ IsQueued(p, Raise) <=> IsQueued(q, Raise)
        /\ ~ IsQueued(p, OneShot) /\ \A x : ~ IsDue(p, OneShot, x)
        /\ \A x : IsDue(p, Restart, x) \/ IsDue(p, OneShot, x) => x >= u
    BY <1>1, <1>4, <1>5, <2>2, JobFacts DEF OthersSame
  <2>4. /\ Healthy(r) /\ OthersSame(p, r, Raise)
        /\ new.IP => (IsQueued(r, Raise) <=> IsQueued(p, Raise))
        /\ ~ new.IP => /\ IsQueued(r, Raise) <=> new.IE
                       /\ \A x : IsDue(r, Raise, x) => x = u
                       /\ RaiseFirst(r)
    BY <1>1, <1>4, <2>1, <2>2, <2>3, RaiseFacts
  <2>5. /\ IsQueued(r, Restart) /\ ~ IsQueued(r, OneShot)
        /\ \A x : (IsDue(r, Restart, x) => x = u) /\ ~ IsDue(r, OneShot, x)
    BY <2>2, <2>3, <2>4, JobFacts DEF OthersSame
  <2> QED BY <1>4, <1>8, <2>3, <2>4, <2>5 DEF Timed
<1>9. CASE new.M = "SR" /\ run
  <2> DEFINE p == sched_add(q, OneShot, u)
  <2>1. r = AddRaise(p, new, u)
    BY <1>3, <1>9
  <2>2. /\ Healthy(p) /\ IsQueued(p, OneShot) /\ OthersSame(q, p, OneShot)
        /\ \A x : IsDue(p, OneShot, x) <=> x = u
    BY <1>1, <1>4, JobFacts, AddTick
  <2> HIDE DEF p
  <2>3. /\ IsQueued(p, Raise) <=> IsQueued(q, Raise)
        /\ ~ IsQueued(p, Restart) /\ \A x : ~ IsDue(p, Restart, x)
        /\ \A x : IsDue(p, Restart, x) \/ IsDue(p, OneShot, x) => x >= u
    BY <1>1, <1>4, <1>5, <2>2, JobFacts DEF OthersSame
  <2>4. /\ Healthy(r) /\ OthersSame(p, r, Raise)
        /\ new.IP => (IsQueued(r, Raise) <=> IsQueued(p, Raise))
        /\ ~ new.IP => /\ IsQueued(r, Raise) <=> new.IE
                       /\ \A x : IsDue(r, Raise, x) => x = u
                       /\ RaiseFirst(r)
    BY <1>1, <1>4, <2>1, <2>2, <2>3, RaiseFacts
  <2>5. /\ IsQueued(r, OneShot) /\ ~ IsQueued(r, Restart)
        /\ \A x : (IsDue(r, OneShot, x) => x = u) /\ ~ IsDue(r, Restart, x)
    BY <2>2, <2>3, <2>4, JobFacts DEF OthersSame
  <2> QED BY <1>4, <1>9, <2>3, <2>4, <2>5 DEF Timed
<1>10. new.M = "DIS" \/ new.M = "RT" \/ new.M = "SR" \/ new.M = "CR"
  BY <1>2 DEF Modes
<1>11. CASE new.M = "DIS"
  <2>1. CASE u = 0
    BY <1>7, <1>11, <2>1
  <2>2. CASE u # 0
    <3>1. r = q
      BY <1>3, <1>11, <2>2
    <3> QED BY <1>6, <1>11, <2>2, <3>1
  <2> QED BY <2>1, <2>2
<1>12. CASE new.M = "SR"
  <2>1. CASE ~ run
    <3>1. r = q
      BY <1>3, <1>12, <2>1
    <3> QED BY <1>6, <1>12, <2>1, <3>1
  <2> QED BY <1>9, <1>12, <2>1
<1>13. CASE new.M = "CR"
  BY <1>7, <1>13
<1> QED BY <1>8, <1>10, <1>11, <1>12, <1>13

-----------------------------------------------------------------------------
(* JobsFollowRegisters without its cardinalities, and with the facts about *)
(* the modes that carry it from one step to the next: an interrupt that is *)
(* not yet pending is raised before the counter restarts or stops, and a   *)
(* stopped counter that is at its match raises it only when it is disabled.*)
Follow(q, t, c, run) ==
  /\ IsQueued(q, Restart) <=> t.M = "RT"
  /\ IsQueued(q, OneShot) <=> t.M = "SR" /\ run
  /\ IsQueued(q, Raise) => t.IE /\ (t.IP \/ run \/ c % TP_MOD = t.TP)
  /\ t.IE /\ (t.IP \/ run) => IsQueued(q, Raise)
  /\ t.M = "DIS" => ~ run
  /\ t.M \in {"RT", "CR"} => run
  /\ ~ t.IP => RaiseFirst(q)
  /\ ~ t.IP /\ t.M = "DIS" => (IsQueued(q, Raise) <=> t.IE /\ c % TP_MOD = t.TP)
  /\ ~ t.IP /\ t.M = "SR" /\ ~ run => ~ IsQueued(q, Raise)

(* A job that stands for a match is due in x cycles.                       *)
Matches(q, t, x) ==
  (IsDue(q, Raise, x) /\ ~ t.IP) \/ IsDue(q, Restart, x) \/ IsDue(q, OneShot, x)

(* MatchOnTime in terms of IsDue.                                          *)
OnTime(q, t, s) == \A x : Matches(q, t, x) => (s + x) % TP_MOD = t.TP

(* It is the next match, or the present one while the counter stands.      *)
Near(q, t, run) == \A x : Matches(q, t, x) => x < TP_MOD /\ (~ run => x <= 0)

(* The inductive invariant.                                                *)
IndInv ==
  /\ TypeOK /\ Healthy(queue)
  /\ Follow(queue, ttmr, ttcr, counting)
  /\ counting => OnTime(queue, ttmr, since)
  /\ Near(queue, ttmr, counting)

(* The jobs of the new registers, after a write.                           *)
LEMMA WriteFacts ==
  ASSUME IndInv, NEW new \in Registers, NEW count \in Counts, NEW run \in BOOLEAN,
         new.M = "DIS" => ~ run, new.M \in {"RT", "CR"} => run,
         new.IP /\ new.IE => IsQueued(queue, Raise),
         IsQueued(queue, Raise) /\ new.IP => new.IE,
         NEW r, r = sched_timer_job(queue, ttmr, new, count, run)
  PROVE  /\ Healthy(r) /\ Follow(r, new, count, run)
         /\ OnTime(r, new, count) /\ Near(r, new, run)
         /\ \A x : Matches(r, new, x) => x >= 0
<1> DEFINE u == CyclesUntil(new, count)
<1>1. /\ Healthy(queue) /\ ttmr \in Registers
      /\ IsQueued(queue, Raise) => ttmr.IE
      /\ IsQueued(queue, Restart) => ttmr.M = "RT"
      /\ IsQueued(queue, OneShot) => ttmr.M = "SR"
  BY DEF IndInv, TypeOK, Registers, Follow
<1>2. u = CyclesUntil(new, count)
  OBVIOUS
<1> HIDE DEF u
<1>3. Timed(r, queue, new, u, run)
  BY <1>1, <1>2, TimerJobFacts
<1>4. (count + u) % TP_MOD = new.TP /\ (u = 0 <=> count % TP_MOD = new.TP)
  BY <1>2, UntilFacts
<1>5. OnTime(r, new, count)
  BY <1>3, <1>4 DEF Timed, OnTime, Matches
<1>6. Follow(r, new, count, run)
  <2>1. new.M \in Modes /\ new.IP \in BOOLEAN /\ new.IE \in BOOLEAN
    BY DEF Registers
  <2>2. CASE new.IP
    BY <1>3, <2>2 DEF Timed, Follow
  <2>3. CASE ~ new.IP
    <3>1. IsQueued(r, Raise) <=> new.IE /\ (new.M \in {"RT", "CR"} \/ (new.M = "SR" /\ run)
                                             \/ (new.M = "DIS" /\ u = 0))
      BY <1>3, <2>3 DEF Timed
    <3>2. IsQueued(r, Raise) => new.IE /\ (run \/ count % TP_MOD = new.TP)
      BY <1>4, <3>1
    <3>3. new.IE /\ run => IsQueued(r, Raise)
      BY <2>1, <3>1 DEF Modes
    <3>4. new.M = "DIS" => (IsQueued(r, Raise) <=> new.IE /\ count % TP_MOD = new.TP)
      BY <1>4, <3>1
    <3>5. new.M = "SR" /\ ~ run => ~ IsQueued(r, Raise)
      BY <3>1
    <3> QED BY <1>3, <2>3, <3>2, <3>3, <3>4, <3>5 DEF Timed, Follow
  <2> QED BY <2>2, <2>3
<1>7. ASSUME NEW x, Matches(r, new, x) PROVE x = u /\ (~ run => u = 0)
  <2>1. x = u
    BY <1>3, <1>7 DEF Timed, Matches
  <2>2. CASE IsDue(r, Raise, x) /\ ~ new.IP
    <3>1. IsQueued(r, Raise)
      BY <2>2, QueuedIsDue
    <3> QED BY <1>3, <2>1, <2>2, <3>1 DEF Timed
  <2>3. CASE IsDue(r, Restart, x)
    <3>1. IsQueued(r, Restart)
      BY <2>3, QueuedIsDue
    <3> QED BY <1>3, <2>1, <3>1 DEF Timed
  <2>4. CASE IsDue(r, OneShot, x)
    <3>1. IsQueued(r, OneShot)
      BY <2>4, QueuedIsDue
    <3> QED BY <1>3, <2>1, <3>1 DEF Timed
  <2> QED BY <1>7, <2>2, <2>3, <2>4 DEF Matches
<1>8. u \in Nat /\ u < TP_MOD /\ TP_MOD \in Nat
  BY <1>2, UntilFacts, WidthFacts
<1>9. Near(r, new, run) /\ \A x : Matches(r, new, x) => x >= 0
  BY <1>7, <1>8 DEF Near
<1> QED BY <1>3, <1>5, <1>6, <1>9 DEF Timed

-----------------------------------------------------------------------------
(* The queue after a reset, and with check_int queued once more.           *)
LEMMA ResetFacts ==
  ASSUME NEW q, q = AfterReset \/ q = sched_add(AfterReset, "check_int", CHECK_INT_TIME)
  PROVE  Healthy(q) /\ \A job \in TickJobs : ~ IsQueued(q, job)
<1>1. PICK t : t = 1
  OBVIOUS
<1> DEFINE g == << Entry(Guard, SCHED_TIME_MAX) >>
           a == AfterReset
<1>2. g = << Entry(Guard, SCHED_TIME_MAX) >> /\ a = sched_add(g, Poll, t)
  BY <1>1 DEF AfterReset, Guard, Poll
<1>3. q = a \/ q = sched_add(a, Poll, CHECK_INT_TIME)
  BY DEF Poll
<1>4. SCHED_TIME_MAX \in Nat /\ SCHED_TIME_MAX > 0 /\ CHECK_INT_TIME \in Int
  BY TickConstants
<1> HIDE DEF g, a
<1>5. /\ a \in Queues(AllJobs) /\ Len(a) = 2 /\ NonHeadOK(a)
      /\ a[1] = Entry(Poll, 1) /\ a[2] = Entry(Guard, SCHED_TIME_MAX - 1)
  BY <1>1, <1>2, <1>4, JobFacts, ResetQueue
<1>6. a[1].job = Poll /\ a[2].job = Guard
  BY <1>5 DEF Entry
<1>7. IsQueued(a, Guard) /\ IsQueued(a, Poll) /\ \A job \in TickJobs : ~ IsQueued(a, job)
  BY <1>5, <1>6, JobFacts DEF IsQueued
<1>8. \A p : (\A job \in TickJobs : ~ IsQueued(p, job)) =>
               Once(p, Raise) /\ Once(p, Restart) /\ Once(p, OneShot)
  BY JobFacts DEF Once, IsQueued
<1>9. CASE q = a
  BY <1>5, <1>7, <1>8, <1>9 DEF Healthy
<1>10. CASE q = sched_add(a, Poll, CHECK_INT_TIME)
  <2>1. a \in Queues(AllJobs) /\ NonHeadOK(a) /\ Len(a) >= 1
    BY <1>5
  <2>2. q \in Queues(AllJobs) /\ NonHeadOK(q) /\ OthersSame(a, q, Poll) /\ IsQueued(q, Poll)
    BY <1>4, <1>10, <2>1, JobFacts, AddFacts
  <2>3. IsQueued(q, Guard) /\ \A job \in TickJobs : ~ IsQueued(q, job)
    BY <1>7, <2>2, JobFacts DEF OthersSame
  <2> QED BY <1>8, <2>2, <2>3 DEF Healthy
<1> QED BY <1>3, <1>9, <1>10

(* A stopped timer with no interrupt enabled has no jobs.                  *)
LEMMA StoppedFacts ==
  ASSUME NEW q, \A job \in TickJobs : ~ IsQueued(q, job), NEW c
  PROVE  /\ Follow(q, tick_reset, c, FALSE) /\ Near(q, tick_reset, FALSE)
         /\ \A x : ~ Matches(q, tick_reset, x)
<1>1. ~ IsQueued(q, Raise) /\ ~ IsQueued(q, Restart) /\ ~ IsQueued(q, OneShot)
  BY JobFacts
<1>2. RaiseFirst(q)
  BY <1>1, NoneBefore DEF RaiseFirst
<1>3. \A x : ~ Matches(q, tick_reset, x)
  BY <1>1, QueuedIsDue DEF Matches
<1> QED BY <1>1, <1>2, <1>3 DEF Follow, Near, tick_reset

(* The value of TTMR after a reset.                                        *)
LEMMA ResetType == tick_reset \in [TP : 0..(TP_MOD - 1), IP : BOOLEAN, IE : BOOLEAN, M : Modes]
<1>1. 0 \in 0..(TP_MOD - 1) /\ FALSE \in BOOLEAN /\ "DIS" \in Modes
  BY WidthFacts DEF Modes
<1> QED BY <1>1 DEF tick_reset

(* The simulator starts from that queue.                                   *)
LEMMA InitIndInv == Init => IndInv
<1> SUFFICES ASSUME Init PROVE IndInv
  OBVIOUS
<1>1. Healthy(queue) /\ \A job \in TickJobs : ~ IsQueued(queue, job)
  BY ResetFacts DEF Init
<1>2. queue \in Seq([job : TickJobs \cup {"check_int", "sched_guard"}, time : Int])
  BY <1>1 DEF Healthy, Queues, Entries, AllJobs
<1>3. ttmr = tick_reset /\ counting = FALSE
  BY DEF Init
<1>4. Follow(queue, ttmr, ttcr, counting) /\ Near(queue, ttmr, counting)
  BY <1>1, <1>3, StoppedFacts
<1>5. TypeOK
  <2>1. 0 \in 0..(TTCR_MOD - 1) /\ 0 \in 0..MaxWrites
    BY TickConstants
  <2> QED BY <1>2, <2>1, ResetType DEF Init, TypeOK
<1> QED BY <1>1, <1>3, <1>4, <1>5 DEF IndInv

(* The registers' types are kept by every step that keeps the queue's.     *)
LEMMA NextTypes ==
  ASSUME TypeOK, Next, Healthy(queue')
  PROVE  TypeOK'
<1>1. queue' \in Seq([job : TickJobs \cup {"check_int", "sched_guard"}, time : Int])
  BY DEF Healthy, Queues, Entries, AllJobs
<1>2. \A q : LoopTest(q) \in {"insn", "drain"}
  BY DEF LoopTest
<1>3. 0..(TP_MOD - 1) \subseteq 0..(TTCR_MOD - 1) /\ 0 \in 0..(TTCR_MOD - 1)
  BY WidthFacts DEF Counts
<1> USE <1>1, <1>2, <1>3, TickConstants DEF TypeOK
<1>4. ASSUME NEW tp \in TPs, NEW ie \in BOOLEAN, NEW m \in Modes, spr_write_ttmr(tp, ie, m)
      PROVE  TypeOK'
  BY <1>4 DEF spr_write_ttmr
<1>5. ASSUME NEW value \in 0..(TTCR_MOD - 1), spr_write_ttcr(value) PROVE TypeOK'
  BY <1>5 DEF spr_write_ttcr
<1>6. CASE WriteTEE
  BY <1>6 DEF WriteTEE
<1>7. ASSUME NEW n \in 0..MaxCycles, Clock(n) PROVE TypeOK'
  <2>1. since + n \in Int /\ (since + n) % TTCR_MOD \in 0..(TTCR_MOD - 1)
    BY WidthFacts, Division
  <2> QED BY <1>7, <2>1 DEF Clock
<1>8. CASE tick_raise_except
  BY <1>8 DEF tick_raise_except
<1>9. CASE tick_restart
  BY <1>9 DEF tick_restart
<1>10. CASE tick_one_shot
  BY <1>10 DEF tick_one_shot
<1>11. CASE check_int \/ sched_guard
  BY <1>11 DEF check_int, sched_guard
<1>12. CASE sim_reset
  <2>1. /\ ttmr' = tick_reset /\ ttcr' = 0 /\ counting' = FALSE /\ tee' = FALSE
        /\ since' \in 0..(TTCR_MOD - 1) /\ phase' = LoopTest(queue')
        /\ writes < MaxWrites /\ writes' = writes + 1
    BY <1>12 DEF sim_reset
  <2>2. ttmr' \in [TP : 0..(TP_MOD - 1), IP : BOOLEAN, IE : BOOLEAN, M : Modes]
    BY <2>1, ResetType
  <2>3. ttcr' \in 0..(TTCR_MOD - 1) /\ writes' \in 0..MaxWrites
    BY <2>1
  <2>4. counting' \in BOOLEAN /\ tee' \in BOOLEAN /\ phase' \in {"insn", "drain"}
    BY <2>1
  <2> QED BY <2>1, <2>2, <2>3, <2>4
<1> QED
  BY <1>4, <1>5, <1>6, <1>7, <1>8, <1>9, <1>10, <1>11, <1>12 DEF Next, RunJob

-----------------------------------------------------------------------------
(* The head is unlinked, and a job of the scheduler is added.              *)
LEMMA PopFacts ==
  ASSUME Healthy(queue), NEW job, Popped(job), NEW q, q = PopHead(queue)
  PROVE  /\ q \in Queues(AllJobs) /\ Len(q) >= 1 /\ job \in AllJobs /\ IsQueued(queue, job)
         /\ NonHeadOK(q) /\ OthersSame(q, queue, job)
         /\ Once(queue, job) => ~ IsQueued(q, job)
         /\ \A a, b : Before(queue, a, b) => Before(q, a, b)
         /\ \A a : a # job /\ Before(queue, a, job) => ~ IsQueued(queue, a)
<1>1. queue \in Queues(AllJobs) /\ Len(queue) >= 1 /\ Len(queue) \in Nat
  BY HealthyLen, EntryType
<1>2. 1 \in 1..Len(queue) /\ job = queue[1].job /\ q = UnlinkAt(queue, 1)
  BY <1>1 DEF Popped, PopHead
<1>3. /\ q \in Queues(AllJobs) /\ Len(q) \in Nat /\ NonHeadOK(q)
      /\ OthersSame(q, queue, job)
      /\ Once(queue, job) => ~ IsQueued(q, job)
      /\ \A a, b : Before(queue, a, b) => Before(q, a, b)
  BY <1>1, <1>2, UnlinkFacts DEF Healthy
<1>4. job \in AllJobs /\ IsQueued(queue, job)
  BY <1>1, <1>2, EntryType DEF IsQueued
<1>5. ASSUME NEW a, Before(queue, a, job), IsQueued(queue, a) PROVE FALSE
  <2>1. PICK k \in 1..Len(queue) : queue[k].job = a
    BY <1>5 DEF IsQueued
  <2>2. k < 1
    BY <1>2, <1>5, <2>1 DEF Before
  <2> QED BY <1>1, <2>1, <2>2
<1>6. Len(q) >= 1
  <2>1. IsQueued(q, Guard) \/ IsQueued(q, Poll)
    BY <1>3, JobFacts DEF Healthy, OthersSame
  <2> QED BY <1>3, <2>1 DEF IsQueued
<1> QED BY <1>3, <1>4, <1>5, <1>6

(* A job of the timer is popped.                                           *)
LEMMA PopTick ==
  ASSUME Healthy(queue), NEW job \in TickJobs, Popped(job), NEW q, q = PopHead(queue)
  PROVE  /\ Healthy(q) /\ IsQueued(queue, job) /\ ~ IsQueued(q, job)
         /\ OthersSame(q, queue, job)
         /\ \A a, b : Before(queue, a, b) => Before(q, a, b)
         /\ \A a : a # job /\ Before(queue, a, job) => ~ IsQueued(queue, a)
<1>1. Once(queue, job)
  BY JobFacts DEF Healthy
<1>2. /\ q \in Queues(AllJobs) /\ NonHeadOK(q) /\ IsQueued(queue, job) /\ ~ IsQueued(q, job)
      /\ OthersSame(q, queue, job)
      /\ \A a, b : Before(queue, a, b) => Before(q, a, b)
      /\ \A a : a # job /\ Before(queue, a, job) => ~ IsQueued(queue, a)
  BY <1>1, PopFacts
<1>3. Once(q, job)
  BY <1>2 DEF Once, IsQueued
<1>4. \A j : j # job => (IsQueued(q, j) <=> IsQueued(queue, j)) /\ (Once(q, j) <=> Once(queue, j))
  BY <1>2 DEF OthersSame
<1>5. Healthy(q)
  BY <1>2, <1>3, <1>4, JobFacts DEF Healthy
<1> QED BY <1>2, <1>5

(* Follow and OnTime depend on the timer's jobs only.                      *)
Alike(q, r) ==
  /\ \A j \in TickJobs : /\ IsQueued(r, j) <=> IsQueued(q, j)
                         /\ \A x : IsDue(r, j, x) <=> IsDue(q, j, x)
  /\ RaiseFirst(q) => RaiseFirst(r)

(* Queues that are alike follow the same registers.                        *)
LEMMA AlikeFacts ==
  ASSUME NEW q, NEW r, Alike(q, r), NEW t, NEW c, NEW run, NEW s
  PROVE  /\ Follow(q, t, c, run) => Follow(r, t, c, run)
         /\ OnTime(q, t, s) => OnTime(r, t, s)
         /\ Near(q, t, run) => Near(r, t, run)
<1>1. /\ IsQueued(r, Raise) <=> IsQueued(q, Raise)
      /\ IsQueued(r, Restart) <=> IsQueued(q, Restart)
      /\ IsQueued(r, OneShot) <=> IsQueued(q, OneShot)
      /\ \A x : /\ IsDue(r, Raise, x) <=> IsDue(q, Raise, x)
                /\ IsDue(r, Restart, x) <=> IsDue(q, Restart, x)
                /\ IsDue(r, OneShot, x) <=> IsDue(q, OneShot, x)
      /\ RaiseFirst(q) => RaiseFirst(r)
  BY JobFacts DEF Alike
<1>2. Follow(q, t, c, run) => Follow(r, t, c, run)
  BY <1>1 DEF Follow
<1>3. \A x : Matches(r, t, x) <=> Matches(q, t, x)
  BY <1>1 DEF Matches
<1> QED BY <1>2, <1>3 DEF OnTime, Near

(* A periodic job of the scheduler is popped and queued again.             *)
LEMMA PeriodicFacts ==
  ASSUME Healthy(queue), NEW job, job = Poll \/ job = Guard, Popped(job), NEW t \in Int,
         NEW r, r = sched_add(PopHead(queue), job, t)
  PROVE  Healthy(r) /\ Alike(queue, r)
<1> DEFINE q == PopHead(queue)
<1>1. /\ q \in Queues(AllJobs) /\ Len(q) >= 1 /\ job \in AllJobs
      /\ NonHeadOK(q) /\ OthersSame(q, queue, job)
  BY PopFacts
<1>2. r = sched_add(q, job, t)
  OBVIOUS
<1> HIDE DEF q
<1>3. r \in Queues(AllJobs) /\ NonHeadOK(r) /\ OthersSame(q, r, job) /\ IsQueued(r, job)
  BY <1>1, <1>2, AddFacts
<1>4. \A j : j # job => /\ IsQueued(r, j) <=> IsQueued(queue, j)
                        /\ Once(r, j) <=> Once(queue, j)
                        /\ \A x : IsDue(r, j, x) <=> IsDue(queue, j, x)
  BY <1>1, <1>3 DEF OthersSame
<1>5. RaiseFirst(queue) <=> RaiseFirst(r)
  BY <1>1, <1>3, JobFacts DEF OthersSame, RaiseFirst
<1>6. Healthy(r)
  BY <1>3, <1>4, JobFacts DEF Healthy
<1>7. Alike(queue, r)
  BY <1>4, <1>5, JobFacts DEF Alike
<1> QED BY <1>6, <1>7

-----------------------------------------------------------------------------
(* What a step has to keep.                                                *)
Kept ==
  /\ Healthy(queue')
  /\ Follow(queue', ttmr', ttcr', counting')
  /\ counting' => OnTime(queue', ttmr', since')
  /\ Near(queue', ttmr', counting')

(* A write of TTMR or TTCR.                                                *)
LEMMA WriteStep ==
  ASSUME IndInv,
         \/ \E tp \in TPs, ie \in BOOLEAN, m \in Modes : spr_write_ttmr(tp, ie, m)
         \/ \E value \in 0..(TTCR_MOD - 1) : spr_write_ttcr(value)
  PROVE  Kept /\ \A x : Matches(queue', ttmr', x) => x >= 0
<1> DEFINE Ahead == \A x : Matches(queue', ttmr', x) => x >= 0
<1>1. ttmr \in Registers /\ ttcr \in Counts /\ since \in Counts /\ counting \in BOOLEAN
  BY DEF IndInv, TypeOK, Registers, Counts
<1>2. Follow(queue, ttmr, ttcr, counting)
  BY DEF IndInv
<1>3. ASSUME NEW tp \in TPs, NEW ie \in BOOLEAN, NEW m \in Modes, spr_write_ttmr(tp, ie, m)
      PROVE  Kept /\ Ahead
  <2> DEFINE new == [TP |-> tp, IP |-> FALSE, IE |-> ie, M |-> m]
             count == IF counting THEN since ELSE ttcr
             run == m # "DIS"
  <2>1. /\ ttmr' = new /\ ttcr' = count /\ since' = count /\ counting' = run
        /\ queue' = sched_timer_job(queue, ttmr, new, count, run)
    BY <1>3 DEF spr_write_ttmr
  <2>2. new \in Registers /\ new.M = m /\ new.IP = FALSE
    BY TickConstants DEF Registers
  <2>3. count \in Counts
    BY <1>1
  <2>4. run \in BOOLEAN /\ (m = "DIS" => ~ run) /\ (m \in {"RT", "CR"} => run)
    OBVIOUS
  <2> HIDE DEF new, count, run
  <2>5. /\ new.M = "DIS" => ~ run
        /\ new.M \in {"RT", "CR"} => run
        /\ ~ new.IP
    BY <2>2, <2>4
  <2>6. /\ Healthy(queue') /\ Follow(queue', new, count, run) /\ OnTime(queue', new, count)
        /\ Near(queue', new, run) /\ \A x : Matches(queue', new, x) => x >= 0
    BY <2>1, <2>2, <2>3, <2>4, <2>5, WriteFacts
  <2> QED BY <2>1, <2>6 DEF Kept
<1>4. ASSUME NEW value \in 0..(TTCR_MOD - 1), spr_write_ttcr(value) PROVE Kept /\ Ahead
  <2>1. /\ ttmr' = ttmr /\ ttcr' = value /\ since' = value /\ counting' = counting
        /\ queue' = sched_timer_job(queue, ttmr, ttmr, value, counting)
    BY <1>4 DEF spr_write_ttcr
  <2>2. value \in Counts
    BY DEF Counts
  <2>3. /\ ttmr.M = "DIS" => ~ counting
        /\ ttmr.M \in {"RT", "CR"} => counting
        /\ ttmr.IP /\ ttmr.IE => IsQueued(queue, Raise)
        /\ IsQueued(queue, Raise) /\ ttmr.IP => ttmr.IE
    BY <1>2 DEF Follow
  <2>4. /\ Healthy(queue') /\ Follow(queue', ttmr, value, counting) /\ OnTime(queue', ttmr, value)
        /\ Near(queue', ttmr, counting) /\ \A x : Matches(queue', ttmr, x) => x >= 0
    BY <1>1, <2>1, <2>2, <2>3, WriteFacts
  <2> QED BY <2>1, <2>4 DEF Kept
<1> QED BY <1>3, <1>4

(* Cycles pass, and the counter with them.                                 *)
LEMMA ClockStep ==
  ASSUME IndInv, NEW n \in 0..MaxCycles, Clock(n)
  PROVE  Kept
<1>1. /\ Healthy(queue) /\ queue \in Queues(AllJobs) /\ Len(queue) >= 1
      /\ NonHeadOK(queue) /\ n \in Int /\ n >= 0 /\ Near(queue, ttmr, counting)
      /\ Follow(queue, ttmr, ttcr, counting) /\ since \in Int /\ TTCR_MOD \in Nat
      /\ (counting => OnTime(queue, ttmr, since))
  BY HealthyLen, TickConstants DEF IndInv, TypeOK, Healthy
<1>2. /\ ttmr' = ttmr /\ ttcr' = ttcr /\ counting' = counting
      /\ since' = (since + n) % TTCR_MOD /\ queue' = Elapse(queue, n)
  BY DEF Clock
<1>3. \A j : /\ IsQueued(queue', j) <=> IsQueued(queue, j)
             /\ Once(queue', j) <=> Once(queue, j)
             /\ \A x \in Int : IsDue(queue', j, x) <=> IsDue(queue, j, x + n)
             /\ \A b : Before(queue', j, b) <=> Before(queue, j, b)
  BY <1>1, <1>2, ElapseJobs
<1>4. queue' \in Queues(AllJobs) /\ NonHeadOK(queue')
  BY <1>1, <1>2, ElapseFacts
<1>5. Healthy(queue')
  BY <1>1, <1>3, <1>4 DEF Healthy
<1>6. Follow(queue', ttmr, ttcr, counting)
  BY <1>1, <1>3 DEF Follow, RaiseFirst
<1>7. ASSUME NEW x, Matches(queue', ttmr, x) PROVE x \in Int /\ Matches(queue, ttmr, x + n)
  <2>1. x \in Int
    BY <1>4, <1>7, DueIsInt DEF Matches
  <2> QED BY <1>3, <1>7, <2>1 DEF Matches
<1>8. Near(queue', ttmr, counting)
  <2> SUFFICES ASSUME NEW x, Matches(queue', ttmr, x)
               PROVE  x < TP_MOD /\ (~ counting => x <= 0)
    BY DEF Near
  <2>1. x \in Int /\ x + n < TP_MOD /\ (~ counting => x + n <= 0)
    BY <1>1, <1>7 DEF Near
  <2> QED BY <1>1, <2>1, WidthFacts
<1>9. ASSUME OnTime(queue, ttmr, since) PROVE OnTime(queue', ttmr, since')
  <2> SUFFICES ASSUME NEW x, Matches(queue', ttmr, x)
               PROVE  (since' + x) % TP_MOD = ttmr.TP
    BY DEF OnTime
  <2>1. x \in Int
    BY <1>7
  <2>2. (since + (x + n)) % TP_MOD = ttmr.TP
    BY <1>7, <1>9 DEF OnTime
  <2>3. since + (x + n) = (since + n) + x /\ since + n \in Int
    BY <1>1, <2>1
  <2>4. (since' + x) % TP_MOD = ((since + n) + x) % TP_MOD
    <3>1. PICK a \in Int, b \in Int : a = since + n /\ b = since' /\ b = a % TTCR_MOD
      BY <1>2, <2>3, WidthFacts
    <3>4. (b + x) % TP_MOD = (a + x) % TP_MOD
      BY <2>1, <3>1, TickWrap
    <3> QED BY <3>1, <3>4
  <2> QED BY <2>2, <2>3, <2>4
<1> QED BY <1>1, <1>2, <1>5, <1>6, <1>8, <1>9 DEF Kept

(* The interrupt: TTMR[IP] is set and the job stays in the queue.          *)
LEMMA RaiseStep ==
  ASSUME IndInv, tick_raise_except
  PROVE  Kept
<1> DEFINE q == PopHead(queue)
           d == 1 - AllTime(q)[NegRun(q)]
<1>1. /\ Healthy(queue) /\ Follow(queue, ttmr, ttcr, counting) /\ ttmr \in Registers
      /\ (counting => OnTime(queue, ttmr, since)) /\ Near(queue, ttmr, counting)
  BY DEF IndInv, TypeOK, Registers
<1>2. /\ Popped(Raise) /\ ttmr' = [ttmr EXCEPT !.IP = TRUE]
      /\ ttcr' = ttcr /\ since' = since /\ counting' = counting
      /\ queue' = sched_add(q, Raise, d)
  BY DEF tick_raise_except, sched_next_insn, Raise
<1>3. /\ Healthy(q) /\ IsQueued(queue, Raise) /\ ~ IsQueued(q, Raise)
      /\ OthersSame(q, queue, Raise)
  BY <1>1, <1>2, JobFacts, PopTick
<1> HIDE DEF q
<1>4. d \in Int
  BY <1>3, NegRunExists DEF Healthy
<1> HIDE DEF d
<1>5. Healthy(queue') /\ IsQueued(queue', Raise) /\ OthersSame(q, queue', Raise)
  BY <1>2, <1>3, <1>4, JobFacts, AddTick
<1>6. /\ IsQueued(queue', Restart) <=> IsQueued(queue, Restart)
      /\ IsQueued(queue', OneShot) <=> IsQueued(queue, OneShot)
      /\ \A x : /\ IsDue(queue', Restart, x) <=> IsDue(queue, Restart, x)
                /\ IsDue(queue', OneShot, x) <=> IsDue(queue, OneShot, x)
  BY <1>3, <1>5, JobFacts DEF OthersSame
<1>7. ttmr'.IP /\ ttmr'.IE = ttmr.IE /\ ttmr'.M = ttmr.M /\ ttmr'.TP = ttmr.TP
  BY <1>1, <1>2 DEF Registers
<1>8. Follow(queue', ttmr', ttcr', counting')
  BY <1>1, <1>2, <1>3, <1>5, <1>6, <1>7 DEF Follow
<1>9. \A x : Matches(queue', ttmr', x) => Matches(queue, ttmr, x)
  BY <1>6, <1>7 DEF Matches
<1>10. counting' => OnTime(queue', ttmr', since')
  BY <1>1, <1>2, <1>7, <1>9 DEF OnTime
<1>11. Near(queue', ttmr', counting')
  BY <1>1, <1>2, <1>9 DEF Near
<1> QED BY <1>5, <1>8, <1>10, <1>11 DEF Kept

(* The restart: an interrupt that was to be raised at the same match has   *)
(* been raised, as it comes first in the queue.                            *)
LEMMA RestartStep ==
  ASSUME IndInv, tick_restart
  PROVE  Kept
<1> DEFINE q == PopHead(queue)
<1>1. /\ Healthy(queue) /\ Follow(queue, ttmr, ttcr, counting) /\ ttmr \in Registers
      /\ counting \in BOOLEAN
  BY DEF IndInv, TypeOK, Registers
<1>2. /\ Popped(Restart) /\ ttmr' = ttmr /\ ttcr' = 0 /\ since' = 0 /\ counting' = counting
      /\ queue' = sched_add(q, Restart, ttmr.TP)
  BY DEF tick_restart, Restart
<1>3. /\ Healthy(q) /\ IsQueued(queue, Restart) /\ ~ IsQueued(q, Restart)
      /\ OthersSame(q, queue, Restart)
      /\ RaiseFirst(queue) => ~ IsQueued(queue, Raise)
  BY <1>1, <1>2, JobFacts, PopTick DEF RaiseFirst
<1> HIDE DEF q
<1>4. PICK t \in Int : t = ttmr.TP /\ t >= 0 /\ t < TP_MOD /\ t % TP_MOD = t
  BY <1>1, WidthFacts DEF Registers
<1>5. queue' = sched_add(q, Restart, t)
  BY <1>2, <1>4
<1>6. /\ Healthy(queue') /\ IsQueued(queue', Restart) /\ OthersSame(q, queue', Restart)
      /\ \A x : IsDue(queue', Restart, x) <=> x = t
  BY <1>3, <1>4, <1>5, JobFacts, AddTick
<1>7. /\ IsQueued(queue', Raise) <=> IsQueued(queue, Raise)
      /\ IsQueued(queue', OneShot) <=> IsQueued(queue, OneShot)
  BY <1>3, <1>6, JobFacts DEF OthersSame
<1>8. ttmr.M = "RT" /\ counting /\ ~ IsQueued(queue', OneShot)
  BY <1>1, <1>3, <1>7 DEF Follow
<1>9. ~ ttmr.IP => ~ IsQueued(queue', Raise)
  BY <1>1, <1>3, <1>7 DEF Follow
<1>10. Follow(queue', ttmr, ttcr', counting)
  <2>1. ~ ttmr.IP => RaiseFirst(queue')
    BY <1>9, NoneBefore DEF RaiseFirst
  <2>2. IsQueued(queue', Raise) => ttmr.IE /\ (ttmr.IP \/ counting \/ ttcr' % TP_MOD = ttmr.TP)
    BY <1>1, <1>7, <1>8 DEF Follow
  <2>3. ttmr.IE /\ (ttmr.IP \/ counting) => IsQueued(queue', Raise)
    BY <1>1, <1>7 DEF Follow
  <2> QED BY <1>6, <1>8, <2>1, <2>2, <2>3 DEF Follow
<1>11. OnTime(queue', ttmr, since') /\ Near(queue', ttmr, counting)
  <2> SUFFICES ASSUME NEW x, Matches(queue', ttmr, x)
               PROVE  (since' + x) % TP_MOD = ttmr.TP /\ x < TP_MOD
    BY <1>8 DEF OnTime, Near
  <2>1. IsDue(queue', Restart, x)
    BY <1>8, <1>9, QueuedIsDue DEF Matches
  <2>2. x = t /\ since' + x = t
    BY <1>2, <1>6, <2>1
  <2> QED BY <1>4, <2>2
<1> QED BY <1>2, <1>6, <1>10, <1>11 DEF Kept

(* The one shot: the counter stops at the match.                           *)
LEMMA OneShotStep ==
  ASSUME IndInv, tick_one_shot
  PROVE  Kept
<1>1. /\ Healthy(queue) /\ Follow(queue, ttmr, ttcr, counting) /\ ttmr \in Registers
      /\ counting \in BOOLEAN
  BY DEF IndInv, TypeOK, Registers
<1>2. /\ Popped(OneShot) /\ ttmr' = ttmr /\ ttcr' = ttmr.TP /\ counting' = FALSE
      /\ queue' = PopHead(queue)
  BY DEF tick_one_shot, OneShot
<1>3. /\ Healthy(queue') /\ IsQueued(queue, OneShot) /\ ~ IsQueued(queue', OneShot)
      /\ OthersSame(queue', queue, OneShot)
      /\ RaiseFirst(queue) => ~ IsQueued(queue, Raise)
  BY <1>1, <1>2, JobFacts, PopTick DEF RaiseFirst
<1>4. /\ IsQueued(queue', Raise) <=> IsQueued(queue, Raise)
      /\ IsQueued(queue', Restart) <=> IsQueued(queue, Restart)
  BY <1>3, JobFacts DEF OthersSame
<1>5. ttmr.M = "SR" /\ ttcr' % TP_MOD = ttmr.TP
  BY <1>1, <1>2, <1>3, WidthFacts DEF Follow, Registers
<1>6. ~ ttmr.IP => ~ IsQueued(queue', Raise) /\ RaiseFirst(queue')
  BY <1>1, <1>3, <1>4, NoneBefore DEF Follow, RaiseFirst
<1>7. Follow(queue', ttmr, ttcr', FALSE)
  BY <1>1, <1>3, <1>4, <1>5, <1>6 DEF Follow
<1>8. ~ IsQueued(queue', Restart)
  BY <1>1, <1>4, <1>5 DEF Follow
<1>9. \A x : ~ Matches(queue', ttmr, x)
  BY <1>3, <1>6, <1>8, QueuedIsDue DEF Matches
<1> QED BY <1>2, <1>3, <1>7, <1>9 DEF Kept, Near

(* check_int, the guard, a reset and a write of SR.                        *)
LEMMA OtherStep ==
  ASSUME IndInv, check_int \/ sched_guard \/ sim_reset \/ WriteTEE
  PROVE  Kept
<1>1. /\ Healthy(queue) /\ Follow(queue, ttmr, ttcr, counting)
      /\ counting => OnTime(queue, ttmr, since)
      /\ Near(queue, ttmr, counting)
  BY DEF IndInv
<1>2. ASSUME NEW job, job = Poll \/ job = Guard, Popped(job), NEW t \in Int,
             queue' = sched_add(PopHead(queue), job, t),
             ttmr' = ttmr, ttcr' = ttcr, since' = since, counting' = counting
      PROVE  Kept
  <2>1. Healthy(queue') /\ Alike(queue, queue')
    BY <1>1, <1>2, PeriodicFacts
  <2>2. /\ Follow(queue', ttmr, ttcr, counting)
        /\ OnTime(queue, ttmr, since) => OnTime(queue', ttmr, since)
        /\ Near(queue', ttmr, counting)
    BY <1>1, <2>1, AlikeFacts
  <2> QED BY <1>1, <1>2, <2>1, <2>2 DEF Kept
<1>3. CASE check_int
  <2>1. /\ Popped(Poll) /\ queue' = sched_add(PopHead(queue), Poll, CHECK_INT_TIME)
        /\ ttmr' = ttmr /\ ttcr' = ttcr /\ since' = since /\ counting' = counting
        /\ CHECK_INT_TIME \in Int
    BY <1>3, TickConstants DEF check_int, Poll
  <2> QED BY <1>2, <2>1
<1>4. CASE sched_guard
  <2>1. /\ Popped(Guard) /\ queue' = sched_add(PopHead(queue), Guard, SCHED_TIME_MAX)
        /\ ttmr' = ttmr /\ ttcr' = ttcr /\ since' = since /\ counting' = counting
        /\ SCHED_TIME_MAX \in Int
    BY <1>4, TickConstants DEF sched_guard, Guard
  <2> QED BY <1>2, <2>1
<1>5. CASE sim_reset
  <2>1. /\ ttmr' = tick_reset /\ counting' = FALSE
        /\ queue' = sched_add(AfterReset, "check_int", CHECK_INT_TIME)
    BY <1>5 DEF sim_reset
  <2>2. Healthy(queue') /\ \A job \in TickJobs : ~ IsQueued(queue', job)
    BY <2>1, ResetFacts
  <2>3. Follow(queue', tick_reset, ttcr', FALSE) /\ Near(queue', tick_reset, FALSE)
    BY <2>2, StoppedFacts
  <2> QED BY <2>1, <2>2, <2>3 DEF Kept
<1>6. CASE WriteTEE
  <2>1. queue' = queue /\ ttmr' = ttmr /\ ttcr' = ttcr /\ since' = since /\ counting' = counting
    BY <1>6 DEF WriteTEE
  <2> QED BY <1>1, <2>1 DEF Kept
<1> QED BY <1>3, <1>4, <1>5, <1>6

-----------------------------------------------------------------------------
(* IndInv is inductive.                                                    *)
LEMMA NextIndInv == IndInv /\ [Next]_vars => IndInv'
<1> SUFFICES ASSUME IndInv, [Next]_vars PROVE IndInv'
  OBVIOUS
<1>1. CASE Next
  <2>1. Kept
    BY <1>1, WriteStep, ClockStep, RaiseStep, RestartStep, OneShotStep, OtherStep DEF Next, RunJob
  <2>2. TypeOK'
    BY <1>1, <2>1, NextTypes DEF IndInv, Kept
  <2> QED BY <2>1, <2>2 DEF IndInv, Kept
<1>2. CASE UNCHANGED vars
  BY <1>2 DEF vars, IndInv, TypeOK
<1> QED BY <1>1, <1>2

(* It holds in every reachable state.                                      *)
LEMMA IndInvHolds == Spec => []IndInv
BY InitIndInv, NextIndInv, PTL DEF Spec

(* The positions of a job that is queued once at most.                     *)
LEMMA OneAtMost ==
  ASSUME NEW job, Once(queue, job)
  PROVE  Cardinality(Positions(job)) <= 1
<1>1. \A k, m \in Positions(job) : k = m
  BY DEF Positions, Once
<1>2. CASE Positions(job) = {}
  <2>1. Cardinality(Positions(job)) = 0
    BY <1>2, FS_EmptySet
  <2> QED BY <2>1
<1>3. CASE Positions(job) # {}
  <2>1. PICK k \in Positions(job) : TRUE
    BY <1>3
  <2>2. Positions(job) = {k}
    BY <1>1, <2>1
  <2>3. Cardinality(Positions(job)) = 1
    BY <2>2, FS_Singleton
  <2> QED BY <2>3
<1> QED BY <1>2, <1>3

(* The jobs in the queue stand for the counter that the code never steps,  *)
(* for every width of TTCR and of its match field: whatever the sequence   *)
(* of register writes, matches and resets, they are the ones the registers *)
(* call for, and each is due at the very cycle of the match.               *)
THEOREM TimerJobsAreExact == Spec => []TimerJobsExact
<1>1. ASSUME IndInv PROVE TimerJobsExact
  <2>1. /\ TypeOK /\ Healthy(queue) /\ Follow(queue, ttmr, ttcr, counting)
        /\ counting => OnTime(queue, ttmr, since)
    BY <1>1 DEF IndInv
  <2>2. \A job : Queued(job) <=> IsQueued(queue, job)
    BY DEF Queued, Positions, IsQueued
  <2>3. \A job \in TickJobs : Cardinality(Positions(job)) <= 1
    BY <2>1, JobFacts, OneAtMost DEF Healthy
  <2>4. JobsFollowRegisters
    BY <2>1, <2>2, <2>3 DEF JobsFollowRegisters, Follow, Raise, Restart, OneShot
  <2>5. MatchOnTime
    <3> SUFFICES ASSUME counting, NEW i \in 1..Len(queue),
                        \/ queue[i].job = Raise /\ ~ ttmr.IP
                        \/ queue[i].job = Restart
                        \/ queue[i].job = OneShot
                 PROVE  (since + DueIn(queue, i)) % TP_MOD = ttmr.TP
      BY DEF MatchOnTime, Raise, Restart, OneShot
    <3>1. \A job : queue[i].job = job => IsDue(queue, job, DueIn(queue, i))
      BY DEF IsDue
    <3> QED BY <2>1, <3>1 DEF OnTime, Matches
  <2> QED BY <2>1, <2>4, <2>5 DEF TimerJobsExact
<1> QED BY <1>1, IndInvHolds, PTL

-----------------------------------------------------------------------------
(* Tick implements TickAbs.                                                *)

(* Between two jobs: while an instruction executes no match has been       *)
(* missed, and do_scheduler runs jobs that are due.                        *)
Phased ==
  /\ phase = "insn" => \A x : Matches(queue, ttmr, x) => x >= 0
  /\ phase = "drain" => HeadDue(queue)

(* A job is due now or was before.                                         *)
DueNow(q, job) == \E x : IsDue(q, job, x) /\ x <= 0

(* The test that do_scheduler's loop makes at its head sees every job that *)
(* is due.                                                                 *)
LEMMA LoopTestFacts ==
  ASSUME NEW q, Healthy(q)
  PROVE  /\ LoopTest(q) \in {"insn", "drain"}
         /\ LoopTest(q) = "drain" <=> HeadDue(q)
         /\ LoopTest(q) = "insn" => \A job, x : IsDue(q, job, x) => x > 0
         /\ \A job : DueNow(q, job) => LoopTest(q) = "drain"
<1>1. q \in Queues(AllJobs) /\ NonHeadOK(q) /\ Len(q) >= 1
  BY HealthyLen DEF Healthy
<1>2. LoopTest(q) \in {"insn", "drain"} /\ (LoopTest(q) = "drain" <=> HeadDue(q))
  BY DEF LoopTest
<1>3. ~ HeadDue(q) => \A job, x : IsDue(q, job, x) => x \in Int /\ x > 0
  BY <1>1, HeadNotDueNoneDue, DueIsInt DEF IsDue
<1> QED BY <1>2, <1>3 DEF DueNow

(* Phased holds in every reachable state.                                  *)
LEMMA NextPhased == IndInv /\ IndInv' /\ Phased /\ [Next]_vars => Phased'
<1> SUFFICES ASSUME IndInv, IndInv', Phased, [Next]_vars PROVE Phased'
  OBVIOUS
<1>1. Healthy(queue')
  BY DEF IndInv
<1>2. ASSUME phase' = LoopTest(queue') PROVE Phased'
  <2>1. phase' = "insn" => \A x : Matches(queue', ttmr', x) => x > 0
    BY <1>1, <1>2, LoopTestFacts DEF Matches
  <2>2. ASSUME phase' = "insn", NEW x, Matches(queue', ttmr', x) PROVE x >= 0
    <3>1. x \in Int
      BY <1>1, <2>2, DueIsInt DEF Healthy, Matches
    <3> QED BY <2>1, <2>2, <3>1
  <2> QED BY <1>1, <1>2, <2>2, LoopTestFacts DEF Phased
<1>3. CASE \/ \E tp \in TPs, ie \in BOOLEAN, m \in Modes : spr_write_ttmr(tp, ie, m)
           \/ \E value \in 0..(TTCR_MOD - 1) : spr_write_ttcr(value)
  <2>1. \A x : Matches(queue', ttmr', x) => x >= 0
    BY <1>3, WriteStep
  <2>2. phase' = "insn"
    BY <1>3 DEF spr_write_ttmr, spr_write_ttcr
  <2> QED BY <2>1, <2>2 DEF Phased
<1>4. CASE WriteTEE \/ UNCHANGED vars
  BY <1>4 DEF WriteTEE, vars, Phased
<1>5. CASE \/ \E n \in 0..MaxCycles : Clock(n)
           \/ RunJob \/ sim_reset
  BY <1>2, <1>5 DEF Clock, RunJob, sim_reset, tick_raise_except, tick_restart, tick_one_shot,
                    check_int, sched_guard
<1> QED BY <1>3, <1>4, <1>5 DEF Next

(* It holds initially and always.                                          *)
LEMMA PhasedHolds == Spec => [](IndInv /\ Phased)
<1>1. Init => Phased
  <2> SUFFICES ASSUME Init PROVE Phased
    OBVIOUS
  <2>1. \A job \in TickJobs : ~ IsQueued(queue, job)
    BY ResetFacts DEF Init
  <2>2. ttmr = tick_reset /\ phase = "insn"
    BY DEF Init
  <2> QED BY <2>1, <2>2, StoppedFacts DEF Phased
<1> QED BY <1>1, IndInvHolds, NextPhased, PTL DEF Spec

(* The mapping, in terms of the queue: while an instruction executes ...   *)
LEMMA MapInsn ==
  ASSUME phase = "insn"
  PROVE  /\ ~ Due("tick_raise_except") /\ ~ Due("tick_restart") /\ ~ Due("tick_one_shot")
         /\ AbsTTCR = IF counting THEN since ELSE ttcr
BY DEF Due, AbsTTCR, spr_read_ttcr

(* ... and in the middle or at the end of do_scheduler.                    *)
LEMMA MapDrain ==
  ASSUME Healthy(queue), phase = "drain" \/ phase = LoopTest(queue)
  PROVE  /\ Due("tick_raise_except") <=> DueNow(queue, Raise)
         /\ Due("tick_restart") <=> DueNow(queue, Restart)
         /\ Due("tick_one_shot") <=> DueNow(queue, OneShot)
         /\ AbsTTCR = IF DueNow(queue, Restart) THEN 0
                      ELSE IF DueNow(queue, OneShot) THEN ttmr.TP
                      ELSE IF counting THEN since ELSE ttcr
<1>1. \A job : Due(job) <=> phase = "drain" /\ DueNow(queue, job)
  BY DEF Due, Positions, DueNow, IsDue
<1>2. \A job : DueNow(queue, job) => phase = "drain"
  BY LoopTestFacts
<1>3. \A job : Due(job) <=> DueNow(queue, job)
  BY <1>1, <1>2
<1> QED BY <1>3 DEF AbsTTCR, spr_read_ttcr, Raise, Restart, OneShot

(* The same after a step.                                                  *)
LEMMA MapNext ==
  ASSUME Healthy(queue'), phase' = LoopTest(queue')
  PROVE  /\ Due("tick_raise_except")' <=> DueNow(queue', Raise)
         /\ Due("tick_restart")' <=> DueNow(queue', Restart)
         /\ Due("tick_one_shot")' <=> DueNow(queue', OneShot)
         /\ AbsTTCR' = IF DueNow(queue', Restart) THEN 0
                       ELSE IF DueNow(queue', OneShot) THEN ttmr'.TP
                       ELSE IF counting' THEN since' ELSE ttcr'
<1>1. /\ Due("tick_raise_except")' <=> phase' = "drain" /\ DueNow(queue', Raise)
      /\ Due("tick_restart")' <=> phase' = "drain" /\ DueNow(queue', Restart)
      /\ Due("tick_one_shot")' <=> phase' = "drain" /\ DueNow(queue', OneShot)
  BY DEF Due, Positions, DueNow, IsDue, Raise, Restart, OneShot
<1>2. \A job : DueNow(queue', job) => phase' = "drain"
  BY LoopTestFacts
<1>3. AbsTTCR' = IF Due("tick_restart")' THEN 0
                 ELSE IF Due("tick_one_shot")' THEN ttmr'.TP
                 ELSE IF counting' THEN since' ELSE ttcr'
  BY DEF AbsTTCR, spr_read_ttcr
<1> QED BY <1>1, <1>2, <1>3

(* The head of the queue is due when its function runs.                    *)
LEMMA HeadIsDue ==
  ASSUME IndInv, Phased, NEW job, Popped(job)
  PROVE  DueNow(queue, job) /\ phase = "drain"
<1>1. queue \in Queues(AllJobs) /\ Len(queue) >= 1
  BY HealthyLen DEF IndInv
<1>2. /\ Len(queue) \in Nat /\ queue[1].time \in Int
      /\ AllTime(queue)[0] = 0 /\ AllTime(queue)[1] = AllTime(queue)[0] + queue[1].time
  <2>1. Len(queue) \in Nat /\ 1 \in 1..Len(queue) /\ 1 - 1 = 0
    BY <1>1, EntryType
  <2> QED BY <1>1, <2>1, EntryType, AllTimeUnfolds
<1>3. DueIn(queue, 1) = queue[1].time
  BY <1>2 DEF DueIn
<1>4. queue[1].time <= 0 /\ queue[1].job = job /\ phase = "drain"
  BY DEF Popped, Phased, HeadDue
<1>5. IsDue(queue, job, DueIn(queue, 1))
  BY <1>1, <1>2, <1>4 DEF IsDue
<1> QED BY <1>3, <1>4, <1>5 DEF DueNow

(* The distance to the match, as TickAbs computes it.                      *)
LEMMA UntilIs ==
  ASSUME NEW t \in Registers, NEW c \in Counts, NEW x \in 0..(TP_MOD - 1),
         (c + x) % TP_MOD = t.TP
  PROVE  (t.TP - c) % TP_MOD = x
<1>1. TP_MOD \in Nat /\ TP_MOD > 0 /\ c \in Int /\ t.TP \in Int /\ x \in Int
  BY WidthFacts DEF Registers, Counts
<1>2. PICK y \in Int : y = c + x
  BY <1>1
<1>3. PICK k \in Int : y = k * TP_MOD + t.TP
  BY <1>1, <1>2, Division
<1>4. PICK p \in Int, m \in Int : p = k * TP_MOD /\ m = -k /\ m * TP_MOD = -p
  BY <1>1
<1>5. PICK z \in Int : z = t.TP - c
  BY <1>1
<1>6. z = m * TP_MOD + x
  <2>1. y = p + t.TP
    BY <1>3, <1>4
  <2>2. z = -p + x
    BY <1>1, <1>2, <1>5, <2>1
  <2> QED BY <1>4, <2>2
<1>7. z % TP_MOD = x
  BY <1>1, <1>6, RestIs
<1> QED BY <1>5, <1>7

(* It is zero at the match.                                                *)
LEMMA UntilZero ==
  ASSUME NEW t \in Registers, NEW c \in Counts
  PROVE  (t.TP - c) % TP_MOD = 0 <=> c % TP_MOD = t.TP
<1>1. PICK u : u = CyclesUntil(t, c)
  OBVIOUS
<1>2. u \in Nat /\ u < TP_MOD /\ (c + u) % TP_MOD = t.TP /\ (u = 0 <=> c % TP_MOD = t.TP)
  BY <1>1, UntilFacts
<1>3. u \in 0..(TP_MOD - 1)
  BY <1>2, WidthFacts
<1>4. (t.TP - c) % TP_MOD = u
  BY <1>2, <1>3, UntilIs
<1> QED BY <1>2, <1>4

(* A job that is run, and possibly queued again, leaves the others alone.  *)
LEMMA OthersStay ==
  ASSUME Healthy(queue), NEW job, Popped(job), NEW q, q = PopHead(queue),
         NEW r, r = q \/ \E t \in Int : r = sched_add(q, job, t)
  PROVE  /\ \A j : j # job => (IsQueued(r, j) <=> IsQueued(queue, j))
         /\ \A j : j # job => (DueNow(r, j) <=> DueNow(queue, j))
<1>1. q \in Queues(AllJobs) /\ Len(q) >= 1 /\ job \in AllJobs /\ OthersSame(q, queue, job)
  BY PopFacts
<1>2. \A j : j # job => /\ IsQueued(q, j) <=> IsQueued(queue, j)
                        /\ \A x : IsDue(q, j, x) <=> IsDue(queue, j, x)
  BY <1>1 DEF OthersSame
<1>3. CASE r = q
  BY <1>2, <1>3 DEF DueNow
<1>4. ASSUME NEW t \in Int, r = sched_add(q, job, t)
      PROVE  \A j : j # job => /\ IsQueued(r, j) <=> IsQueued(q, j)
                               /\ \A x : IsDue(r, j, x) <=> IsDue(q, j, x)
  <2>1. OthersSame(q, r, job)
    BY <1>1, <1>4, AddFacts
  <2> QED BY <2>1 DEF OthersSame
<1>5. CASE \E t \in Int : r = sched_add(q, job, t)
  BY <1>2, <1>4, <1>5 DEF DueNow
<1> QED BY <1>3, <1>5

(* What a job of do_scheduler shows to the program.                        *)
Shown ==
  /\ ttmr'.TP = ttmr.TP /\ ttmr'.IE = ttmr.IE /\ ttmr'.M = ttmr.M /\ writes' = writes
  /\ (ttmr.IP \/ Due("tick_raise_except")) = (ttmr.IP \/ Due("tick_raise_except"))'
  /\ AbsTTCR' = AbsTTCR
  /\ (counting /\ ~ Due("tick_one_shot")) = (counting /\ ~ Due("tick_one_shot"))'

(* Nothing more than that they are done: each changes the registers to     *)
(* what they counted as since the job was due.                             *)
LEMMA RunJobShows ==
  ASSUME IndInv, IndInv', Phased, RunJob
  PROVE  phase = "drain" /\ Shown
<1>1. /\ Healthy(queue) /\ Healthy(queue') /\ Follow(queue, ttmr, ttcr, counting)
      /\ Follow(queue', ttmr', ttcr', counting')
      /\ ttmr \in Registers /\ ttmr.IP \in BOOLEAN /\ counting \in BOOLEAN
  BY DEF IndInv, TypeOK, Registers
<1>2. phase = "drain" /\ phase' = LoopTest(queue') /\ writes' = writes
  BY DEF RunJob, tick_raise_except, tick_restart, tick_one_shot, check_int, sched_guard, Popped
<1>3. /\ Due("tick_raise_except") <=> DueNow(queue, Raise)
      /\ Due("tick_one_shot") <=> DueNow(queue, OneShot)
      /\ AbsTTCR = IF DueNow(queue, Restart) THEN 0
                   ELSE IF DueNow(queue, OneShot) THEN ttmr.TP
                   ELSE IF counting THEN since ELSE ttcr
  BY <1>1, <1>2, MapDrain
<1>4. /\ Due("tick_raise_except")' <=> DueNow(queue', Raise)
      /\ Due("tick_one_shot")' <=> DueNow(queue', OneShot)
      /\ AbsTTCR' = IF DueNow(queue', Restart) THEN 0
                    ELSE IF DueNow(queue', OneShot) THEN ttmr'.TP
                    ELSE IF counting' THEN since' ELSE ttcr'
  BY <1>1, <1>2, MapNext
<1>5. \A q, job : ~ IsQueued(q, job) => ~ DueNow(q, job)
  BY QueuedIsDue DEF DueNow
<1>6. ASSUME NEW job, Popped(job), NEW r,
             r = PopHead(queue) \/ \E t \in Int : r = sched_add(PopHead(queue), job, t)
      PROVE  /\ \A j : j # job => (IsQueued(r, j) <=> IsQueued(queue, j))
             /\ \A j : j # job => (DueNow(r, j) <=> DueNow(queue, j))
             /\ DueNow(queue, job)
  BY <1>1, <1>6, OthersStay, HeadIsDue
<1>7. CASE tick_raise_except
  <2> DEFINE t == 1 - AllTime(PopHead(queue))[NegRun(PopHead(queue))]
  <2>1. Popped(Raise) /\ ttmr' = [ttmr EXCEPT !.IP = TRUE] /\ UNCHANGED <<ttcr, since, counting>>
    BY <1>7 DEF tick_raise_except, Raise
  <2>2. queue' = sched_add(PopHead(queue), Raise, t)
    BY <1>7 DEF tick_raise_except, sched_next_insn, Raise
  <2>3. t \in Int
    <3>1. PICK q : q = PopHead(queue)
      OBVIOUS
    <3>2. q \in Queues(AllJobs)
      BY <1>1, <2>1, <3>1, PopFacts
    <3>3. AllTime(q)[NegRun(q)] \in Int
      BY <3>2, NegRunExists
    <3> QED BY <3>1, <3>3
  <2> HIDE DEF t
  <2>4. /\ \A j : j # Raise => (DueNow(queue', j) <=> DueNow(queue, j))
        /\ DueNow(queue, Raise)
    BY <1>6, <2>1, <2>2, <2>3
  <2>5. /\ ttmr'.TP = ttmr.TP /\ ttmr'.IE = ttmr.IE /\ ttmr'.M = ttmr.M /\ ttmr'.IP = TRUE
    BY <1>1, <2>1 DEF Registers
  <2>6. AbsTTCR' = AbsTTCR
    BY <1>3, <1>4, <2>1, <2>4, <2>5, JobFacts
  <2>7. (counting /\ ~ Due("tick_one_shot")) = (counting /\ ~ Due("tick_one_shot"))'
    BY <1>3, <1>4, <2>1, <2>4, JobFacts
  <2>8. (ttmr.IP \/ Due("tick_raise_except")) = (ttmr.IP \/ Due("tick_raise_except"))'
    BY <1>3, <2>4, <2>5
  <2> QED BY <1>2, <2>5, <2>6, <2>7, <2>8 DEF Shown
<1>8. CASE tick_restart
  <2>1. /\ Popped(Restart) /\ ttmr' = ttmr /\ ttcr' = 0 /\ since' = 0 /\ counting' = counting
        /\ queue' = sched_add(PopHead(queue), Restart, ttmr.TP)
    BY <1>8 DEF tick_restart, Restart
  <2>2. ttmr.TP \in Int
    BY <1>1, WidthFacts DEF Registers
  <2>3. /\ \A j : j # Restart => (DueNow(queue', j) <=> DueNow(queue, j))
        /\ DueNow(queue, Restart)
    BY <1>6, <2>1, <2>2
  <2>4. ttmr.M = "RT" /\ ~ IsQueued(queue', OneShot)
    BY <1>1, <1>5, <2>1, <2>3 DEF Follow
  <2>5. AbsTTCR' = 0 /\ AbsTTCR = 0
    BY <1>3, <1>4, <1>5, <2>1, <2>3, <2>4
  <2>6. (counting /\ ~ Due("tick_one_shot")) = (counting /\ ~ Due("tick_one_shot"))'
    BY <1>3, <1>4, <2>1, <2>3, JobFacts
  <2>7. (ttmr.IP \/ Due("tick_raise_except")) = (ttmr.IP \/ Due("tick_raise_except"))'
    BY <1>3, <1>4, <2>1, <2>3, JobFacts
  <2> QED BY <1>2, <2>1, <2>5, <2>6, <2>7 DEF Shown
<1>9. CASE tick_one_shot
  <2>1. /\ Popped(OneShot) /\ ttmr' = ttmr /\ ttcr' = ttmr.TP /\ counting' = FALSE
        /\ queue' = PopHead(queue)
    BY <1>9 DEF tick_one_shot, OneShot
  <2>2. /\ \A j : j # OneShot => (DueNow(queue', j) <=> DueNow(queue, j))
        /\ DueNow(queue, OneShot)
    BY <1>6, <2>1
  <2>3. ttmr.M = "SR" /\ ~ IsQueued(queue, Restart) /\ ~ IsQueued(queue', OneShot)
    BY <1>1, <1>5, <2>1, <2>2 DEF Follow
  <2>4. ~ DueNow(queue, Restart) /\ ~ DueNow(queue', Restart) /\ ~ DueNow(queue', OneShot)
    BY <1>5, <2>2, <2>3, JobFacts
  <2>5. AbsTTCR = ttmr.TP /\ AbsTTCR' = ttmr.TP
    BY <1>3, <1>4, <2>1, <2>2, <2>4
  <2>6. (counting /\ ~ Due("tick_one_shot")) = (counting /\ ~ Due("tick_one_shot"))'
    BY <1>3, <2>1, <2>2
  <2>7. (ttmr.IP \/ Due("tick_raise_except")) = (ttmr.IP \/ Due("tick_raise_except"))'
    BY <1>3, <1>4, <2>1, <2>2, JobFacts
  <2> QED BY <1>2, <2>1, <2>5, <2>6, <2>7 DEF Shown
<1>10. CASE check_int \/ sched_guard
  <2>1. /\ UNCHANGED <<ttmr, ttcr, since, counting>>
        /\ \E job \in {Poll, Guard}, t \in Int :
              Popped(job) /\ queue' = sched_add(PopHead(queue), job, t)
    BY <1>10, TickConstants DEF check_int, sched_guard, Poll, Guard
  <2>2. PICK job \in {Poll, Guard}, t \in Int :
              Popped(job) /\ queue' = sched_add(PopHead(queue), job, t)
    BY <2>1
  <2>3. \A j : j # job => (DueNow(queue', j) <=> DueNow(queue, j))
    BY <1>6, <2>2
  <2>4. /\ DueNow(queue', Raise) <=> DueNow(queue, Raise)
        /\ DueNow(queue', Restart) <=> DueNow(queue, Restart)
        /\ DueNow(queue', OneShot) <=> DueNow(queue, OneShot)
    BY <2>2, <2>3, JobFacts
  <2>5. AbsTTCR' = AbsTTCR
    BY <1>3, <1>4, <2>1, <2>4
  <2>6. (counting /\ ~ Due("tick_one_shot")) = (counting /\ ~ Due("tick_one_shot"))'
    BY <1>3, <1>4, <2>1, <2>4
  <2>7. (ttmr.IP \/ Due("tick_raise_except")) = (ttmr.IP \/ Due("tick_raise_except"))'
    BY <1>3, <1>4, <2>1, <2>4
  <2> QED BY <1>2, <2>1, <2>5, <2>6, <2>7 DEF Shown
<1> QED BY <1>2, <1>7, <1>8, <1>9, <1>10 DEF RunJob

(* Cycles make due what the counter of TickAbs reaches.                    *)
LEMMA ClockDue ==
  ASSUME IndInv, IndInv', Phased, NEW n \in 0..MaxCycles, Clock(n),
         NEW c, c = (IF counting THEN since ELSE ttcr),
         NEW until, until = (ttmr.TP - c) % TP_MOD
  PROVE  /\ counting => /\ DueNow(queue', Restart) <=> ttmr.M = "RT" /\ until <= n
                        /\ DueNow(queue', OneShot) <=> ttmr.M = "SR" /\ until <= n
                        /\ ~ ttmr.IP => (DueNow(queue', Raise) <=> ttmr.IE /\ until <= n)
         /\ ~ counting => /\ ttmr.M # "RT" /\ ~ DueNow(queue', Restart) /\ ~ DueNow(queue', OneShot)
                          /\ ~ ttmr.IP => (DueNow(queue', Raise) <=>
                                             ttmr.IE /\ ttmr.M = "DIS" /\ until = 0)
<1>1. /\ Healthy(queue) /\ queue \in Queues(AllJobs) /\ Len(queue) >= 1 /\ n \in Int /\ n >= 0
      /\ Follow(queue, ttmr, ttcr, counting) /\ ttmr \in Registers /\ counting \in BOOLEAN
      /\ c \in Counts /\ ttmr.M \in Modes /\ ttmr.IE \in BOOLEAN /\ ttmr.IP \in BOOLEAN
      /\ Near(queue, ttmr, counting) /\ (counting => OnTime(queue, ttmr, c))
  BY HealthyLen, TickConstants DEF IndInv, TypeOK, Registers, Counts
<1>2. queue' = Elapse(queue, n) /\ phase = "insn" /\ queue' \in Queues(AllJobs)
  BY <1>1, ElapseFacts DEF Clock
<1>3. \A j : \A x \in Int : IsDue(queue', j, x) <=> IsDue(queue, j, x + n)
  BY <1>1, <1>2, ElapseJobs
<1>4. ASSUME NEW j PROVE DueNow(queue', j) <=> \E y \in Int : IsDue(queue, j, y) /\ y <= n
  <2>1. ASSUME DueNow(queue', j) PROVE \E y \in Int : IsDue(queue, j, y) /\ y <= n
    <3>1. PICK x : IsDue(queue', j, x) /\ x <= 0
      BY <2>1 DEF DueNow
    <3>2. x \in Int
      BY <1>2, <3>1, DueIsInt
    <3>3. x + n \in Int /\ x + n <= n /\ IsDue(queue, j, x + n)
      BY <1>1, <1>3, <3>1, <3>2
    <3> QED BY <3>3
  <2>2. ASSUME NEW y \in Int, IsDue(queue, j, y), y <= n PROVE DueNow(queue', j)
    <3>1. y - n \in Int /\ (y - n) + n = y /\ y - n <= 0
      BY <1>1, <2>2
    <3>2. PICK x \in Int : x = y - n /\ x + n = y /\ x <= 0
      BY <3>1
    <3>3. IsDue(queue', j, x)
      BY <1>3, <2>2, <3>2
    <3> QED BY <3>2, <3>3 DEF DueNow
  <2> QED BY <2>1, <2>2
<1>5. ASSUME NEW x, Matches(queue, ttmr, x) PROVE x \in Int /\ x >= 0 /\ x < TP_MOD
  <2>1. x \in Int
    BY <1>1, <1>5, DueIsInt DEF Matches
  <2> QED BY <1>1, <1>2, <1>5, <2>1 DEF Near, Phased
<1>6. \A j : IsQueued(queue, j) <=> \E x : IsDue(queue, j, x)
  BY QueuedIsDue
<1>7. CASE counting
  <2>1. ASSUME NEW x, Matches(queue, ttmr, x) PROVE x \in Int /\ x = until
    <3>1. x \in 0..(TP_MOD - 1) /\ (c + x) % TP_MOD = ttmr.TP
      BY <1>1, <1>5, <1>7, <2>1, WidthFacts DEF OnTime
    <3> QED BY <1>1, <3>1, UntilIs
  <2>2. \A x : IsDue(queue, Restart, x) => x \in Int /\ x = until
    BY <2>1 DEF Matches
  <2>3. \A x : IsDue(queue, OneShot, x) => x \in Int /\ x = until
    BY <2>1 DEF Matches
  <2>4. ~ ttmr.IP => \A x : IsDue(queue, Raise, x) => x \in Int /\ x = until
    BY <2>1 DEF Matches
  <2>5. DueNow(queue', Restart) <=> ttmr.M = "RT" /\ until <= n
    BY <1>1, <1>4, <1>6, <2>2 DEF Follow
  <2>6. DueNow(queue', OneShot) <=> ttmr.M = "SR" /\ until <= n
    BY <1>1, <1>4, <1>6, <1>7, <2>3 DEF Follow
  <2>7. ~ ttmr.IP => (DueNow(queue', Raise) <=> ttmr.IE /\ until <= n)
    <3>1. IsQueued(queue, Raise) <=> ttmr.IE
      BY <1>1, <1>7 DEF Follow
    <3> QED BY <1>4, <1>6, <2>4, <3>1
  <2> QED BY <1>7, <2>5, <2>6, <2>7
<1>8. CASE ~ counting
  <2>1. ttmr.M # "RT" /\ (ttmr.M = "DIS" \/ ttmr.M = "SR")
        /\ ~ IsQueued(queue, Restart) /\ ~ IsQueued(queue, OneShot)
    BY <1>1, <1>8 DEF Follow, Modes
  <2>2. ~ DueNow(queue', Restart) /\ ~ DueNow(queue', OneShot)
    BY <1>4, <1>6, <2>1
  <2>3. until = 0 <=> ttcr % TP_MOD = ttmr.TP
    BY <1>1, <1>8, UntilZero
  <2>4. ASSUME ~ ttmr.IP PROVE DueNow(queue', Raise) <=> IsQueued(queue, Raise)
    <3>1. ASSUME NEW x, IsDue(queue, Raise, x) PROVE x \in Int /\ x <= n
      <4>1. Matches(queue, ttmr, x)
        BY <2>4, <3>1 DEF Matches
      <4>2. x \in Int /\ x <= 0
        BY <1>1, <1>5, <1>8, <4>1 DEF Near
      <4> QED BY <1>1, <4>2
    <3> QED BY <1>4, <1>6, <3>1
  <2>5. ~ ttmr.IP => (IsQueued(queue, Raise) <=> ttmr.IE /\ ttmr.M = "DIS" /\ until = 0)
    BY <1>1, <1>8, <2>1, <2>3 DEF Follow
  <2> QED BY <1>8, <2>1, <2>2, <2>4, <2>5
<1> QED BY <1>1, <1>7, <1>8

(* Every step of Tick is one of TickAbs, or none.                          *)
LEMMA StepRefines ==
  ASSUME IndInv, IndInv', Phased, [Next]_vars
  PROVE  [Abs!Next]_(Abs!absvars)
<1>1. /\ Healthy(queue) /\ Healthy(queue') /\ ttmr \in Registers /\ ttcr \in Counts
      /\ since \in Counts /\ ttmr.IP \in BOOLEAN /\ ttmr.IE \in BOOLEAN /\ counting \in BOOLEAN
      /\ ttmr.M \in Modes
  BY DEF IndInv, TypeOK, Registers, Counts
<1>2. ASSUME NEW tp \in TPs, NEW ie \in BOOLEAN, NEW m \in Modes, spr_write_ttmr(tp, ie, m)
      PROVE  Abs!WriteTTMR
  <2>1. /\ phase = "insn" /\ phase' = "insn" /\ writes' = writes + 1
        /\ ttmr'.TP = tp /\ ttmr'.IP = FALSE /\ ttmr'.IE = ie /\ ttmr'.M = m
        /\ counting' = (m # "DIS") /\ ttcr' = AbsTTCR /\ since' = AbsTTCR
    BY <1>2, MapInsn DEF spr_write_ttmr
  <2>2. tp \in 0..(TP_MOD - 1)
    BY TickConstants
  <2>3. /\ ~ Due("tick_raise_except")' /\ ~ Due("tick_one_shot")'
        /\ AbsTTCR' = IF counting' THEN since' ELSE ttcr'
    BY <2>1 DEF Due, AbsTTCR, spr_read_ttcr
  <2> QED BY <2>1, <2>2, <2>3 DEF Abs!WriteTTMR, Abs!Write, Modes
<1>3. ASSUME NEW value \in 0..(TTCR_MOD - 1), spr_write_ttcr(value)
      PROVE  Abs!WriteTTCR
  <2>1. /\ phase = "insn" /\ phase' = "insn" /\ writes' = writes + 1
        /\ ttmr' = ttmr /\ counting' = counting /\ ttcr' = value /\ since' = value
    BY <1>3 DEF spr_write_ttcr
  <2>2. ~ Due("tick_raise_except") /\ ~ Due("tick_one_shot")
    BY <2>1, MapInsn
  <2>3. /\ ~ Due("tick_raise_except")' /\ ~ Due("tick_one_shot")'
        /\ AbsTTCR' = IF counting' THEN since' ELSE ttcr'
    BY <2>1 DEF Due, AbsTTCR, spr_read_ttcr
  <2> QED BY <2>1, <2>2, <2>3 DEF Abs!WriteTTCR, Abs!Write
<1>4. ASSUME NEW n \in 0..MaxCycles, Clock(n) PROVE Abs!Tick(n)
  <2>1. /\ phase = "insn" /\ phase' = LoopTest(queue') /\ writes' = writes
        /\ ttmr' = ttmr /\ ttcr' = ttcr /\ counting' = counting
        /\ since' = (since + n) % TTCR_MOD
    BY <1>4 DEF Clock
  <2>2. PICK c : c = (IF counting THEN since ELSE ttcr)
    OBVIOUS
  <2>3. PICK until : until = (ttmr.TP - c) % TP_MOD
    OBVIOUS
  <2>4. /\ ~ Due("tick_raise_except") /\ ~ Due("tick_one_shot") /\ AbsTTCR = c
        /\ Abs!Until = until
    BY <2>1, <2>2, <2>3, MapInsn DEF Abs!Until
  <2>5. /\ Due("tick_raise_except")' <=> DueNow(queue', Raise)
        /\ Due("tick_one_shot")' <=> DueNow(queue', OneShot)
        /\ AbsTTCR' = IF DueNow(queue', Restart) THEN 0
                      ELSE IF DueNow(queue', OneShot) THEN ttmr.TP
                      ELSE IF counting THEN since' ELSE ttcr
    BY <1>1, <2>1, MapNext
  <2>6. /\ counting => /\ DueNow(queue', Restart) <=> ttmr.M = "RT" /\ until <= n
                       /\ DueNow(queue', OneShot) <=> ttmr.M = "SR" /\ until <= n
                       /\ ~ ttmr.IP => (DueNow(queue', Raise) <=> ttmr.IE /\ until <= n)
        /\ ~ counting => /\ ttmr.M # "RT" /\ ~ DueNow(queue', Restart) /\ ~ DueNow(queue', OneShot)
                         /\ ~ ttmr.IP => (DueNow(queue', Raise) <=>
                                            ttmr.IE /\ ttmr.M = "DIS" /\ until = 0)
    BY <1>4, <2>2, <2>3, ClockDue
  <2> DEFINE match == IF counting THEN until <= n ELSE ttmr.M = "DIS" /\ until = 0
             stop == ttmr.M = "SR" /\ counting /\ match
  <2>7. (ttmr.IP \/ DueNow(queue', Raise)) = (ttmr.IP \/ (ttmr.IE /\ match))
    BY <1>1, <2>6
  <2>8. (counting /\ ~ DueNow(queue', OneShot)) = (counting /\ ~ stop)
    BY <1>1, <2>6
  <2>9. AbsTTCR' = IF ~ counting THEN c
                   ELSE IF ttmr.M = "RT" /\ match THEN 0
                   ELSE IF stop THEN ttmr.TP
                   ELSE (c + n) % TTCR_MOD
    BY <1>1, <2>1, <2>2, <2>5, <2>6
  <2> QED BY <2>1, <2>4, <2>5, <2>7, <2>8, <2>9 DEF Abs!Tick
<1>5. CASE RunJob
  <2>1. phase = "drain" /\ Shown
    BY <1>5, RunJobShows
  <2>2. CASE phase' = "insn"
    <3>1. Abs!JobsDone
      BY <2>1, <2>2 DEF Shown, Abs!JobsDone, Abs!timer
    <3> QED BY <3>1 DEF Abs!Next
  <2>3. CASE phase' # "insn"
    BY <2>1, <2>3 DEF Shown, Abs!absvars, Abs!timer
  <2> QED BY <2>2, <2>3
<1>6. CASE sim_reset
  <2>1. /\ phase = "drain" /\ phase' = LoopTest(queue') /\ writes' = writes + 1
        /\ ttmr' = tick_reset /\ ttcr' = 0 /\ counting' = FALSE
        /\ queue' = sched_add(AfterReset, "check_int", CHECK_INT_TIME)
    BY <1>6 DEF sim_reset, Popped
  <2>2. \A job \in TickJobs : ~ IsQueued(queue', job)
    BY <2>1, ResetFacts
  <2>3. ~ DueNow(queue', Raise) /\ ~ DueNow(queue', Restart) /\ ~ DueNow(queue', OneShot)
    BY <2>2, JobFacts, QueuedIsDue DEF DueNow
  <2>4. ~ Due("tick_raise_except")' /\ ~ Due("tick_one_shot")' /\ AbsTTCR' = 0
    BY <1>1, <2>1, <2>3, MapNext
  <2>5. ttmr'.TP = 0 /\ ttmr'.IP = FALSE /\ ttmr'.IE = FALSE /\ ttmr'.M = "DIS"
    BY <2>1 DEF tick_reset
  <2>6. Abs!Reset
    BY <2>1, <2>4, <2>5 DEF Abs!Reset, Abs!Write
  <2> QED BY <2>6 DEF Abs!Next
<1>7. CASE WriteTEE \/ UNCHANGED vars
  <2>1. UNCHANGED <<ttmr, ttcr, since, counting, queue, phase, writes>>
    BY <1>7 DEF WriteTEE, vars
  <2> QED BY <2>1 DEF Abs!absvars, Abs!timer, AbsTTCR, spr_read_ttcr, Due, Positions
<1> QED BY <1>2, <1>3, <1>4, <1>5, <1>6, <1>7 DEF Next, Abs!Next

(* The three jobs of tick.c and the cycle count at which the timer was     *)
(* started implement a counter that is stepped with every cycle, compared  *)
(* with TTMR[TP] and restarted, stopped or left to run on at a match: no   *)
(* program can tell them apart, for every width of the counter and every   *)
(* length of instructions.                                                 *)
THEOREM JobsImplementCounter == Spec => Tick_refines
<1>1. Init => Abs!Init
  <2> SUFFICES ASSUME Init PROVE Abs!Init
    OBVIOUS
  <2>1. /\ phase = "insn" /\ ttmr = tick_reset /\ ttcr = 0 /\ counting = FALSE /\ writes = 0
    BY DEF Init
  <2>2. ~ Due("tick_raise_except") /\ AbsTTCR = 0
    BY <2>1, MapInsn
  <2> QED BY <2>1, <2>2 DEF Abs!Init, tick_reset
<1>2. IndInv /\ IndInv' /\ Phased /\ [Next]_vars => [Abs!Next]_(Abs!absvars)
  BY StepRefines
<1> QED BY <1>1, <1>2, PhasedHolds, PTL DEF Spec, Tick_refines, Abs!Spec

=============================================================================
