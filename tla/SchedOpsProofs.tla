--------------------------- MODULE SchedOpsProofs ---------------------------
(***************************************************************************)
(* Facts about the operators of SchedOps, for every queue: what sched_add, *)
(* sched_find_remove, do_scheduler's pop and the passing of cycles do to   *)
(* the jobs of a queue, to their due times and to their order.  The proofs *)
(* about the scheduler and about its clients rest on them.                 *)
(***************************************************************************)
EXTENDS SchedOps, TLAPS, WellFoundedInduction

(* The entries of a queue, and the queues.                                 *)
Entries(Jobs) == [job : Jobs, time : Int]
Queues(Jobs) == Seq(Entries(Jobs))

(* A non-empty set of positions of a list has a least element: the walks   *)
(* of sched_add and sched_find_remove stop somewhere.                      *)
LEMMA LeastIndex ==
  ASSUME NEW T, T \subseteq Nat, T # {}
  PROVE  \E x \in T : \A y \in T : x <= y
<1>1. IsWellFoundedOn(OpToRel(<, Nat), Nat)
  BY NatLessThanWellFounded
<1>2. \E x \in T : \A y \in T : ~ (<<y, x>> \in OpToRel(<, Nat))
  BY <1>1, WFMin
<1>3. PICK x \in T : \A y \in T : ~ (<<y, x>> \in OpToRel(<, Nat))
  BY <1>2
<1>4. \A y \in T : ~ (y < x)
  BY <1>3 DEF OpToRel
<1> QED
  BY <1>4

(* What membership in Queues(Jobs) says of one entry.                      *)
LEMMA EntryType ==
  ASSUME NEW Jobs, NEW q \in Queues(Jobs)
  PROVE  /\ Len(q) \in Nat
         /\ \A i \in 1..Len(q) : /\ q[i] \in Entries(Jobs)
                                 /\ q[i].job \in Jobs
                                 /\ q[i].time \in Int
                                 /\ q[i] = Entry(q[i].job, q[i].time)
<1>1. Len(q) \in Nat /\ \A i \in 1..Len(q) : q[i] \in Entries(Jobs)
  BY DEF Queues
<1> QED BY <1>1 DEF Queues, Entries, Entry

-----------------------------------------------------------------------------
(* The recursive definition of AllTime is well founded.                    *)
AT(q, f) == [i \in 0..Len(q) |-> IF i = 0 THEN 0 ELSE f[i - 1] + q[i].time]

(* The prefix sums of a list exist up to every length.                     *)
LEMMA PrefixSumsExist ==
  ASSUME NEW Jobs, NEW q \in Queues(Jobs), NEW n \in 0..Len(q)
  PROVE  \E f \in [0..n -> Int] :
           f[0] = 0 /\ \A i \in 1..n : f[i] = f[i - 1] + q[i].time
<1> DEFINE Good(m) == \E f \in [0..m -> Int] :
                        f[0] = 0 /\ \A i \in 1..m : f[i] = f[i - 1] + q[i].time
           Bad == {m \in 0..Len(q) : ~ Good(m)}
<1>1. Good(0)
  <2>1. [i \in 0..0 |-> 0] \in [0..0 -> Int]
    OBVIOUS
  <2>2. [i \in 0..0 |-> 0][0] = 0 /\ 1..0 = {}
    OBVIOUS
  <2> QED BY <2>1, <2>2
<1>2. ASSUME NEW m \in 0..Len(q), m # 0, Good(m - 1)
      PROVE  Good(m)
  <2>1. PICK g \in [0..(m - 1) -> Int] :
          g[0] = 0 /\ \A i \in 1..(m - 1) : g[i] = g[i - 1] + q[i].time
    BY <1>2
  <2> DEFINE h == [i \in 0..m |-> IF i = m THEN g[m - 1] + q[m].time ELSE g[i]]
  <2>2. q[m].time \in Int
    BY <1>2, EntryType
  <2>3. m - 1 \in 0..(m - 1) /\ m \in Nat
    BY <1>2
  <2>4. h \in [0..m -> Int]
    BY <2>1, <2>2, <2>3
  <2>5. h[0] = 0
    BY <1>2, <2>1, <2>3
  <2>6. \A i \in 1..m : h[i] = h[i - 1] + q[i].time
    BY <2>1, <2>2, <2>3
  <2> HIDE DEF h
  <2> QED BY <2>4, <2>5, <2>6
<1> HIDE DEF Good
<1>3. Bad = {}
  <2> SUFFICES ASSUME Bad # {} PROVE FALSE
    OBVIOUS
  <2>0. Bad \subseteq Nat
    BY EntryType
  <2>1. PICK x \in Bad : \A y \in Bad : x <= y
    <3> HIDE DEF Bad
    <3> QED BY <2>0, LeastIndex
  <2>2. x # 0
    BY <1>1, <2>1
  <2>3. x - 1 \in 0..Len(q) /\ x - 1 \notin Bad
    BY <2>1, <2>2
  <2> QED BY <1>2, <2>1, <2>2, <2>3
<1>4. Good(n)
  BY <1>3
<1> QED BY <1>4 DEF Good

(* AllTime, the sum that sched_add's loop keeps, obeys its recursion: it   *)
(* starts at 0 and each entry adds its delay.                              *)
LEMMA AllTimeUnfolds ==
  ASSUME NEW Jobs, NEW q \in Queues(Jobs)
  PROVE  /\ AllTime(q) \in [0..Len(q) -> Int]
         /\ AllTime(q)[0] = 0
         /\ \A i \in 1..Len(q) : AllTime(q)[i] = AllTime(q)[i - 1] + q[i].time
<1>1. PICK f \in [0..Len(q) -> Int] :
        f[0] = 0 /\ \A i \in 1..Len(q) : f[i] = f[i - 1] + q[i].time
  <2>1. Len(q) \in 0..Len(q)
    BY EntryType
  <2> QED BY <2>1, PrefixSumsExist
<1>2. f = AT(q, f)
  BY <1>1 DEF AT
<1> DEFINE S == CHOOSE g : g = AT(q, g)
<1>3. S = AT(q, S)
  BY <1>2, Zenon
<1>4. AllTime(q) = S
  BY DEF AllTime, AT
<1> HIDE DEF S
<1> DEFINE Bad == {m \in 0..Len(q) : S[m] \notin Int}
<1>5. /\ S = [i \in 0..Len(q) |-> IF i = 0 THEN 0 ELSE S[i - 1] + q[i].time]
  BY <1>3 DEF AT
<1>6. Bad = {}
  <2> SUFFICES ASSUME Bad # {} PROVE FALSE
    OBVIOUS
  <2>0. Bad \subseteq Nat
    BY EntryType
  <2>1. PICK x \in Bad : \A y \in Bad : x <= y
    <3> HIDE DEF Bad
    <3> QED BY <2>0, LeastIndex
  <2>2. x # 0
    BY <1>5, <2>1
  <2>3. x - 1 \in 0..Len(q) /\ S[x - 1] \in Int
    BY <2>1, <2>2
  <2>4. q[x].time \in Int
    BY <2>1, <2>2, EntryType
  <2>5. S[x] = S[x - 1] + q[x].time
    BY <1>5, <2>1, <2>2
  <2> QED BY <2>1, <2>3, <2>4, <2>5
<1>7. S \in [0..Len(q) -> Int]
  BY <1>5, <1>6
<1>8. S[0] = 0 /\ \A i \in 1..Len(q) : S[i] = S[i - 1] + q[i].time
  BY <1>5, EntryType
<1> QED BY <1>4, <1>7, <1>8

-----------------------------------------------------------------------------
(* sched_add's walk finds its position.                                    *)
LEMMA InsertPosExists ==
  ASSUME NEW Jobs, NEW q \in Queues(Jobs), NEW t \in Int
  PROVE  InsertPos(q, t) \in 1..(Len(q) + 1) /\ IsInsertPos(q, t, InsertPos(q, t))
<1> DEFINE Stop == {j \in 1..Len(q) : AllTime(q)[j - 1] + q[j].time >= t}
<1>1. \E i \in 1..(Len(q) + 1) : IsInsertPos(q, t, i)
  <2>1. CASE Stop = {}
    <3>1. Len(q) + 1 \in 1..(Len(q) + 1) /\ ~ (Len(q) + 1 <= Len(q)) /\ (Len(q) + 1) - 1 = Len(q)
      BY EntryType
    <3>2. \A j \in 1..Len(q) : ~ (AllTime(q)[j - 1] + q[j].time >= t)
      BY <2>1
    <3>3. IsInsertPos(q, t, Len(q) + 1)
      BY <3>1, <3>2 DEF IsInsertPos
    <3> QED BY <3>1, <3>3
  <2>2. CASE Stop # {}
    <3>1. Stop \subseteq Nat
      BY EntryType
    <3>2. PICK i \in Stop : \A j \in Stop : i <= j
      <4> HIDE DEF Stop
      <4> QED BY <2>2, <3>1, LeastIndex
    <3>3. i \in 1..(Len(q) + 1)
      BY EntryType
    <3>4. \A j \in 1..(i - 1) : j \in 1..Len(q) /\ ~ (i <= j)
      BY EntryType
    <3>5. IsInsertPos(q, t, i)
      BY <3>2, <3>4 DEF IsInsertPos
    <3> QED BY <3>3, <3>5
  <2> QED BY <2>1, <2>2
<1> HIDE DEF Stop
<1> QED BY <1>1 DEF InsertPos

-----------------------------------------------------------------------------
(* The sums are the only ones with their recursion.                        *)
LEMMA AllTimeIs ==
  ASSUME NEW Jobs, NEW q \in Queues(Jobs), NEW f \in [0..Len(q) -> Int], f[0] = 0,
         \A i \in 1..Len(q) : f[i] = f[i - 1] + q[i].time
  PROVE  \A i \in 0..Len(q) : AllTime(q)[i] = f[i]
<1> DEFINE Bad == {i \in 0..Len(q) : AllTime(q)[i] # f[i]}
<1> SUFFICES ASSUME Bad # {} PROVE FALSE
  OBVIOUS
<1>1. Bad \subseteq Nat
  BY EntryType
<1>2. PICK x \in Bad : \A y \in Bad : x <= y
  <2> HIDE DEF Bad
  <2> QED BY <1>1, LeastIndex
<1>3. x # 0
  BY AllTimeUnfolds
<1>4. x - 1 \in 0..Len(q) /\ x \in 1..Len(q) /\ AllTime(q)[x - 1] = f[x - 1]
  BY <1>2, <1>3
<1> QED BY <1>4, AllTimeUnfolds

(* The delta of an entry behind the head is not negative.                  *)
NonHeadOK(q) == \A i \in 2..Len(q) : q[i].time >= 0

(* r is q with one more entry, at position i: the jobs of the others and   *)
(* their due times are the same.                                           *)
Gains(q, r, i) ==
  /\ Len(r) = Len(q) + 1 /\ i \in 1..Len(r)
  /\ \A k \in 1..Len(q) : /\ k < i => r[k].job = q[k].job /\ DueIn(r, k) = DueIn(q, k)
                          /\ k >= i => /\ r[k + 1].job = q[k].job
                                       /\ DueIn(r, k + 1) = DueIn(q, k)

(* When a job added with job_time t is due: a job asked for in the past is *)
(* not put in front of a late head with an earlier time.                   *)
AddedDue(q, t) == IF InsertPos(q, t) = 1 /\ t < 0 THEN q[1].time ELSE t

(* sched_add puts the job where it was told to and moves no other.         *)
LEMMA AddGains ==
  ASSUME NEW Jobs, NEW q \in Queues(Jobs), Len(q) >= 1, NEW job \in Jobs, NEW t \in Int,
         NEW r, r = sched_add(q, job, t)
  PROVE  /\ r \in Queues(Jobs)
         /\ Gains(q, r, InsertPos(q, t))
         /\ r[InsertPos(q, t)].job = job
         /\ DueIn(r, InsertPos(q, t)) = AddedDue(q, t)
         /\ NonHeadOK(q) => NonHeadOK(r)
<1> DEFINE i == InsertPos(q, t)
           A == AllTime(q)
           T == NewTime(q, t, i)
           e == Entry(job, T)
<1>1. i \in 1..(Len(q) + 1) /\ IsInsertPos(q, t, i)
  BY InsertPosExists
<1>2. /\ A \in [0..Len(q) -> Int] /\ A[0] = 0
      /\ \A k \in 1..Len(q) : A[k] = A[k - 1] + q[k].time
  BY AllTimeUnfolds
<1>3. Len(q) \in Nat /\ \A k \in 1..Len(q) : /\ q[k] \in Entries(Jobs) /\ q[k].job \in Jobs
                                             /\ q[k].time \in Int
  BY EntryType
<1>4. r = LinkAt(q, i, e)
  BY DEF sched_add
<1>5. IsInsertPos(q, t, i) <=> /\ \A j \in 1..(i - 1) : ~ (A[j - 1] + q[j].time >= t)
                               /\ i <= Len(q) => A[i - 1] + q[i].time >= t
  BY DEF IsInsertPos
<1>6. T = IF i = 1 THEN (IF t >= 0 THEN t ELSE q[1].time) ELSE t - A[i - 1]
  BY DEF NewTime
<1>7. AddedDue(q, t) = IF i = 1 /\ t < 0 THEN q[1].time ELSE t
  BY DEF AddedDue
<1> DEFINE D == AddedDue(q, t)
<1> HIDE DEF i, A, T, D
<1>8. T \in Int /\ D \in Int /\ D = A[i - 1] + T /\ i - 1 \in 0..Len(q)
  <2>1. i - 1 \in 0..Len(q) /\ q[1].time \in Int /\ A[i - 1] \in Int
    BY <1>1, <1>2, <1>3
  <2>2. CASE i = 1
    <3>1. A[i - 1] = 0
      BY <1>2, <2>2
    <3> QED BY <1>6, <1>7, <2>1, <2>2, <3>1 DEF D
  <2>3. CASE i # 1
    BY <1>6, <1>7, <2>1, <2>3 DEF D
  <2> QED BY <2>2, <2>3
<1>9. e \in Entries(Jobs) /\ e.job = job /\ e.time = T
  BY <1>8 DEF Entries, Entry
<1>10. \A k \in 1..(Len(q) + 1) :
         /\ k < i => k \in 1..Len(q) /\ r[k] = q[k]
         /\ k = i => r[k] = e
         /\ k = i + 1 => i \in 1..Len(q) /\ r[k] = Entry(q[i].job, q[i].time - T)
         /\ k > i + 1 => k - 1 \in 1..Len(q) /\ r[k] = q[k - 1]
  <2> HIDE DEF e
  <2> QED BY <1>1, <1>3, <1>4, <1>9 DEF LinkAt
<1>11. r \in Queues(Jobs) /\ Len(r) = Len(q) + 1
  <2>1. r = [k \in 1..(Len(q) + 1) |-> r[k]]
    BY <1>4 DEF LinkAt
  <2>2. \A k \in 1..(Len(q) + 1) : r[k] \in Entries(Jobs)
    <3> SUFFICES ASSUME NEW k \in 1..(Len(q) + 1) PROVE r[k] \in Entries(Jobs)
      OBVIOUS
    <3>1. i \in 1..Len(q) => Entry(q[i].job, q[i].time - T) \in Entries(Jobs)
      BY <1>3, <1>8 DEF Entry, Entries
    <3> HIDE DEF e
    <3>2. k < i \/ k = i \/ k = i + 1 \/ k > i + 1
      BY <1>1
    <3> QED BY <1>3, <1>9, <1>10, <3>1, <3>2
  <2> QED BY <1>3, <2>1, <2>2 DEF Queues
<1> HIDE DEF e
<1>12. \A k \in 1..Len(r) : r[k].time = IF k < i THEN q[k].time
                                        ELSE IF k = i THEN T
                                        ELSE IF k = i + 1 THEN q[i].time - T
                                        ELSE q[k - 1].time
  <2> SUFFICES ASSUME NEW k \in 1..Len(r)
               PROVE  r[k].time = IF k < i THEN q[k].time
                                  ELSE IF k = i THEN T
                                  ELSE IF k = i + 1 THEN q[i].time - T
                                  ELSE q[k - 1].time
    OBVIOUS
  <2>1. k < i \/ k = i \/ k = i + 1 \/ k > i + 1
    BY <1>1, <1>3, <1>11
  <2>2. Entry(q[i].job, q[i].time - T).time = q[i].time - T
    BY DEF Entry
  <2> QED BY <1>1, <1>3, <1>9, <1>10, <1>11, <2>1, <2>2
<1>13. \A k \in 1..Len(q) : /\ k < i => r[k].job = q[k].job
                            /\ k >= i => r[k + 1].job = q[k].job
  <2> SUFFICES ASSUME NEW k \in 1..Len(q)
               PROVE  /\ k < i => r[k].job = q[k].job
                      /\ k >= i => r[k + 1].job = q[k].job
    OBVIOUS
  <2>1. CASE k < i
    BY <1>1, <1>3, <1>10, <2>1
  <2>2. CASE k = i
    <3>1. k + 1 \in 1..(Len(q) + 1) /\ k + 1 = i + 1
      BY <1>3, <2>2
    <3>2. r[k + 1] = Entry(q[i].job, q[i].time - T)
      BY <1>10, <3>1
    <3> QED BY <2>2, <3>2 DEF Entry
  <2>3. CASE k > i
    <3>1. k + 1 \in 1..(Len(q) + 1) /\ k + 1 > i + 1 /\ (k + 1) - 1 = k
      BY <1>1, <1>3, <2>3
    <3> QED BY <1>1, <1>10, <2>3, <3>1
  <2> QED BY <1>1, <2>1, <2>2, <2>3
<1> DEFINE f == [k \in 0..Len(r) |-> IF k < i THEN A[k] ELSE IF k = i THEN D ELSE A[k - 1]]
<1>14. f \in [0..Len(r) -> Int] /\ f[0] = 0
  BY <1>1, <1>2, <1>3, <1>8, <1>11
<1>15. \A k \in 1..Len(r) : f[k] = f[k - 1] + r[k].time
  <2> SUFFICES ASSUME NEW k \in 1..Len(r) PROVE f[k] = f[k - 1] + r[k].time
    OBVIOUS
  <2>0. k \in 0..Len(r) /\ k - 1 \in 0..Len(r) /\ i \in Nat
    BY <1>1, <1>3, <1>11
  <2>1. CASE k < i
    <3>1. k \in 1..Len(q) /\ k - 1 < i /\ f[k] = A[k] /\ f[k - 1] = A[k - 1]
      BY <1>1, <1>3, <2>0, <2>1
    <3> QED BY <1>2, <1>12, <2>1, <3>1
  <2>2. CASE k = i
    <3>1. k - 1 < i /\ f[k] = D /\ f[k - 1] = A[i - 1]
      BY <2>0, <2>2
    <3> QED BY <1>8, <1>12, <2>2, <3>1
  <2>3. CASE k = i + 1
    <3>1. f[k] = A[i] /\ f[k - 1] = D /\ i \in 1..Len(q)
      BY <1>1, <1>3, <1>11, <2>0, <2>3
    <3>2. r[k].time = q[i].time - T /\ q[i].time \in Int
      BY <1>3, <1>12, <2>3, <3>1, <2>0
    <3>3. A[i] = A[i - 1] + q[i].time /\ A[i - 1] \in Int
      BY <1>2, <1>8, <3>1
    <3> QED BY <1>8, <3>1, <3>2, <3>3
  <2>4. CASE k > i + 1
    <3>1. k - 1 \in 1..Len(q) /\ ~(k < i) /\ k # i /\ ~(k - 1 < i) /\ k - 1 # i /\ k # i + 1
      BY <1>3, <1>11, <2>0, <2>4
    <3>2. f[k] = A[k - 1] /\ f[k - 1] = A[(k - 1) - 1]
      BY <2>0, <3>1
    <3>3. r[k].time = q[k - 1].time
      BY <1>12, <3>1
    <3> QED BY <1>2, <3>1, <3>2, <3>3
  <2> QED BY <2>0, <2>1, <2>2, <2>3, <2>4
<1>16. \A k \in 0..Len(r) : AllTime(r)[k] = f[k]
  <2> HIDE DEF f
  <2> QED BY <1>11, <1>14, <1>15, AllTimeIs
<1>17. DueIn(r, i) = D
  BY <1>1, <1>3, <1>11, <1>16 DEF DueIn
<1>18. \A k \in 1..Len(q) : /\ k < i => DueIn(r, k) = DueIn(q, k)
                            /\ k >= i => DueIn(r, k + 1) = DueIn(q, k)
  <2> SUFFICES ASSUME NEW k \in 1..Len(q)
               PROVE  /\ k < i => AllTime(r)[k] = A[k]
                      /\ k >= i => AllTime(r)[k + 1] = A[k]
    BY DEF DueIn, A
  <2>1. /\ k \in 0..Len(r) /\ k + 1 \in 0..Len(r) /\ (k + 1) - 1 = k
        /\ k >= i => ~(k + 1 < i) /\ k + 1 # i
    BY <1>1, <1>3, <1>11
  <2> QED BY <1>16, <2>1
<1>19. Gains(q, r, i)
  BY <1>1, <1>11, <1>13, <1>18 DEF Gains
<1>20. ASSUME NonHeadOK(q) PROVE NonHeadOK(r)
  <2> SUFFICES ASSUME NEW k \in 2..Len(r) PROVE r[k].time >= 0
    BY DEF NonHeadOK
  <2>0. i \in Nat /\ k \in Nat /\ k \in 1..Len(r)
    BY <1>1, <1>3, <1>11
  <2>1. CASE k < i
    <3>1. k \in 2..Len(q)
      BY <1>1, <1>3, <2>0, <2>1
    <3> QED BY <1>12, <1>20, <2>0, <2>1, <3>1 DEF NonHeadOK
  <2>2. CASE k = i
    <3>1. i - 1 \in 1..Len(q) /\ i - 1 \in 1..(i - 1) /\ i # 1
      BY <1>1, <1>3, <2>2
    <3>2. ~ (A[i - 1] >= t) /\ A[i - 1] \in Int
      BY <1>1, <1>2, <1>5, <3>1
    <3>3. r[k].time = t - A[i - 1]
      BY <1>6, <1>12, <2>0, <2>2, <3>1
    <3> QED BY <3>2, <3>3
  <2>3. CASE k = i + 1
    <3>1. i \in 1..Len(q) /\ r[k].time = q[i].time - T /\ q[i].time \in Int
      BY <1>1, <1>3, <1>11, <1>12, <2>0, <2>3
    <3>2. A[i - 1] + q[i].time >= t /\ A[i - 1] \in Int
      <4>1. i <= Len(q) /\ i - 1 \in 0..Len(q)
        BY <1>3, <3>1
      <4> QED BY <1>1, <1>2, <1>5, <4>1
    <3>3. CASE i = 1
      <4>1. A[i - 1] = 0
        BY <1>2, <3>3
      <4> QED BY <1>6, <3>1, <3>2, <3>3, <4>1
    <3>4. CASE i # 1
      BY <1>6, <3>1, <3>2, <3>4
    <3> QED BY <3>3, <3>4
  <2>4. CASE k > i + 1
    <3>1. k - 1 \in 2..Len(q) /\ ~(k < i) /\ k # i /\ k # i + 1
      BY <1>1, <1>3, <1>11, <2>0, <2>4
    <3>2. r[k].time = q[k - 1].time
      BY <1>12, <2>0, <3>1
    <3> QED BY <1>20, <3>1, <3>2 DEF NonHeadOK
  <2> QED BY <2>0, <2>1, <2>2, <2>3, <2>4
<1>21. r[i].job = job
  BY <1>1, <1>9, <1>10
<1> QED BY <1>11, <1>17, <1>19, <1>20, <1>21 DEF i, D

-----------------------------------------------------------------------------
(* Unlinking an entry is the opposite: no other job is moved.              *)
LEMMA UnlinkGains ==
  ASSUME NEW Jobs, NEW q \in Queues(Jobs), NEW i \in 1..Len(q), NEW r, r = UnlinkAt(q, i)
  PROVE  /\ r \in Queues(Jobs)
         /\ Gains(r, q, i)
         /\ NonHeadOK(q) => NonHeadOK(r)
<1> DEFINE A == AllTime(q)
<1>1. Len(q) \in Nat /\ \A k \in 1..Len(q) : /\ q[k] \in Entries(Jobs) /\ q[k].job \in Jobs
                                             /\ q[k].time \in Int
  BY EntryType
<1>2. /\ A \in [0..Len(q) -> Int] /\ A[0] = 0
      /\ \A k \in 1..Len(q) : A[k] = A[k - 1] + q[k].time
  BY AllTimeUnfolds
<1> HIDE DEF A
<1>3. \A k \in 1..(Len(q) - 1) :
        /\ k \in 1..Len(q) /\ k + 1 \in 1..Len(q)
        /\ k < i => r[k] = q[k]
        /\ k = i => r[k] = Entry(q[k + 1].job, q[k + 1].time + q[k].time)
        /\ k > i => r[k] = q[k + 1]
  BY <1>1 DEF UnlinkAt
<1>4. r \in Queues(Jobs) /\ Len(r) = Len(q) - 1
  <2>1. r = [k \in 1..(Len(q) - 1) |-> r[k]]
    BY DEF UnlinkAt
  <2>2. \A k \in 1..(Len(q) - 1) : r[k] \in Entries(Jobs)
    <3> SUFFICES ASSUME NEW k \in 1..(Len(q) - 1) PROVE r[k] \in Entries(Jobs)
      OBVIOUS
    <3>1. Entry(q[k + 1].job, q[k + 1].time + q[k].time) \in Entries(Jobs)
      BY <1>1, <1>3 DEF Entry, Entries
    <3> QED BY <1>1, <1>3, <3>1
  <2>3. Len(q) - 1 \in Nat
    BY <1>1
  <2> QED BY <2>1, <2>2, <2>3 DEF Queues
<1>5. \A k \in 1..Len(r) : /\ k < i => r[k].job = q[k].job /\ r[k].time = q[k].time
                           /\ k >= i => r[k].job = q[k + 1].job
                           /\ k = i => r[k].time = q[k + 1].time + q[k].time
                           /\ k > i => r[k].time = q[k + 1].time
  <2>1. \A j, t : Entry(j, t).job = j /\ Entry(j, t).time = t
    BY DEF Entry
  <2>2. 1..Len(r) = 1..(Len(q) - 1)
    BY <1>4
  <2>3. \A k \in 1..Len(r) : k \in Nat /\ (k >= i <=> k = i \/ k > i)
    BY <1>1, <1>4
  <2> QED BY <1>3, <2>1, <2>2, <2>3
<1> DEFINE f == [k \in 0..Len(r) |-> IF k < i THEN A[k] ELSE A[k + 1]]
<1>6. f \in [0..Len(r) -> Int] /\ f[0] = 0
  BY <1>1, <1>2, <1>4
<1>7. \A k \in 1..Len(r) : f[k] = f[k - 1] + r[k].time
  <2> SUFFICES ASSUME NEW k \in 1..Len(r) PROVE f[k] = f[k - 1] + r[k].time
    OBVIOUS
  <2>0. /\ k \in 0..Len(r) /\ k - 1 \in 0..Len(r) /\ i \in Nat /\ k \in Nat
        /\ k \in 1..Len(q) /\ k + 1 \in 1..Len(q)
    BY <1>1, <1>4
  <2>1. CASE k < i
    <3>1. k - 1 < i /\ f[k] = A[k] /\ f[k - 1] = A[k - 1]
      BY <2>0, <2>1
    <3> QED BY <1>2, <1>5, <2>0, <2>1, <3>1
  <2>2. CASE k = i
    <3>1. k - 1 < i /\ f[k] = A[k + 1] /\ f[k - 1] = A[k - 1]
      BY <2>0, <2>2
    <3>2. A[k + 1] = A[k] + q[k + 1].time /\ A[k] = A[k - 1] + q[k].time
      <4>1. (k + 1) - 1 = k
        BY <2>0
      <4> QED BY <1>2, <2>0, <4>1
    <3>3. A[k - 1] \in Int /\ q[k].time \in Int /\ q[k + 1].time \in Int
      <4>1. k - 1 \in 0..Len(q)
        BY <1>1, <2>0
      <4> QED BY <1>1, <1>2, <2>0, <4>1
    <3>4. r[k].time = q[k + 1].time + q[k].time
      BY <1>5, <2>2
    <3> HIDE DEF f
    <3> QED BY <3>1, <3>2, <3>3, <3>4
  <2>3. CASE k > i
    <3>1. ~(k - 1 < i) /\ ~(k < i) /\ (k - 1) + 1 = k /\ (k + 1) - 1 = k
      BY <2>0, <2>3
    <3>2. f[k] = A[k + 1] /\ f[k - 1] = A[k]
      BY <2>0, <3>1
    <3> QED BY <1>2, <1>5, <2>0, <2>3, <3>1, <3>2
  <2> QED BY <2>0, <2>1, <2>2, <2>3
<1>8. \A k \in 0..Len(r) : AllTime(r)[k] = f[k]
  <2> HIDE DEF f
  <2> QED BY <1>4, <1>6, <1>7, AllTimeIs
<1>9. \A k \in 1..Len(r) : /\ k < i => DueIn(r, k) = DueIn(q, k)
                           /\ k >= i => DueIn(r, k) = DueIn(q, k + 1)
  <2> SUFFICES ASSUME NEW k \in 1..Len(r)
               PROVE  /\ k < i => AllTime(r)[k] = A[k]
                      /\ k >= i => AllTime(r)[k] = A[k + 1]
    BY DEF DueIn, A
  <2> QED BY <1>1, <1>4, <1>8
<1>10. Gains(r, q, i)
  <2>1. Len(q) = Len(r) + 1
    BY <1>1, <1>4
  <2> QED BY <1>5, <1>9, <2>1 DEF Gains
<1>11. ASSUME NonHeadOK(q) PROVE NonHeadOK(r)
  <2> SUFFICES ASSUME NEW k \in 2..Len(r) PROVE r[k].time >= 0
    BY DEF NonHeadOK
  <2>1. /\ k \in 1..Len(r) /\ k \in 2..Len(q) /\ k + 1 \in 2..Len(q)
        /\ k \in 1..Len(q) /\ k + 1 \in 1..Len(q)
    BY <1>1, <1>4
  <2>2. /\ q[k].time >= 0 /\ q[k + 1].time >= 0
        /\ q[k].time \in Int /\ q[k + 1].time \in Int
    BY <1>1, <1>11, <2>1 DEF NonHeadOK
  <2>3. k < i \/ k = i \/ k > i
    BY <1>1, <2>1
  <2> QED BY <1>5, <2>1, <2>2, <2>3
<1> QED BY <1>4, <1>10, <1>11

(* Time passes for all jobs, although only the head's delta changes.       *)
LEMMA ElapseFacts ==
  ASSUME NEW Jobs, NEW q \in Queues(Jobs), Len(q) >= 1, NEW n \in Int,
         NEW r, r = Elapse(q, n)
  PROVE  /\ r \in Queues(Jobs) /\ Len(r) = Len(q)
         /\ \A k \in 1..Len(q) : r[k].job = q[k].job /\ DueIn(r, k) = DueIn(q, k) - n
         /\ NonHeadOK(q) => NonHeadOK(r)
<1> DEFINE A == AllTime(q)
<1>1. Len(q) \in Nat /\ \A k \in 1..Len(q) : /\ q[k] \in Entries(Jobs) /\ q[k].job \in Jobs
                                             /\ q[k].time \in Int
  BY EntryType
<1>2. /\ A \in [0..Len(q) -> Int] /\ A[0] = 0
      /\ \A k \in 1..Len(q) : A[k] = A[k - 1] + q[k].time
  BY AllTimeUnfolds
<1> HIDE DEF A
<1>3. 1 \in 1..Len(q) /\ r = [k \in 1..Len(q) |-> r[k]]
  BY <1>1 DEF Elapse
<1>4. r[1] \in Entries(Jobs) /\ r[1].job = q[1].job /\ r[1].time = q[1].time - n
  BY <1>1, <1>3 DEF Elapse, Entry, Entries
<1>5. \A k \in 1..Len(q) : k # 1 => r[k] = q[k]
  BY DEF Elapse
<1>6. r \in Queues(Jobs) /\ Len(r) = Len(q)
  BY <1>1, <1>3, <1>4, <1>5 DEF Queues
<1> DEFINE f == [k \in 0..Len(r) |-> IF k = 0 THEN 0 ELSE A[k] - n]
<1>7. f \in [0..Len(r) -> Int] /\ f[0] = 0
  BY <1>1, <1>2, <1>6
<1>8. \A k \in 1..Len(r) : f[k] = f[k - 1] + r[k].time
  <2> SUFFICES ASSUME NEW k \in 1..Len(r) PROVE f[k] = f[k - 1] + r[k].time
    OBVIOUS
  <2>0. k \in 0..Len(r) /\ k - 1 \in 0..Len(r) /\ k # 0 /\ k \in Nat /\ A[k - 1] \in Int
    BY <1>1, <1>2, <1>6
  <2>1. A[k] = A[k - 1] + q[k].time /\ f[k] = A[k] - n /\ q[k].time \in Int
    BY <1>1, <1>2, <1>6, <2>0
  <2>2. CASE k = 1
    <3>1. f[k - 1] = 0 /\ A[k - 1] = 0
      BY <1>2, <2>0, <2>2
    <3> QED BY <1>4, <2>1, <2>2, <3>1
  <2>3. CASE k # 1
    <3>1. f[k - 1] = A[k - 1] - n /\ r[k] = q[k]
      BY <1>5, <1>6, <2>0, <2>3
    <3> QED BY <2>0, <2>1, <3>1
  <2> QED BY <2>2, <2>3
<1>9. \A k \in 0..Len(r) : AllTime(r)[k] = f[k]
  <2> HIDE DEF f
  <2> QED BY <1>6, <1>7, <1>8, AllTimeIs
<1>10. \A k \in 1..Len(q) : DueIn(r, k) = DueIn(q, k) - n
  <2> SUFFICES ASSUME NEW k \in 1..Len(q) PROVE AllTime(r)[k] = A[k] - n
    BY DEF DueIn, A
  <2> QED BY <1>1, <1>6, <1>9
<1>11. \A k \in 1..Len(q) : r[k].job = q[k].job
  BY <1>4, <1>5
<1>12. NonHeadOK(q) => NonHeadOK(r)
  BY <1>1, <1>5, <1>6 DEF NonHeadOK
<1> QED BY <1>6, <1>10, <1>11, <1>12

-----------------------------------------------------------------------------
(* What a client knows of the queue: which of its jobs are there, when     *)
(* they are due, that one is there at most once, and which one comes       *)
(* first.                                                                  *)
IsDue(q, job, x) == \E k \in 1..Len(q) : q[k].job = job /\ DueIn(q, k) = x
Once(q, job) == \A k, m \in 1..Len(q) : q[k].job = job /\ q[m].job = job => k = m
Before(q, a, b) == \A k, m \in 1..Len(q) : q[k].job = a /\ q[m].job = b => k < m

(* A job is queued if and only if it is due some time.                     *)
LEMMA QueuedIsDue ==
  ASSUME NEW q, NEW job
  PROVE  IsQueued(q, job) <=> \E x : IsDue(q, job, x)
BY DEF IsQueued, IsDue

(* One more entry makes no difference to the other jobs.                   *)
LEMMA GainsFacts ==
  ASSUME NEW q, NEW r, NEW i, Gains(q, r, i), Len(q) \in Nat, NEW job, job = r[i].job
  PROVE  /\ \A j : j # job => (IsQueued(r, j) <=> IsQueued(q, j))
         /\ \A j, x : j # job => (IsDue(r, j, x) <=> IsDue(q, j, x))
         /\ \A j : j # job => (Once(r, j) <=> Once(q, j))
         /\ IsQueued(r, job)
         /\ \A x : IsDue(r, job, x) <=> IsDue(q, job, x) \/ x = DueIn(r, i)
         /\ Once(r, job) <=> ~ IsQueued(q, job)
         /\ \A a, b : Before(r, a, b) => Before(q, a, b)
         /\ \A a, b : a # job /\ b # job => (Before(r, a, b) <=> Before(q, a, b))
<1> DEFINE s(k) == IF k < i THEN k ELSE k + 1
<1>1. \A k \in 1..Len(q) : /\ s(k) \in 1..Len(r) /\ s(k) # i
                           /\ r[s(k)].job = q[k].job /\ DueIn(r, s(k)) = DueIn(q, k)
  BY DEF Gains
<1>2. \A k, m \in 1..Len(q) : k < m <=> s(k) < s(m)
  BY DEF Gains
<1>3. \A m \in 1..Len(r) : m # i => \E k \in 1..Len(q) : s(k) = m
  <2> SUFFICES ASSUME NEW m \in 1..Len(r), m # i PROVE \E k \in 1..Len(q) : s(k) = m
    OBVIOUS
  <2>1. CASE m < i
    <3>1. m \in 1..Len(q) /\ s(m) = m
      BY <2>1 DEF Gains
    <3> QED BY <3>1
  <2>2. CASE m > i
    <3>1. m - 1 \in 1..Len(q) /\ s(m - 1) = m
      BY <2>2 DEF Gains
    <3> QED BY <3>1
  <2> QED BY <2>1, <2>2 DEF Gains
<1>4. i \in 1..Len(r) /\ Len(r) \in Nat
  BY DEF Gains
<1>a. \A k, m \in 1..Len(q) : k = m <=> s(k) = s(m)
  BY DEF Gains
<1> HIDE DEF s
<1>b. \A m \in 1..Len(r) : r[m].job # job => \E k \in 1..Len(q) : s(k) = m
  BY <1>3
<1>5. ASSUME NEW j, NEW x, j # job PROVE IsDue(r, j, x) <=> IsDue(q, j, x)
  <2>1. ASSUME IsDue(r, j, x) PROVE IsDue(q, j, x)
    <3>1. PICK m \in 1..Len(r) : r[m].job = j /\ DueIn(r, m) = x
      BY <2>1 DEF IsDue
    <3>2. PICK k \in 1..Len(q) : s(k) = m
      BY <1>5, <1>b, <3>1
    <3> QED BY <1>1, <3>1, <3>2 DEF IsDue
  <2>2. ASSUME IsDue(q, j, x) PROVE IsDue(r, j, x)
    BY <1>1, <2>2 DEF IsDue
  <2> QED BY <2>1, <2>2
<1>6. \A j : j # job => (IsQueued(r, j) <=> IsQueued(q, j))
  BY <1>5, QueuedIsDue
<1>7. \A x : IsDue(r, job, x) <=> IsDue(q, job, x) \/ x = DueIn(r, i)
  BY <1>1, <1>3, <1>4 DEF IsDue
<1>8. IsQueued(r, job)
  BY <1>4 DEF IsQueued
<1>9. ASSUME NEW j, j # job PROVE Once(r, j) <=> Once(q, j)
  <2>1. ASSUME Once(r, j) PROVE Once(q, j)
    BY <1>1, <1>a, <2>1 DEF Once
  <2>2. ASSUME Once(q, j), NEW k \in 1..Len(r), NEW m \in 1..Len(r), r[k].job = j, r[m].job = j
        PROVE  k = m
    <3>1. PICK kk \in 1..Len(q) : s(kk) = k
      BY <1>9, <1>b, <2>2
    <3>2. PICK mm \in 1..Len(q) : s(mm) = m
      BY <1>9, <1>b, <2>2
    <3>3. kk = mm
      BY <1>1, <2>2, <3>1, <3>2 DEF Once
    <3> QED BY <3>1, <3>2, <3>3
  <2> QED BY <2>1, <2>2 DEF Once
<1>10. Once(r, job) <=> ~ IsQueued(q, job)
  <2>1. ASSUME Once(r, job), IsQueued(q, job) PROVE FALSE
    BY <1>1, <1>4, <2>1 DEF Once, IsQueued
  <2>2. ASSUME ~ IsQueued(q, job), NEW k \in 1..Len(r), r[k].job = job
        PROVE  k = i
    BY <1>1, <1>3, <2>2 DEF IsQueued
  <2> QED BY <2>1, <2>2 DEF Once
<1>11. \A a, b : Before(r, a, b) => Before(q, a, b)
  BY <1>1, <1>2 DEF Before
<1>12. ASSUME NEW a, NEW b, a # job, b # job, Before(q, a, b) PROVE Before(r, a, b)
  <2> SUFFICES ASSUME NEW k \in 1..Len(r), NEW m \in 1..Len(r), r[k].job = a, r[m].job = b
               PROVE  k < m
    BY DEF Before
  <2>1. PICK kk \in 1..Len(q) : s(kk) = k
    BY <1>3, <1>12
  <2>2. PICK mm \in 1..Len(q) : s(mm) = m
    BY <1>3, <1>12
  <2>3. kk < mm
    BY <1>1, <1>12, <2>1, <2>2 DEF Before
  <2> QED BY <1>2, <2>1, <2>2, <2>3
<1> QED BY <1>5, <1>6, <1>7, <1>8, <1>9, <1>10, <1>11, <1>12

-----------------------------------------------------------------------------
(* The jobs other than one are queued as before, for the same times and in *)
(* the same order.                                                         *)
OthersSame(q, r, job) ==
  /\ \A j : j # job => /\ IsQueued(r, j) <=> IsQueued(q, j)
                       /\ Once(r, j) <=> Once(q, j)
                       /\ \A x : IsDue(r, j, x) <=> IsDue(q, j, x)
  /\ \A a, b : a # job /\ b # job => (Before(r, a, b) <=> Before(q, a, b))

(* What a call of sched_add does for its caller.  Of jobs for the same     *)
(* time the one added last comes first.                                    *)
LEMMA AddFacts ==
  ASSUME NEW Jobs, NEW q \in Queues(Jobs), Len(q) >= 1, NEW job \in Jobs, NEW t \in Int,
         NEW r, r = sched_add(q, job, t)
  PROVE  /\ r \in Queues(Jobs) /\ Len(r) = Len(q) + 1 /\ Len(r) >= 1
         /\ NonHeadOK(q) => NonHeadOK(r)
         /\ OthersSame(q, r, job)
         /\ IsQueued(r, job)
         /\ ~ IsQueued(q, job) => Once(r, job)
         /\ \A x : IsDue(r, job, x) <=> IsDue(q, job, x) \/ x = AddedDue(q, t)
         /\ t >= 0 => AddedDue(q, t) = t
         /\ \A b : /\ b # job /\ ~ IsQueued(q, job)
                   /\ \A x : IsDue(q, b, x) => x >= t
                   => Before(r, job, b)
<1> DEFINE i == InsertPos(q, t)
<1>1. /\ r \in Queues(Jobs) /\ Gains(q, r, i) /\ r[i].job = job
      /\ DueIn(r, i) = AddedDue(q, t)
      /\ NonHeadOK(q) => NonHeadOK(r)
  BY AddGains
<1>2. Len(q) \in Nat /\ Len(r) = Len(q) + 1 /\ i \in 1..Len(r)
  BY <1>1, EntryType DEF Gains
<1>3. i \in 1..(Len(q) + 1) /\ IsInsertPos(q, t, i)
  BY InsertPosExists
<1> HIDE DEF i
<1>4. /\ OthersSame(q, r, job) /\ IsQueued(r, job) /\ (Once(r, job) <=> ~ IsQueued(q, job))
      /\ \A x : IsDue(r, job, x) <=> IsDue(q, job, x) \/ x = AddedDue(q, t)
  BY <1>1, <1>2, GainsFacts DEF OthersSame
<1>5. t >= 0 => AddedDue(q, t) = t
  BY DEF AddedDue
<1>6. ASSUME NEW b, b # job, ~ IsQueued(q, job), \A x : IsDue(q, b, x) => x >= t
      PROVE  Before(r, job, b)
  <2> SUFFICES ASSUME NEW k \in 1..Len(r), NEW m \in 1..Len(r), r[k].job = job, r[m].job = b,
                      ~(k < m)
               PROVE  FALSE
    BY DEF Before
  <2>1. k = i
    BY <1>1, <1>2, <1>4, <1>6 DEF Once
  <2>2. m < i /\ m \in 1..Len(q) /\ m \in 1..(i - 1)
    BY <1>1, <1>2, <1>6, <2>1
  <2>3. q[m].job = b
    BY <1>1, <2>2 DEF Gains
  <2>4. DueIn(q, m) >= t
    BY <1>6, <2>2, <2>3 DEF IsDue
  <2>5. AllTime(q)[m] = AllTime(q)[m - 1] + q[m].time
    BY <2>2, AllTimeUnfolds
  <2> QED BY <1>3, <2>2, <2>4, <2>5 DEF IsInsertPos, DueIn
<1> QED BY <1>1, <1>2, <1>4, <1>5, <1>6

(* What is left when one entry is unlinked.                                *)
LEMMA UnlinkFacts ==
  ASSUME NEW Jobs, NEW q \in Queues(Jobs), NEW i \in 1..Len(q), NEW job, job = q[i].job,
         NEW r, r = UnlinkAt(q, i)
  PROVE  /\ r \in Queues(Jobs) /\ Len(r) = Len(q) - 1 /\ Len(r) \in Nat
         /\ NonHeadOK(q) => NonHeadOK(r)
         /\ OthersSame(r, q, job)
         /\ \A x : IsDue(r, job, x) => IsDue(q, job, x)
         /\ Once(q, job) => ~ IsQueued(r, job)
         /\ \A a, b : Before(q, a, b) => Before(r, a, b)
<1>1. r \in Queues(Jobs) /\ Gains(r, q, i) /\ (NonHeadOK(q) => NonHeadOK(r))
  BY UnlinkGains
<1>2. Len(q) \in Nat /\ Len(r) \in Nat /\ Len(r) = Len(q) - 1
  BY <1>1, EntryType DEF Gains
<1>3. /\ OthersSame(r, q, job) /\ (Once(q, job) <=> ~ IsQueued(r, job))
      /\ \A x : IsDue(q, job, x) <=> IsDue(r, job, x) \/ x = DueIn(q, i)
      /\ \A a, b : Before(q, a, b) => Before(r, a, b)
  BY <1>1, <1>2, GainsFacts DEF OthersSame
<1> QED BY <1>1, <1>2, <1>3

(* sched_find_remove unlinks the first entry of the job it is given.       *)
LEMMA FirstOfExists ==
  ASSUME NEW Jobs, NEW q \in Queues(Jobs), NEW job, IsQueued(q, job)
  PROVE  /\ FirstOf(q, job) \in 1..Len(q) /\ q[FirstOf(q, job)].job = job
         /\ \A j \in 1..(FirstOf(q, job) - 1) : q[j].job # job
<1> DEFINE T == {i \in 1..Len(q) : q[i].job = job}
<1>1. T # {} /\ T \subseteq Nat
  BY EntryType DEF IsQueued
<1>2. PICK i \in T : \A j \in T : i <= j
  <2> HIDE DEF T
  <2> QED BY <1>1, LeastIndex
<1>3. \A j \in 1..(i - 1) : j \in 1..Len(q) /\ ~ (i <= j)
  BY EntryType
<1>4. \E k \in 1..Len(q) : q[k].job = job /\ \A j \in 1..(k - 1) : q[j].job # job
  BY <1>2, <1>3
<1> QED BY <1>4 DEF FirstOf

(* A job that is queued at most once is not queued afterwards.             *)
LEMMA RemoveFacts ==
  ASSUME NEW Jobs, NEW q \in Queues(Jobs), NEW job, Once(q, job),
         NEW r, r = sched_find_remove(q, job)
  PROVE  /\ r \in Queues(Jobs) /\ ~ IsQueued(r, job)
         /\ NonHeadOK(q) => NonHeadOK(r)
         /\ OthersSame(r, q, job)
<1>1. CASE ~ IsQueued(q, job)
  BY <1>1 DEF sched_find_remove, OthersSame
<1>2. CASE IsQueued(q, job)
  <2> DEFINE i == FirstOf(q, job)
  <2>1. i \in 1..Len(q) /\ q[i].job = job /\ r = UnlinkAt(q, i)
    BY <1>2, FirstOfExists DEF sched_find_remove
  <2> HIDE DEF i
  <2> QED BY <2>1, UnlinkFacts
<1> QED BY <1>1, <1>2

(* The passing of n cycles brings every job n cycles nearer.               *)
LEMMA ElapseJobs ==
  ASSUME NEW Jobs, NEW q \in Queues(Jobs), Len(q) >= 1, NEW n \in Int,
         NEW r, r = Elapse(q, n)
  PROVE  \A j : /\ IsQueued(r, j) <=> IsQueued(q, j)
                /\ Once(r, j) <=> Once(q, j)
                /\ \A x \in Int : IsDue(r, j, x) <=> IsDue(q, j, x + n)
                /\ \A b : Before(r, j, b) <=> Before(q, j, b)
<1>1. Len(r) = Len(q) /\ \A k \in 1..Len(q) : r[k].job = q[k].job /\ DueIn(r, k) = DueIn(q, k) - n
  BY ElapseFacts
<1>2. \A k \in 1..Len(q) : DueIn(q, k) \in Int
  BY AllTimeUnfolds, EntryType DEF DueIn
<1>3. ASSUME NEW j, NEW x \in Int PROVE IsDue(r, j, x) <=> IsDue(q, j, x + n)
  <2>1. \A k \in 1..Len(q) : DueIn(r, k) = x <=> DueIn(q, k) = x + n
    BY <1>1, <1>2
  <2> QED BY <1>1, <2>1 DEF IsDue
<1> QED BY <1>1, <1>3 DEF IsQueued, Once, Before

-----------------------------------------------------------------------------
(* The leading run of late entries that sched_next_insn walks over ends.   *)
LEMMA NegRunExists ==
  ASSUME NEW Jobs, NEW q \in Queues(Jobs)
  PROVE  /\ NegRun(q) \in 0..Len(q) /\ AllTime(q)[NegRun(q)] \in Int
         /\ \A i \in 1..NegRun(q) : q[i].time < 0
         /\ NegRun(q) < Len(q) => q[NegRun(q) + 1].time >= 0
<1> DEFINE T == {i \in 1..Len(q) : ~ (q[i].time < 0)}
<1>1. \E k \in 0..Len(q) : /\ \A i \in 1..k : q[i].time < 0
                           /\ k < Len(q) => q[k + 1].time >= 0
  <2>1. CASE T = {}
    <3>1. Len(q) \in 0..Len(q) /\ ~ (Len(q) < Len(q))
      BY EntryType
    <3> QED BY <2>1, <3>1
  <2>2. CASE T # {}
    <3>1. T \subseteq Nat
      BY EntryType
    <3>2. PICK i \in T : \A j \in T : i <= j
      <4> HIDE DEF T
      <4> QED BY <2>2, <3>1, LeastIndex
    <3>3. /\ i - 1 \in 0..Len(q) /\ (i - 1) + 1 = i
          /\ \A j \in 1..(i - 1) : j \in 1..Len(q) /\ ~ (i <= j)
          /\ q[i].time >= 0
      BY EntryType
    <3> QED BY <3>2, <3>3
  <2> QED BY <2>1, <2>2
<1> HIDE DEF T
<1>2. /\ NegRun(q) \in 0..Len(q)
      /\ \A i \in 1..NegRun(q) : q[i].time < 0
      /\ NegRun(q) < Len(q) => q[NegRun(q) + 1].time >= 0
  BY <1>1 DEF NegRun
<1> QED BY <1>2, AllTimeUnfolds

(* With only the head late, it is the head's lateness that is added up.    *)
LEMMA NegRunIs ==
  ASSUME NEW Jobs, NEW q \in Queues(Jobs), NonHeadOK(q), Len(q) >= 1
  PROVE  AllTime(q)[NegRun(q)] = IF q[1].time < 0 THEN q[1].time ELSE 0
<1> DEFINE n == NegRun(q)
<1>1. Len(q) \in Nat /\ q[1].time \in Int /\ \A k \in 1..Len(q) : q[k].time \in Int
  BY EntryType
<1>2. n \in 0..Len(q) /\ (\A i \in 1..n : q[i].time < 0) /\ (n < Len(q) => q[n + 1].time >= 0)
  BY NegRunExists
<1>3. AllTime(q)[0] = 0 /\ AllTime(q)[1] = AllTime(q)[0] + q[1].time
  <2>1. 1 \in 1..Len(q) /\ 1 - 1 = 0
    BY <1>1
  <2> QED BY <2>1, AllTimeUnfolds
<1> HIDE DEF n
<1>4. ~(n >= 2)
  <2> SUFFICES ASSUME n >= 2 PROVE FALSE
    OBVIOUS
  <2>1. 2 \in 1..n /\ 2 \in 2..Len(q)
    BY <1>1, <1>2
  <2>2. q[2].time < 0 /\ q[2].time >= 0 /\ q[2].time \in Int
    BY <1>1, <1>2, <2>1 DEF NonHeadOK
  <2> QED BY <2>2
<1>5. CASE n = 0
  BY <1>1, <1>2, <1>3, <1>5 DEF n
<1>6. CASE n = 1
  BY <1>1, <1>2, <1>3, <1>6 DEF n
<1> QED BY <1>1, <1>2, <1>4, <1>5, <1>6

(* The time for which a job is queued is an integer.                       *)
LEMMA DueIsInt ==
  ASSUME NEW Jobs, NEW q \in Queues(Jobs), NEW job, NEW x, IsDue(q, job, x)
  PROVE  x \in Int
<1>1. PICK k \in 1..Len(q) : DueIn(q, k) = x
  BY DEF IsDue
<1>2. k \in 0..Len(q) /\ AllTime(q) \in [0..Len(q) -> Int]
  BY AllTimeUnfolds, EntryType
<1> QED BY <1>1, <1>2 DEF DueIn

(* If the head is not due and no delta behind it is negative, no entry of  *)
(* the queue is due.                                                       *)
LEMMA HeadNotDueNoneDue ==
  ASSUME NEW Jobs, NEW q \in Queues(Jobs), NonHeadOK(q), Len(q) >= 1, ~ HeadDue(q)
  PROVE  \A i \in 1..Len(q) : DueIn(q, i) > 0
<1> DEFINE T == {i \in 1..Len(q) : ~ (AllTime(q)[i] > 0)}
<1> SUFFICES T = {}
  BY DEF DueIn
<1> SUFFICES ASSUME T # {} PROVE FALSE
  OBVIOUS
<1>1. T \subseteq Nat /\ Len(q) \in Nat
  BY EntryType
<1>2. PICK x \in T : \A y \in T : x <= y
  <2> HIDE DEF T
  <2> QED BY <1>1, LeastIndex
<1>3. AllTime(q)[x] = AllTime(q)[x - 1] + q[x].time
        /\ AllTime(q)[0] = 0 /\ q[x].time \in Int /\ AllTime(q)[x - 1] \in Int
  <2>1. x \in 1..Len(q) /\ x - 1 \in 0..Len(q)
    BY <1>1
  <2>2. q[x].time \in Int
    BY <2>1, EntryType
  <2> HIDE DEF T
  <2> QED BY <2>1, <2>2, AllTimeUnfolds
<1>4. CASE x = 1
  <2>1. q[1].time > 0
    BY <1>1, <1>3, <1>4 DEF HeadDue
  <2>2. AllTime(q)[1 - 1] = 0
    BY <1>3
  <2> QED BY <1>2, <1>3, <1>4, <2>1, <2>2
<1>5. CASE x # 1
  <2>1. x - 1 \in 1..Len(q) /\ ~ (x <= x - 1) /\ x \in 2..Len(q)
    BY <1>1, <1>5
  <2>2. AllTime(q)[x - 1] > 0
    BY <1>2, <2>1
  <2>3. q[x].time >= 0
    BY <2>1 DEF NonHeadOK
  <2> QED BY <1>2, <1>3, <2>2, <2>3
<1> QED BY <1>4, <1>5

-----------------------------------------------------------------------------
(* sched_reset and sim_reset: the guard is alone in the queue when the     *)
(* first poll of the prompt is put in front of it.                         *)
LEMMA ResetQueue ==
  ASSUME NEW Jobs, NEW guard \in Jobs, NEW poll \in Jobs, NEW max \in Nat, max > 0,
         NEW q, q = << Entry(guard, max) >>, NEW t, t = 1, NEW r, r = sched_add(q, poll, t)
  PROVE  /\ r \in Queues(Jobs) /\ Len(r) = 2 /\ NonHeadOK(r)
         /\ r[1] = Entry(poll, 1) /\ r[2] = Entry(guard, max - 1)
         /\ DueIn(r, 1) = 1 /\ DueIn(r, 2) = max
<1> DEFINE i == InsertPos(q, t)
<1>1. q \in Queues(Jobs) /\ Len(q) = 1 /\ q[1] = Entry(guard, max)
  BY DEF Queues, Entries, Entry
<1>2. q[1].job = guard /\ q[1].time = max
  BY <1>1 DEF Entry
<1>3. t \in Int /\ t = 1
  OBVIOUS
<1>4. r = LinkAt(q, i, Entry(poll, NewTime(q, t, i)))
  BY DEF sched_add
<1>5. i \in 1..2 /\ IsInsertPos(q, t, i)
  <2>1. i \in 1..(Len(q) + 1) /\ IsInsertPos(q, t, i)
    BY <1>1, <1>3, InsertPosExists
  <2> HIDE DEF i
  <2> QED BY <1>1, <2>1
<1>6. AllTime(q)[0] = 0 /\ 1 - 1 = 0
  BY <1>1, AllTimeUnfolds
<1>7. i = 1
  <2> SUFFICES ASSUME i = 2 PROVE FALSE
    BY <1>5
  <2>1. 1 \in 1..(i - 1)
    OBVIOUS
  <2>2. ~ (AllTime(q)[1 - 1] + q[1].time >= t)
    BY <1>5, <2>1 DEF IsInsertPos
  <2> QED BY <1>2, <1>3, <1>6, <2>2
<1>8. NewTime(q, t, i) = 1
  BY <1>3, <1>7 DEF NewTime
<1> HIDE DEF i
<1>9. r = [k \in 1..2 |-> IF k = 1 THEN Entry(poll, 1) ELSE Entry(guard, max - 1)]
  <2>1. Entry(poll, 1).time = 1
    BY DEF Entry
  <2>2. \A k \in 1..2 : k < 1 \/ k = 1 \/ k = 2
    OBVIOUS
  <2> QED BY <1>1, <1>2, <1>4, <1>7, <1>8, <2>1, <2>2 DEF LinkAt
<1>10. Entry(poll, 1) \in Entries(Jobs) /\ Entry(guard, max - 1) \in Entries(Jobs)
  BY DEF Entry, Entries
<1>11. r \in Queues(Jobs) /\ Len(r) = 2 /\ r[1] = Entry(poll, 1) /\ r[2] = Entry(guard, max - 1)
  <2>1. \A k \in 1..2 : r[k] \in Entries(Jobs)
    BY <1>9, <1>10
  <2> DEFINE n == 2
  <2>2. r = [k \in 1..n |-> r[k]] /\ n \in Nat /\ \A k \in 1..n : r[k] \in Entries(Jobs)
    BY <1>9, <2>1
  <2>3. r \in Queues(Jobs) /\ Len(r) = n
    <3> HIDE DEF n
    <3> QED BY <2>2 DEF Queues
  <2>4. 1 \in 1..2 /\ 2 \in 1..2
    OBVIOUS
  <2> QED BY <1>9, <2>3, <2>4
<1>12. r[1].time = 1 /\ r[2].time = max - 1
  BY <1>11 DEF Entry
<1>13. NonHeadOK(r)
  <2>1. \A k \in 2..2 : k = 2
    OBVIOUS
  <2> QED BY <1>11, <1>12, <2>1 DEF NonHeadOK
<1>14. /\ AllTime(r)[0] = 0
       /\ AllTime(r)[1] = AllTime(r)[0] + 1
       /\ AllTime(r)[2] = AllTime(r)[1] + (max - 1)
  <2>1. 1 \in 1..Len(r) /\ 2 \in 1..Len(r) /\ 1 - 1 = 0 /\ 2 - 1 = 1
    BY <1>11
  <2>2. /\ AllTime(r)[0] = 0
        /\ \A k \in 1..Len(r) : AllTime(r)[k] = AllTime(r)[k - 1] + r[k].time
    BY <1>11, AllTimeUnfolds
  <2>3. /\ AllTime(r)[1] = AllTime(r)[1 - 1] + r[1].time
        /\ AllTime(r)[2] = AllTime(r)[2 - 1] + r[2].time
    BY <2>1, <2>2
  <2> QED BY <1>12, <2>1, <2>2, <2>3
<1> QED BY <1>11, <1>13, <1>14 DEF DueIn

=============================================================================
