------------------------------ MODULE SchedAbs ------------------------------
(***************************************************************************)
(* What the scheduler promises, without its delta encoding.  Every pending *)
(* job has the number of cycles left until it is due, and the jobs form a  *)
(* list ordered by it.  Adding, removing or running one job leaves the     *)
(* cycles of all the others alone; time passes for all of them at once;    *)
(* the job that runs is the first, and only once it is due.  Sched is      *)
(* shown to implement this specification (Sched_refines in Sched).         *)
(***************************************************************************)
EXTENDS Integers, Sequences

CONSTANTS Jobs, NextJobs, sched_guard, check_int, SCHED_TIME_MAX,
          CHECK_INT_TIME, InsnDelays, JobDelays, MaxCycles, MaxPast

VARIABLES pend,     \* sequence of [job, left], ordered by left
          phase     \* as in Sched

absvars == <<pend, phase>>

Pending(job, left) == [job |-> job, left |-> left]

(* A new job goes in front of the first job with as many cycles left.      *)
Place(p, t) == CHOOSE i \in 1..(Len(p) + 1) :
                 /\ \A j \in 1..(i - 1) : p[j].left < t
                 /\ i <= Len(p) => p[i].left >= t

(* A job asked for in the past is not made later than the first one.       *)
Left(p, t) == IF Place(p, t) = 1 /\ t < 0 THEN p[1].left ELSE t

Add(p, job, t) ==
  LET i == Place(p, t)
  IN  [k \in 1..(Len(p) + 1) |->
         IF k < i THEN p[k] ELSE IF k = i THEN Pending(job, Left(p, t)) ELSE p[k - 1]]

Drop(p, i) == [k \in 1..(Len(p) - 1) |-> IF k < i THEN p[k] ELSE p[k + 1]]

Pass(p, n) == [k \in 1..Len(p) |-> Pending(p[k].job, p[k].left - n)]

Lateness(p) == IF p[1].left < 0 THEN - p[1].left ELSE 0

Fresh == << Pending(check_int, 1), Pending(sched_guard, SCHED_TIME_MAX) >>

Return(p) == IF p[1].left <= 0 THEN "drain" ELSE "insn"

-----------------------------------------------------------------------------
Init == pend = Fresh /\ phase = "insn"

AddJob ==
  /\ phase # "drain"
  /\ \/ \E job \in Jobs \ NextJobs, t \in InsnDelays \cup JobDelays :
          pend' = Add(pend, job, t)
     \/ \E job \in NextJobs : pend' = Add(pend, job, 1 + Lateness(pend))
  /\ UNCHANGED phase

RemoveJob ==
  /\ phase # "drain"
  /\ \E i \in 1..Len(pend) :
       /\ pend[i].job \in Jobs
       /\ \A j \in 1..(i - 1) : pend[j].job # pend[i].job
       /\ pend' = Drop(pend, i)
  /\ UNCHANGED phase

PassTime ==
  /\ \/ phase = "insn" /\ \E n \in 0..MaxCycles : pend' = Pass(pend, n)
     \/ phase = "restart" /\ \E n \in (- MaxPast)..MaxCycles : pend' = Pass(pend, n)
  /\ phase' = Return(pend')

StartJob ==
  /\ phase = "drain"
  /\ pend[1].left <= 0
  /\ pend' = IF pend[1].job = sched_guard
             THEN Add(Drop(pend, 1), sched_guard, SCHED_TIME_MAX)
             ELSE Drop(pend, 1)
  /\ phase' = IF pend[1].job = sched_guard THEN Return(pend') ELSE pend[1].job

FinishJob ==
  /\ phase \in Jobs \cup {check_int}
  /\ pend' = IF phase = check_int THEN Add(pend, check_int, CHECK_INT_TIME) ELSE pend
  /\ phase' = Return(pend')

ResetJobs ==
  /\ phase # "drain"
  /\ pend' = Fresh
  /\ phase' = IF phase \in {"insn", "restart"} THEN "restart" ELSE phase

Next == AddJob \/ RemoveJob \/ PassTime \/ StartJob \/ FinishJob \/ ResetJobs

Spec == Init /\ [][Next]_absvars
=============================================================================
