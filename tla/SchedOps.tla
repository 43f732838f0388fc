------------------------------ MODULE SchedOps ------------------------------
(***************************************************************************)
(* The time queue of support/sched.c as pure operators on a sequence.      *)
(*                                                                         *)
(* A queue is the linked list scheduler.job_queue: a sequence of entries   *)
(* [job, time].  "job" stands for the pair (func, param) that identifies a *)
(* struct sched_entry; "time" is its int32_t time field.  The times are    *)
(* DELTAS: the head counts cycles from now (it is <= 0 when the job is due *)
(* and negative when it is late), every other entry counts from the entry  *)
(* before it.                                                              *)
(*                                                                         *)
(* The operators are total on non-empty queues; the code dereferences the  *)
(* head without a test, so an empty queue is a crash (PopSafe in Sched).   *)
(***************************************************************************)
EXTENDS Integers, Sequences

Entry(job, time) == [job |-> job, time |-> time]

(* The variable "alltime" of sched_add after it has walked i entries: the  *)
(* cycles from now until entry i is due.                                   *)
AllTime(q) ==
  LET sum[i \in 0..Len(q)] == IF i = 0 THEN 0 ELSE sum[i - 1] + q[i].time
  IN  sum

(* Faulty variant: entries are compared without adding up the deltas.      *)
IsInsertPos_delta(q, t, i) ==
  /\ \A j \in 1..(i - 1) : ~ (q[j].time >= t)
  /\ i <= Len(q) => q[i].time >= t

(* The walk of sched_add stops at the first entry due at or after time t,  *)
(* or at the end of the list.                                              *)
IsInsertPos(q, t, i) ==
  /\ \A j \in 1..(i - 1) : ~ (AllTime(q)[j - 1] + q[j].time >= t)
  /\ i <= Len(q) => AllTime(q)[i - 1] + q[i].time >= t

InsertPos(q, t) == CHOOSE i \in 1..(Len(q) + 1) : IsInsertPos(q, t, i)

(* The new entry's delta.  At the head a negative job_time is replaced by  *)
(* the time of the old head.                                               *)
NewTime(q, t, i) ==
  IF i = 1 THEN (IF t >= 0 THEN t ELSE q[1].time)
           ELSE t - AllTime(q)[i - 1]

(* Link entry e in front of entry i and charge its delta to entry i.       *)
LinkAt(q, i, e) ==
  [k \in 1..(Len(q) + 1) |->
     IF k < i THEN q[k]
     ELSE IF k = i THEN e
     ELSE IF k = i + 1 THEN Entry(q[k - 1].job, q[k - 1].time - e.time)
     ELSE q[k - 1]]

sched_add(q, job, t) ==
  LET i == InsertPos(q, t) IN LinkAt(q, i, Entry(job, NewTime(q, t, i)))

IsQueued(q, job) == \E i \in 1..Len(q) : q[i].job = job

(* Faulty variant: the successor keeps its own delta.                      *)
UnlinkAt_only(q, i) == [k \in 1..(Len(q) - 1) |-> IF k < i THEN q[k] ELSE q[k + 1]]

(* Unlink entry i; its successor inherits its delta.                       *)
UnlinkAt(q, i) ==
  [k \in 1..(Len(q) - 1) |->
     IF k < i THEN q[k]
     ELSE IF k = i THEN Entry(q[k + 1].job, q[k + 1].time + q[k].time)
     ELSE q[k + 1]]

(* The first entry of the job; a job is removed at most once per call.     *)
FirstOf(q, job) ==
  CHOOSE i \in 1..Len(q) : /\ q[i].job = job
                           /\ \A j \in 1..(i - 1) : q[j].job # job

sched_find_remove(q, job) ==
  IF IsQueued(q, job) THEN UnlinkAt(q, FirstOf(q, job)) ELSE q

(* One iteration of do_scheduler up to the call of the job's function: the *)
(* head is unlinked and its (non-positive) time is added to the next one.  *)
PopHead(q) == UnlinkAt(q, 1)

(* sched_next_insn adds the lateness of every entry of the leading run of  *)
(* negative entries to the one cycle it asks for.                          *)
NegRun(q) ==
  CHOOSE k \in 0..Len(q) : /\ \A i \in 1..k : q[i].time < 0
                           /\ k < Len(q) => q[k + 1].time >= 0

sched_next_insn(q, job) == sched_add(q, job, 1 - AllTime(q)[NegRun(q)])

(* Faulty variant: time_start is read after the instruction.               *)
Elapse_none(q, n) == q

(* The scheduler update that ends an iteration of exec_main / or1ksim_run: *)
(* n cycles have gone by, and only the head is touched.                    *)
Elapse(q, n) ==
  [k \in 1..Len(q) |-> IF k = 1 THEN Entry(q[1].job, q[1].time - n) ELSE q[k]]

(* Faulty variant: a job due now has to wait.                              *)
HeadDue_late(q) == q[1].time < 0

(* The test of do_scheduler's loop and of its callers.                     *)
HeadDue(q) == q[1].time <= 0

(* Cycles from now until the entry at position i is due.                   *)
DueIn(q, i) == AllTime(q)[i]
=============================================================================
