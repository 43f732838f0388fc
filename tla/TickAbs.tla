------------------------------ MODULE TickAbs -------------------------------
(***************************************************************************)
(* The tick timer a program sees, with no scheduler in it: a counter that  *)
(* advances with the cycles of every instruction, is compared with         *)
(* TTMR[TP], and on a match restarts, stops or runs on, setting TTMR[IP].  *)
(* Tick is shown to implement it (Tick_refines in Tick).                   *)
(***************************************************************************)
EXTENDS Integers

CONSTANTS TP_MOD, TTCR_MOD, MaxCycles

VARIABLES tp, ip, ie, mode,   \* the fields of TTMR
          ttcr,               \* the count a program reads
          counting,           \* the counter is running
          executing,          \* an instruction executes, no job does
          writes              \* register writes and resets so far

timer == <<tp, ip, ie, mode, ttcr, counting>>
absvars == <<timer, executing, writes>>

Init ==
  /\ tp = 0 /\ ip = FALSE /\ ie = FALSE /\ mode = "DIS"
  /\ ttcr = 0 /\ counting = FALSE
  /\ executing = TRUE /\ writes = 0

(* Cycles until the low part of the counter equals TP.                     *)
Until == (tp - ttcr) % TP_MOD

Write == writes' = writes + 1

WriteTTMR ==
  /\ executing /\ Write
  /\ tp' \in 0..(TP_MOD - 1)
  /\ ie' \in BOOLEAN
  /\ mode' \in {"DIS", "RT", "SR", "CR"}
  /\ ip' = FALSE
  /\ counting' = (mode' # "DIS")
  /\ UNCHANGED <<ttcr, executing>>

(* Writing the count neither acknowledges an interrupt nor starts a        *)
(* stopped counter.                                                        *)
WriteTTCR ==
  /\ executing /\ Write
  /\ ttcr' \in 0..(TTCR_MOD - 1)
  /\ UNCHANGED <<tp, ip, ie, mode, counting, executing>>

(* An instruction of n cycles.  A match at any of them, the present one    *)
(* included, takes effect when the instruction ends.                       *)
Tick(n) ==
  LET match == IF counting THEN Until <= n ELSE mode = "DIS" /\ Until = 0
      stop  == mode = "SR" /\ counting /\ match
  IN  /\ executing /\ executing' \in BOOLEAN
      /\ ip' = (ip \/ (ie /\ match))
      /\ ttcr' = IF ~ counting THEN ttcr
                 ELSE IF mode = "RT" /\ match THEN 0
                 ELSE IF stop THEN tp
                 ELSE (ttcr + n) % TTCR_MOD
      /\ counting' = (counting /\ ~ stop)
      /\ UNCHANGED <<tp, ie, mode, writes>>

(* The jobs that the instruction has made due change nothing more.         *)
JobsDone == ~ executing /\ executing' /\ UNCHANGED <<timer, writes>>

Reset ==
  /\ ~ executing /\ executing' \in BOOLEAN /\ Write
  /\ tp' = 0 /\ ip' = FALSE /\ ie' = FALSE /\ mode' = "DIS"
  /\ ttcr' = 0 /\ counting' = FALSE

Next == WriteTTMR \/ WriteTTCR \/ (\E n \in 0..MaxCycles : Tick(n)) \/ JobsDone \/ Reset

Spec == Init /\ [][Next]_absvars
=============================================================================
