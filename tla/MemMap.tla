------------------------------- MODULE MemMap -------------------------------
(***************************************************************************)
(* The memory map (cpu/common/abstract.c) under the memory controller      *)
(* (peripheral/mc.c).  An access looks an address up in the list of areas, *)
(* after the area of the last access; the controller's registers move its  *)
(* areas and switch them on and off; a reset of the simulator makes the    *)
(* controller take its areas over from the list that all memories register *)
(* in, by relinking a singly linked list, one element per step here.       *)
(*                                                                         *)
(* Area a is a memory on chip select a - 1.  Addresses are Regions; the    *)
(* base address mask compares all bits of a region, or none.  Delays are   *)
(* left out.  The registers of the controller have an area of their own.   *)
(***************************************************************************)
EXTENDS Naturals, FiniteSetsExt

CONSTANTS
  NAreas,          \* number of memories
  Owned            \* sets of memories configured for this controller

Areas == 1 .. NAreas
NULL == 0
Registers == NAreas + 1              \* the area of the controller's registers
Regions == 0 .. (NAreas - 1)

ASSUME MemMapConstants ==
  NAreas \in Nat \ {0} /\ Owned \subseteq SUBSET Areas

VARIABLES
  own,             \* memories with mc = the index of this controller
  area,            \* addr_mask, addr_compare and valid of the memories
  cur_area,        \* the area of the last access
  csc, ba_mask,    \* registers of the controller
  next, mc_areas, mine,      \* the lists: links, and the heads mc_areas and mc->mc_areas
  reset,           \* mc_reset's local variables, and "run" outside of it
  before           \* history: cur_area if it is still the one of the last reset

registers == <<csc, ba_mask>>
lists == <<next, mc_areas, mine>>
vars == <<own, area, cur_area, registers, lists, reset, before>>

Running == [at |-> "run", cur |-> NULL, prev |-> NULL]
Off == [sel |-> 0, en |-> FALSE]

(* The memories register in the order of their numbers, each at the head   *)
(* of the list; sim_init resets before anything runs.                      *)
Init ==
  /\ own \in Owned
  /\ area = [a \in Areas |-> [mask |-> TRUE, compare |-> a - 1, valid |-> TRUE]]
  /\ cur_area \in Areas \cup {Registers}
  /\ csc = [a \in Areas |-> Off] /\ ba_mask = FALSE
  /\ next = [a \in Areas |-> a - 1] /\ mc_areas = NAreas /\ mine = NULL
  /\ reset = [at |-> "start", cur |-> NULL, prev |-> NULL]
  /\ before = cur_area

-----------------------------------------------------------------------------
(* The list from head on: the least set that the links do not lead out of. *)
Listed(head) ==
  LET Closed(S) == {head} \cup {next[a] : a \in S} \subseteq S \cup {NULL}
  IN  {a \in Areas : \A S \in SUBSET Areas : Closed(S) => a \in S}

Match(a, addr) == area[a].mask => area[a].compare = addr

(* The list of devices, in order of registration.                          *)
Search(addr) ==
  LET found == {a \in Areas : Match(a, addr) /\ area[a].valid}
  IN  IF found = {} THEN NULL ELSE Min(found)

(* The area of the last access is tried first, valid or not.               *)
verify_memoryarea(addr) ==
  IF cur_area \in Areas /\ Match(cur_area, addr) THEN cur_area ELSE Search(addr)

(* The areas once chip select cs is set up from registers c and mask; it   *)
(* is the first area of the controller with that chip select.              *)
set_csc_tms(ar, cs, c, mask) ==
  [a \in Areas |-> IF a = cs /\ a \in Listed(mine)
                   THEN [mask |-> mask, compare |-> c[a].sel, valid |-> c[a].en]
                   ELSE ar[a]]

Idle == reset.at = "run"

(* A load, a store, a fetch, or the access of a device or of the debugger. *)
Access(addr) ==
  /\ Idle
  /\ cur_area' = verify_memoryarea(addr)
  /\ before' = IF cur_area' = before THEN before ELSE NULL
  /\ UNCHANGED <<own, area, registers, lists, reset>>

(* Faulty variant: the registers do not go through the memory map.         *)
ToRegisters_direct == Idle /\ UNCHANGED <<cur_area, before>>

(* An access to the controller's registers goes through verify_memoryarea. *)
ToRegisters ==
  /\ Idle
  /\ cur_area' = Registers
  /\ before' = NULL

(* CSC; writing TMS sets the same chip select up again with the old CSC.   *)
mc_write_CSC(cs, value) ==
  /\ ToRegisters
  /\ csc' = [csc EXCEPT ![cs] = value]
  /\ area' = set_csc_tms(area, cs, csc', ba_mask)
  /\ UNCHANGED <<own, ba_mask, lists, reset>>

(* Faulty variant: only chip select 0 is set up again.                     *)
mc_write_BA_MASK_first(mask) ==
  /\ ToRegisters
  /\ ba_mask' = mask
  /\ area' = set_csc_tms(area, 1, csc, mask)
  /\ UNCHANGED <<own, csc, lists, reset>>

mc_write_BA_MASK(mask) ==
  /\ ToRegisters
  /\ ba_mask' = mask
  /\ area' = [a \in Areas |-> set_csc_tms(area, a, csc, mask)[a]]
  /\ UNCHANGED <<own, csc, lists, reset>>

-----------------------------------------------------------------------------
(* sim_reset, at the start and again when a user or a program asks for it. *)
sim_reset ==
  /\ Idle
  /\ reset' = [reset EXCEPT !.at = "start"]
  /\ UNCHANGED <<own, area, cur_area, registers, lists, before>>

(* Chip select 0 is switched on, at the address 0 with an empty mask.      *)
mc_reset ==
  /\ reset.at = "start"
  /\ csc' = [a \in Areas |-> [sel |-> 0, en |-> a = 1]]
  /\ ba_mask' = FALSE
  /\ reset' = [at |-> "grab", cur |-> mc_areas, prev |-> NULL]
  /\ before' = cur_area
  /\ UNCHANGED <<own, area, cur_area, lists>>

(* Faulty variant: the element is not linked into the list of its own.     *)
Grab_lost ==
  /\ reset.at = "grab" /\ reset.cur \in own
  /\ LET cur == reset.cur
         unlinked == IF reset.prev # NULL THEN [next EXCEPT ![reset.prev] = next[cur]] ELSE next
     IN  /\ mc_areas' = IF reset.prev = NULL THEN next[cur] ELSE mc_areas
         /\ next' = [unlinked EXCEPT ![cur] = NULL]
         /\ reset' = [reset EXCEPT !.cur = unlinked[cur], !.prev = cur]
  /\ mine' = reset.cur
  /\ UNCHANGED <<own, area, cur_area, registers, before>>

(* Faulty variant: the walk goes on along the new link.                    *)
Grab_again ==
  /\ reset.at = "grab" /\ reset.cur \in own
  /\ LET cur == reset.cur
         unlinked == IF reset.prev # NULL THEN [next EXCEPT ![reset.prev] = next[cur]] ELSE next
     IN  /\ mc_areas' = IF reset.prev = NULL THEN next[cur] ELSE mc_areas
         /\ next' = [unlinked EXCEPT ![cur] = mine]
         /\ reset' = [reset EXCEPT !.cur = mine, !.prev = cur]
  /\ mine' = reset.cur
  /\ UNCHANGED <<own, area, cur_area, registers, before>>

(* "Grab control over all the devices we are destined to control": the     *)
(* element is unlinked behind prev, or at the head, and linked at the head *)
(* of the controller's list.  prev then is the element that was taken.     *)
Grab ==
  /\ reset.at = "grab" /\ reset.cur \in own
  /\ LET cur == reset.cur
         unlinked == IF reset.prev # NULL THEN [next EXCEPT ![reset.prev] = next[cur]] ELSE next
     IN  /\ mc_areas' = IF reset.prev = NULL THEN next[cur] ELSE mc_areas
         /\ next' = [unlinked EXCEPT ![cur] = mine]
         /\ reset' = [reset EXCEPT !.cur = unlinked[cur], !.prev = cur]
  /\ mine' = reset.cur
  /\ UNCHANGED <<own, area, cur_area, registers, before>>

Pass ==
  /\ reset.at = "grab" /\ reset.cur \in Areas \ own
  /\ reset' = [reset EXCEPT !.cur = next[reset.cur], !.prev = reset.cur]
  /\ UNCHANGED <<own, area, cur_area, registers, lists, before>>

Grabbed ==
  /\ reset.at = "grab" /\ reset.cur = NULL
  /\ reset' = [at |-> "clear", cur |-> mine, prev |-> NULL]
  /\ UNCHANGED <<own, area, cur_area, registers, lists, before>>

(* The controller's areas are switched off, then chip select 0 is set up.  *)
Clear ==
  /\ reset.at = "clear" /\ reset.cur # NULL
  /\ area' = [area EXCEPT ![reset.cur].valid = FALSE]
  /\ reset' = [reset EXCEPT !.cur = next[reset.cur]]
  /\ UNCHANGED <<own, cur_area, registers, lists, before>>

Cleared ==
  /\ reset.at = "clear" /\ reset.cur = NULL
  /\ area' = set_csc_tms(area, 1, csc, ba_mask)
  /\ reset' = Running
  /\ UNCHANGED <<own, cur_area, registers, lists, before>>

ResetStep == mc_reset \/ Grab \/ Pass \/ Grabbed \/ Clear \/ Cleared

Next ==
  \/ \E addr \in Regions : Access(addr)
  \/ \E cs \in Areas, sel \in Regions, en \in BOOLEAN : mc_write_CSC(cs, [sel |-> sel, en |-> en])
  \/ \E mask \in BOOLEAN : mc_write_BA_MASK(mask)
  \/ sim_reset
  \/ ResetStep

Spec == Init /\ [][Next]_vars

(* mc_reset runs without interruption.                                     *)
FairSpec == Spec /\ WF_vars(ResetStep)

-----------------------------------------------------------------------------
(* Types; every link of the lists points to a memory or is NULL.           *)
TypeOK ==
  /\ area \in [Areas -> [mask : BOOLEAN, compare : Regions, valid : BOOLEAN]]
  /\ csc \in [Areas -> [sel : Regions, en : BOOLEAN]] /\ ba_mask \in BOOLEAN
  /\ cur_area \in 0 .. Registers /\ before \in 0 .. Registers
  /\ next \in [Areas -> Areas \cup {NULL}]
  /\ {mc_areas, mine, reset.cur, reset.prev} \subseteq Areas \cup {NULL}
  /\ reset.at \in {"run", "start", "grab", "clear"}

(* The configurations that mc_reset copes with.  As its prev goes on       *)
(* pointing to an element that was taken, two memories of the controller   *)
(* that registered one after the other are only taken both, at every       *)
(* reset, if they are its only ones and registered before all others.  For *)
(* other sets the comment of mc.c:240, "Grab control over all the devices  *)
(* we are destined to control", is not what happens: of three memories     *)
(* {2, 3} gets 1 as well, and {1, 2, 3} loses one in the first reset and   *)
(* makes the second walk in a circle.                                      *)
Copes == own = {1, 2} \/ \A a \in own : a + 1 \notin own

(* In those configurations, after a reset and after every later one, the   *)
(* controller has exactly the memories that are configured for it.         *)
Controlled == Idle => Listed(mine) = own

(* Remembering the area of the last access is transparent: an address that *)
(* is in one valid area or in none gets that area, or a bus error, because *)
(* a write to the controller's registers is itself an access that replaces *)
(* the remembered area.  The one exception is the area that was remembered *)
(* when mc_reset switched it off.                                          *)
LookupExact ==
  Idle /\ before = NULL =>
    \A addr \in Regions :
      LET valid == {a \in Areas : Match(a, addr) /\ area[a].valid}
      IN  Cardinality(valid) <= 1 => valid = {verify_memoryarea(addr)} \ {NULL}

(* The areas of the controller are where its registers say, in whatever    *)
(* order the registers are written and however often it is reset.          *)
FollowsRegisters ==
  Idle => \A a \in own :
            /\ area[a].valid = csc[a].en
            /\ csc[a].en => area[a].mask = ba_mask /\ area[a].compare = csc[a].sel

(* Where mc_reset copes, the controller has its memories and they are      *)
(* where its registers say; links and areas are sound in any case.         *)
ControllerExact == TypeOK /\ (Copes => Controlled /\ FollowsRegisters)

(* Where mc_reset copes, a reset ends: the list that is walked has no      *)
(* cycle, though links are left over in it from the list of the last one.  *)
ResetEnds == reset.at = "start" /\ Copes ~> Idle
=============================================================================
