--------------------------------- MODULE Mmu ---------------------------------
(***************************************************************************)
(* The MMUs (mmu/dmmu.c, mmu/immu.c) as instructions use them: loads,      *)
(* stores, fetches, and the load-linked and store-conditional instructions *)
(* l.lwa and l.swa (cpu/or32/insnset.c), through eval_mem32, set_mem32 and *)
(* eval_insn (cpu/common/abstract.c) and except_handle (cpu/or1k/except.c),*)
(* while the operating system rewrites the TLB, interrupts come in, and a  *)
(* debugger may have asked to catch the exceptions of an access (DSR).     *)
(*                                                                         *)
(* One set of the TLB is modelled: sets do not interact.  A page stands    *)
(* for one word of it and, where an access is not aligned, for an address  *)
(* within that word; page 0 is also the address 0.  Whether memory or a    *)
(* device answers at a physical address is left open.  The instruction MMU *)
(* is the same without stores and the lock.  Attributes: "S" and "U" let   *)
(* the supervisor and the user read (SRE, URE) or execute (SXE, UXE), "SW" *)
(* and "UW" let them write.                                                *)
(***************************************************************************)
EXTENDS Integers, FiniteSetsExt

CONSTANTS
  Pages,           \* pages, virtual and physical alike
  NWays,           \* ways of a set
  NSets,           \* number of sets, a power of two
  Matches,         \* tags and LRU fields that software writes into match registers
  Attributes       \* permissions that software writes into translate registers

None == -1                           \* no page

ASSUME MmuConstants ==
  /\ Pages \subseteq Nat /\ 0 \in Pages
  /\ NWays \in Nat \ {0} /\ NSets \in Nat \ {0}
  /\ NSets \in {1, 2} \/ NSets % 4 = 0
  /\ Matches \subseteq [tag : Pages \cup {None}, lru : 0 .. 3]
  /\ Attributes \subseteq SUBSET {"S", "U", "SW", "UW"}

Ways == 1 .. NWays
Invalid == [tag |-> None, ppn |-> 0, attr |-> {}, lru |-> 0]

VARIABLES
  cpu,             \* SR, ESR, TLB, the load lock, the stall of the debug unit
  dsr,             \* exceptions the debugger catches
  last,            \* history: exception and word written by the last step
  stored           \* history: words stored to since the l.lwa that holds the lock

vars == <<cpu, dsr, last, stored>>

Faults == {"fault", "miss"}          \* EXCEPT_DPF, EXCEPT_IPF; EXCEPT_{D,I}TLBMISS
Errors == {"align", "buserr"}        \* EXCEPT_ALIGN, EXCEPT_BUSERR
Kernel == [me |-> FALSE, sm |-> TRUE, ie |-> FALSE]
User == [me |-> TRUE, sm |-> FALSE, ie |-> TRUE]
Paged == [me |-> TRUE, sm |-> TRUE, ie |-> TRUE]

Init ==
  /\ cpu = [sr |-> Kernel, esr |-> Kernel, tlb |-> [w \in Ways |-> Invalid], mru |-> 0,
            lock |-> FALSE, addr |-> 0, word |-> TRUE, stalled |-> FALSE, pending |-> FALSE]
  /\ dsr \in {{}, Faults \cup Errors}
  /\ last = [except |-> FALSE, wrote |-> None]
  /\ stored = {}

-----------------------------------------------------------------------------
(* Operators on the processor's state c.                                   *)

(* Faulty variant: the debug unit is asked first.                          *)
except_handle_ask(c, except) ==
  IF except \in dsr THEN [c EXCEPT !.stalled = TRUE]
  ELSE [c EXCEPT !.lock = FALSE, !.stalled = FALSE, !.pending = TRUE, !.esr = c.sr, !.sr = Kernel]

(* The lock is given up before the debug unit is asked; an exception it    *)
(* catches stalls the processor and is not pending.                        *)
except_handle(c, except) ==
  IF except \in dsr THEN [c EXCEPT !.lock = FALSE, !.stalled = TRUE]
  ELSE [c EXCEPT !.lock = FALSE, !.stalled = FALSE, !.pending = TRUE, !.esr = c.sr, !.sr = Kernel]

(* The first way that matches; 0 if there is none.                         *)
find_tlbmr(c, va) ==
  LET hits == {w \in Ways : c.tlb[w].tag = va}
  IN  IF hits = {} THEN 0 ELSE Min(hits)

(* SPR_DTLBMR_LRU has two bits, set from the mask of the set number.       *)
lru_reload == (NSets - 1) % 4

(* Faulty variant: reload with ustates - 1 for three states.               *)
or_reload_ustates(lru) == IF lru >= 2 THEN lru ELSE lru + 2

(* lru |= lru_reload: the value is not cleared first.                      *)
or_reload(lru) ==
  CASE lru_reload = 0 -> lru
    [] lru_reload = 1 -> IF lru % 2 = 1 THEN lru ELSE lru + 1
    [] OTHER -> lru_reload

(* Every LRU field of the set goes down by one unless 0, then that of the  *)
(* way that was hit is reloaded.  (mru is a history: the way hit last, 0   *)
(* while software has the set hold a field of its own making.)             *)
SetLRUs(c, way) ==
  LET down == [w \in Ways |-> [c.tlb[w] EXCEPT !.lru = IF @ > 0 THEN @ - 1 ELSE 0]]
  IN  [c EXCEPT !.tlb = [down EXCEPT ![way].lru = or_reload(@)],
                !.mru = IF \A w \in Ways : c.tlb[w].lru =< lru_reload THEN way ELSE 0]

Permitted(c, way, write_access) ==
  (IF write_access THEN IF c.sr.sm THEN "SW" ELSE "UW" ELSE IF c.sr.sm THEN "S" ELSE "U")
    \in c.tlb[way].attr

(* dmmu_translate and immu_translate: the physical address, which is       *)
(* returned after a page fault too, and 0 after a miss.                    *)
translate(c, va, write_access) ==
  LET way == find_tlbmr(c, va)
  IN  CASE ~c.sr.me -> [c |-> c, pa |-> va]
        [] c.sr.me /\ way # 0 ->
             LET d == SetLRUs(c, way)
             IN  [c |-> IF Permitted(c, way, write_access) THEN d ELSE except_handle(d, "fault"),
                  pa |-> c.tlb[way].ppn]
        [] OTHER -> [c |-> except_handle(c, "miss"), pa |-> 0]

(* Faulty variant: only write permission is tested.                        *)
peek_into_tlb_write(c, va, write_access) ==
  LET way == find_tlbmr(c, va)
  IN  IF ~c.sr.me THEN va
      ELSE IF way # 0 /\ (write_access => Permitted(c, way, TRUE)) THEN c.tlb[way].ppn ELSE 0

(* peek_into_dtlb and peek_into_itlb: 0 when translate would not succeed.  *)
peek_into_tlb(c, va, write_access) ==
  LET way == find_tlbmr(c, va)
  IN  IF ~c.sr.me THEN va
      ELSE IF way # 0 /\ Permitted(c, way, write_access) THEN c.tlb[way].ppn ELSE 0

(* eval_mem32: a misaligned address is not translated; a bus error comes   *)
(* after the translation, unless that has an exception pending.            *)
eval_mem32(c, va, aligned, ok) ==
  LET t == translate(c, va, FALSE).c
  IN  IF ~aligned THEN except_handle(c, "align")
      ELSE IF t.pending \/ ok THEN t
      ELSE except_handle(t, "buserr")

(* Faulty variant: a store compares the virtual address.                   *)
set_mem32_virtual(c, va, aligned, ok) ==
  LET t == translate(c, va, TRUE)
      d == [t.c EXCEPT !.lock = @ /\ ~(va = c.addr /\ c.word)]
  IN  IF ~aligned THEN [c |-> except_handle(c, "align"), wrote |-> None]
      ELSE IF d.pending THEN [c |-> d, wrote |-> None]
      ELSE IF ok THEN [c |-> d, wrote |-> t.pa]
      ELSE [c |-> except_handle(d, "buserr"), wrote |-> None]

(* Faulty variant: the store is done in spite of the exception.            *)
set_mem32_pending(c, va, aligned, ok) ==
  LET t == translate(c, va, TRUE)
      d == [t.c EXCEPT !.lock = @ /\ ~(t.pa = c.addr /\ c.word)]
  IN  IF ~aligned THEN [c |-> except_handle(c, "align"), wrote |-> None]
      ELSE IF ok THEN [c |-> d, wrote |-> t.pa]
      ELSE [c |-> except_handle(d, "buserr"), wrote |-> None]

(* A store to the locked word gives up the lock; with an exception pending *)
(* nothing is written, nor is it where nobody answers.                     *)
set_mem32(c, va, aligned, ok) ==
  LET t == translate(c, va, TRUE)
      d == [t.c EXCEPT !.lock = @ /\ ~(t.pa = c.addr /\ c.word)]
  IN  IF ~aligned THEN [c |-> except_handle(c, "align"), wrote |-> None]
      ELSE IF d.pending THEN [c |-> d, wrote |-> None]
      ELSE IF ok THEN [c |-> d, wrote |-> t.pa]
      ELSE [c |-> except_handle(d, "buserr"), wrote |-> None]

-----------------------------------------------------------------------------
(* Instructions.                                                           *)

(* The step of an instruction that leads to state c and writes a word, or  *)
(* None; before it the words in since had been stored to.  An exception    *)
(* was raised iff it is pending or was caught.  (The address of a lock     *)
(* that is not held is read by nobody, and forgotten here.)                *)
Done(c, wrote, since) ==
  /\ cpu' = [c EXCEPT !.pending = FALSE, !.addr = IF c.lock THEN @ ELSE 0, !.word = c.lock => @]
  /\ last' = [except |-> c.pending \/ c.stalled, wrote |-> wrote]
  /\ stored' = IF c.lock THEN since \cup ({wrote} \ {None}) ELSE {}
  /\ UNCHANGED dsr

(* l.lwz by eval_mem32; an aligned one is also a fetch by eval_insn.       *)
l_lwz(va, aligned, ok) ==
  /\ ~cpu.stalled
  /\ Done(eval_mem32(cpu, va, aligned, ok), None, stored)

l_sw(va, aligned, ok) ==
  /\ ~cpu.stalled
  /\ LET s == set_mem32(cpu, va, aligned, ok)
     IN  Done(s.c, s.wrote, stored)

(* The address is translated again for the lock, after the load and its    *)
(* exceptions.  The lock on a misaligned address is on no word.            *)
l_lwa(va, aligned, ok) ==
  /\ ~cpu.stalled
  /\ LET c == eval_mem32(cpu, va, aligned, ok)
         u == translate([c EXCEPT !.lock = TRUE], va, FALSE)
     IN  Done([u.c EXCEPT !.addr = u.pa, !.word = aligned], None, {})

(* The lock is tested with a translation for reading, of the address as it *)
(* is.                                                                     *)
l_swa(va, aligned, ok) ==
  /\ ~cpu.stalled
  /\ LET u == translate(cpu, va, FALSE)
         success == u.pa = cpu.addr /\ aligned = cpu.word /\ u.c.lock
         s == IF success THEN set_mem32(u.c, va, aligned, ok) ELSE [c |-> u.c, wrote |-> None]
     IN  Done([s.c EXCEPT !.lock = FALSE], s.wrote, stored)

(* The tick timer or a device interrupts the processor, in either mode.    *)
Interrupt ==
  /\ ~cpu.stalled /\ cpu.sr.ie
  /\ Done(except_handle(cpu, "interrupt"), None, stored)

l_rfe ==
  /\ ~cpu.stalled /\ cpu.sr.sm
  /\ Done([cpu EXCEPT !.sr = cpu.esr], None, stored)

(* The operating system: SR (here with l.rfe through ESR, or directly) and *)
(* the TLB registers, the LRU field of a match register included.          *)
mtspr_sr(sr) ==
  /\ ~cpu.stalled /\ cpu.sr.sm
  /\ Done([cpu EXCEPT !.sr = sr, !.esr = Kernel], None, stored)

mtspr_tlbmr(way, match) ==
  /\ ~cpu.stalled /\ cpu.sr.sm
  /\ Done([cpu EXCEPT !.tlb[way] = [@ EXCEPT !.tag = match.tag, !.lru = match.lru],
                      !.mru = IF @ = way \/ match.lru >= lru_reload THEN 0 ELSE @], None, stored)

mtspr_tlbtr(way, ppn, attr) ==
  /\ ~cpu.stalled /\ cpu.sr.sm
  /\ Done([cpu EXCEPT !.tlb[way] = [@ EXCEPT !.ppn = ppn, !.attr = attr]], None, stored)

(* The debugger lets the processor go on.                                  *)
Unstall ==
  /\ cpu.stalled
  /\ cpu' = [cpu EXCEPT !.stalled = FALSE]
  /\ last' = [except |-> FALSE, wrote |-> None]
  /\ UNCHANGED <<dsr, stored>>

Next ==
  \/ \E va \in Pages, aligned, ok \in BOOLEAN :
       \/ l_lwz(va, aligned, ok) \/ l_sw(va, aligned, ok)
       \/ l_lwa(va, aligned, ok) \/ l_swa(va, aligned, ok)
  \/ Interrupt \/ l_rfe \/ Unstall
  \/ \E sr \in {Kernel, User, Paged} : mtspr_sr(sr)
  \/ \E way \in Ways, match \in Matches : mtspr_tlbmr(way, match)
  \/ \E way \in Ways, ppn \in Pages, attr \in Attributes : mtspr_tlbtr(way, ppn, attr)

Spec == Init /\ [][Next]_vars

-----------------------------------------------------------------------------
Entries == [tag : Pages \cup {None}, ppn : Pages, attr : Attributes \cup {{}}, lru : 0 .. 3]
Modes == {Kernel, User, Paged}
States == [sr : Modes, esr : Modes, tlb : [Ways -> Entries], mru : 0 .. NWays,
           lock : BOOLEAN, addr : Pages, word : BOOLEAN, stalled : BOOLEAN, pending : BOOLEAN]

(* Types; no exception is pending between instructions.                    *)
TypeOK ==
  /\ cpu \in States /\ ~cpu.pending
  /\ stored \subseteq Pages

(* No store slips in between l.lwa and a successful l.swa, under whatever  *)
(* virtual address it was made: while the lock is held, the locked word    *)
(* has not been stored to since the last l.lwa.  (A lock on a misaligned   *)
(* address is on no word, and l.swa cannot store with it.)                 *)
StoreBreaksLock == cpu.lock /\ cpu.word => cpu.addr \notin stored

(* A user program writes only words that the TLB maps with user write      *)
(* permission at that time, and an exception that is taken leaves no       *)
(* write behind; unless the debug unit catches the exception: then the     *)
(* store goes on, to address 0 after a TLB miss.                           *)
WritesProtected ==
  LET c == cpu
      word == last'.wrote
      caught == cpu'.stalled
  IN  word # None =>
        /\ ~c.sr.sm /\ ~caught =>
             \E w \in Ways : c.tlb[w].ppn = word /\ c.tlb[w].tag # None /\ "UW" \in c.tlb[w].attr
        /\ last'.except => caught

Protected == [][WritesProtected]_vars

(* The LRU fields order the ways by use: the way that was hit last has the *)
(* reload value exactly, every other one less (with one set, all are 0).   *)
(* This is what the comment in dmmu_translate argues when it leaves out    *)
(* clearing the field.  It holds of a hit in a set whose fields are within *)
(* the reload value, whatever they are; with fewer than four sets software *)
(* may write a larger one, and then or-ing the reload value in does not    *)
(* bring the field down to it, against that comment.                       *)
LruOrder ==
  cpu.mru # 0 =>
    /\ cpu.tlb[cpu.mru].lru = lru_reload
    /\ \A w \in Ways \ {cpu.mru} : cpu.tlb[w].lru < lru_reload \/ lru_reload = 0

(* The debugger's and the cache instructions' view of a translation is the *)
(* one an access by the processor would get, and 0 if that would fail.     *)
PeekAgrees ==
  \A va \in Pages, write_access \in BOOLEAN :
    LET t == translate([cpu EXCEPT !.stalled = FALSE], va, write_access)
    IN  peek_into_tlb(cpu, va, write_access) = IF t.c.pending \/ t.c.stalled THEN 0 ELSE t.pa

(* The TLB as translations leave it: ordered by use, and peeking sees what *)
(* translating would.                                                      *)
TranslationExact == TypeOK /\ LruOrder /\ PeekAgrees

(* except.c:53: "context switches abort load link / store conditional      *)
(* sequences".  An exception leaves no lock behind, caught by the debug    *)
(* unit or not, except one of l.lwa's own load: l.lwa goes on, and takes   *)
(* the lock, of the untranslated address, into the exception handler.      *)
AbortsLock ==
  last'.except /\ ~(\E va \in Pages, aligned, ok \in BOOLEAN : l_lwa(va, aligned, ok))
    => ~cpu'.lock

ExceptionAborts == [][AbortsLock]_vars

(* The lock of l.lwa: l.swa succeeds only if neither a store nor an        *)
(* exception came in between.                                              *)
LockExact == []StoreBreaksLock /\ ExceptionAborts
=============================================================================
