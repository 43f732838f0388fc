----------------------------- MODULE MmuProofs ------------------------------
(***************************************************************************)
(* Proofs about the MMUs and the load lock, for every set of pages, number *)
(* of ways and number of sets, and whatever software writes into the TLB   *)
(* registers.                                                              *)
(***************************************************************************)
EXTENDS Mmu, TLAPS, WellFoundedInduction

(* The search for a matching way finds the first one if there is one.      *)
LEMMA FirstWay ==
  ASSUME NEW S, S \subseteq Nat, S # {}
  PROVE  Min(S) \in S
<1>1. IsWellFoundedOn(OpToRel(<, Nat), Nat)
  BY NatLessThanWellFounded
<1>2. \E x \in S : \A y \in S : ~ (<<y, x>> \in OpToRel(<, Nat))
  BY <1>1, WFMin
<1>3. PICK x \in S : \A y \in S : ~ (<<y, x>> \in OpToRel(<, Nat))
  BY <1>2
<1>4. \A y \in S : ~ (y < x)
  BY <1>3 DEF OpToRel
<1>5. \A y \in S : x =< y
  BY <1>4
<1> QED BY <1>5 DEF Min

(* The lookup returns a way with the page's tag, or 0.                     *)
LEMMA FindFacts ==
  ASSUME NEW c \in States, NEW va \in Pages
  PROVE  /\ find_tlbmr(c, va) \in Ways \cup {0}
         /\ find_tlbmr(c, va) # 0 => c.tlb[find_tlbmr(c, va)].tag = va
<1> DEFINE hits == {w \in Ways : c.tlb[w].tag = va}
<1>1. CASE hits = {}
  BY <1>1 DEF find_tlbmr
<1>2. CASE hits # {}
  <2>1. hits \subseteq Nat
    BY DEF Ways
  <2>2. Min(hits) \in hits
    BY <1>2, <2>1, FirstWay
  <2> QED BY <1>2, <2>2 DEF find_tlbmr
<1> QED BY <1>1, <1>2

-----------------------------------------------------------------------------
(* No LRU field exceeds the reload value: this is what makes "lru |=       *)
(* lru_reload" an assignment.  Software may write a larger one.            *)
LruBound(c) == \A w \in Ways : c.tlb[w].lru =< lru_reload

(* LruOrder: the way used last has the highest LRU field, alone.           *)
Ordered(c) ==
  c.mru # 0 =>
    /\ c.tlb[c.mru].lru = lru_reload
    /\ \A w \in Ways \ {c.mru} : c.tlb[w].lru < lru_reload \/ lru_reload = 0

(* The "|= lru_reload" of the code stays within the field, and is an       *)
(* assignment for a field that does not exceed the reload value.           *)
LEMMA ReloadFacts ==
  /\ lru_reload \in {0, 1, 3}
  /\ \A x \in 0..3 : or_reload(x) \in 0..3
  /\ \A x \in 0..lru_reload : or_reload(x) = lru_reload
<1>1. lru_reload \in {0, 1, 3}
  BY MmuConstants DEF lru_reload
<1> HIDE DEF lru_reload
<1>2. ASSUME NEW x \in 0..3
      PROVE  or_reload(x) \in 0..3 /\ (x =< lru_reload => or_reload(x) = lru_reload)
  <2>1. CASE lru_reload = 0
    BY <2>1 DEF or_reload
  <2>2. CASE lru_reload = 1
    <3>1. x = 0 \/ x = 1 \/ x = 2 \/ x = 3
      OBVIOUS
    <3>2. 0 % 2 = 0 /\ 1 % 2 = 1 /\ 2 % 2 = 0 /\ 3 % 2 = 1
      OBVIOUS
    <3> QED BY <2>2, <3>1, <3>2 DEF or_reload
  <2>3. CASE lru_reload = 3
    BY <2>3 DEF or_reload
  <2> QED BY <1>1, <2>1, <2>2, <2>3
<1> QED BY <1>1, <1>2

(* A hit changes nothing but the LRU fields, and leaves them ordered by    *)
(* use if they were within the reload value.                               *)
LEMMA SetLRUsFacts ==
  ASSUME NEW c \in States, NEW way \in Ways
  PROVE  /\ SetLRUs(c, way) \in States
         /\ Ordered(SetLRUs(c, way))
         /\ \A w \in Ways : /\ SetLRUs(c, way).tlb[w].tag = c.tlb[w].tag
                            /\ SetLRUs(c, way).tlb[w].ppn = c.tlb[w].ppn
                            /\ SetLRUs(c, way).tlb[w].attr = c.tlb[w].attr
         /\ SetLRUs(c, way).sr = c.sr /\ SetLRUs(c, way).esr = c.esr
         /\ SetLRUs(c, way).lock = c.lock /\ SetLRUs(c, way).addr = c.addr
         /\ SetLRUs(c, way).word = c.word
         /\ SetLRUs(c, way).stalled = c.stalled /\ SetLRUs(c, way).pending = c.pending
<1> DEFINE down == [w \in Ways |-> [c.tlb[w] EXCEPT !.lru = IF @ > 0 THEN @ - 1 ELSE 0]]
           tlb == [down EXCEPT ![way].lru = or_reload(@)]
           mru == IF \A w \in Ways : c.tlb[w].lru =< lru_reload THEN way ELSE 0
           d == [c EXCEPT !.tlb = tlb, !.mru = mru]
<1>0. d = SetLRUs(c, way)
  BY DEF SetLRUs
<1>1. /\ c.tlb \in [Ways -> Entries] /\ way \in 0..NWays /\ mru \in 0..NWays
      /\ \A w \in Ways : c.tlb[w] \in Entries /\ c.tlb[w].lru \in 0..3
  BY MmuConstants DEF States, Entries, Ways
<1>2. lru_reload \in {0, 1, 3} /\ \A x \in 0..3 : or_reload(x) \in 0..3
  BY ReloadFacts
<1>3. \A w \in Ways :
        /\ down[w] \in Entries
        /\ down[w].tag = c.tlb[w].tag /\ down[w].ppn = c.tlb[w].ppn
        /\ down[w].attr = c.tlb[w].attr
        /\ down[w].lru \in 0..3
        /\ c.tlb[w].lru =< lru_reload =>
             down[w].lru \in 0..lru_reload /\ (down[w].lru < lru_reload \/ lru_reload = 0)
  BY <1>1, <1>2 DEF Entries
<1>4. down \in [Ways -> Entries]
  BY <1>3
<1> HIDE DEF down
<1>5. PICK x : x = or_reload(down[way].lru)
  OBVIOUS
<1>6. x \in 0..3 /\ (c.tlb[way].lru =< lru_reload => x = lru_reload)
  BY <1>2, <1>3, <1>5, ReloadFacts
<1>7. tlb = [down EXCEPT ![way] = [down[way] EXCEPT !.lru = x]]
  BY <1>4, <1>5
<1> HIDE DEF tlb, mru
<1>8. [down[way] EXCEPT !.lru = x] \in Entries
  BY <1>3, <1>6 DEF Entries
<1>9. tlb \in [Ways -> Entries]
  BY <1>4, <1>7, <1>8
<1>10. /\ tlb[way].lru = x
       /\ \A w \in Ways \ {way} : tlb[w] = down[w]
       /\ tlb[way].tag = down[way].tag /\ tlb[way].ppn = down[way].ppn
       /\ tlb[way].attr = down[way].attr
  BY <1>3, <1>4, <1>7, <1>8 DEF Entries
<1>11. /\ d \in States /\ d.tlb = tlb /\ d.mru = mru
       /\ d.sr = c.sr /\ d.esr = c.esr /\ d.lock = c.lock /\ d.addr = c.addr
       /\ d.word = c.word /\ d.stalled = c.stalled /\ d.pending = c.pending
  BY <1>1, <1>9 DEF States
<1> HIDE DEF d
<1>12. Ordered(d)
  <2>1. mru # 0 => LruBound(c) /\ mru = way
    BY DEF mru, LruBound
  <2> QED BY <1>2, <1>3, <1>6, <1>10, <1>11, <2>1 DEF LruBound, Ordered
<1>13. \A w \in Ways : d.tlb[w].tag = c.tlb[w].tag /\ d.tlb[w].ppn = c.tlb[w].ppn
                       /\ d.tlb[w].attr = c.tlb[w].attr
  BY <1>3, <1>10, <1>11
<1> QED BY <1>0, <1>11, <1>12, <1>13

(* except_handle gives up the lock and leaves the TLB alone; the exception *)
(* is pending, or caught and the processor stalled.                        *)
Excepted(c, d) ==
  /\ d \in States
  /\ d.tlb = c.tlb /\ d.mru = c.mru /\ d.addr = c.addr /\ d.word = c.word
  /\ d.lock = FALSE /\ (d.pending \/ d.stalled)

(* except_handle does what Excepted says.                                  *)
LEMMA ExceptFacts ==
  \A c \in States : \A e : Excepted(c, except_handle(c, e))
BY DEF Excepted, except_handle, States, Modes

-----------------------------------------------------------------------------
(* The translations of one TLB are those of another.                       *)
SameMaps(c, d) ==
  \A w \in Ways : c.tlb[w].tag = d.tlb[w].tag /\ c.tlb[w].ppn = d.tlb[w].ppn
                  /\ c.tlb[w].attr = d.tlb[w].attr

(* The access is allowed, and what it gets.                                *)
Allowed(c, va, write_access) ==
  c.sr.me => find_tlbmr(c, va) # 0 /\ Permitted(c, find_tlbmr(c, va), write_access)

(* Where an allowed access goes.                                           *)
Translation(c, va) == IF c.sr.me THEN c.tlb[find_tlbmr(c, va)].ppn ELSE va

(* A translation t leaves the mappings alone; it succeeds and changes only *)
(* LRU fields, or raises an exception, which gives up the lock.            *)
Translated(c, va, write_access, t) ==
  /\ t.c \in States /\ t.pa \in Pages
  /\ t.c.addr = c.addr /\ t.c.word = c.word /\ SameMaps(t.c, c) /\ (Ordered(c) => Ordered(t.c))
  /\ Allowed(c, va, write_access) =>
       /\ t.pa = Translation(c, va)
       /\ t.c.lock = c.lock /\ t.c.sr = c.sr
       /\ t.c.stalled = c.stalled /\ t.c.pending = c.pending
  /\ ~Allowed(c, va, write_access) =>
       t.c.lock = FALSE /\ (t.c.pending \/ t.c.stalled)

(* dmmu_translate and immu_translate do what Translated says.              *)
LEMMA TranslateFacts ==
  ASSUME NEW c \in States, NEW va \in Pages, NEW write_access \in BOOLEAN
  PROVE  Translated(c, va, write_access, translate(c, va, write_access))
<1> DEFINE t == translate(c, va, write_access)
<1> SUFFICES Translated(c, va, write_access, t)
  OBVIOUS
<1> HIDE DEF t
<1> USE DEF Translated
<1> DEFINE way == find_tlbmr(c, va)
           d == SetLRUs(c, way)
<1>0. 0 \in Pages
  BY MmuConstants
<1>1. way \in Ways \cup {0}
  BY FindFacts
<1>2. CASE ~c.sr.me
  <2>1. t = [c |-> c, pa |-> va]
    BY <1>2 DEF translate, t
  <2> QED BY <1>2, <2>1 DEF SameMaps, Allowed, Translation
<1>3. CASE c.sr.me /\ way # 0
  <2>1. /\ d \in States /\ Ordered(d) /\ SameMaps(d, c)
        /\ d.sr = c.sr /\ d.lock = c.lock /\ d.addr = c.addr /\ d.word = c.word
        /\ d.stalled = c.stalled /\ d.pending = c.pending
    BY <1>1, <1>3, SetLRUsFacts DEF SameMaps
  <2>2. c.tlb[way].ppn \in Pages
    BY <1>1, <1>3 DEF States, Entries
  <2>3. t = [c |-> IF Permitted(c, way, write_access) THEN d ELSE except_handle(d, "fault"),
             pa |-> c.tlb[way].ppn]
    BY <1>3 DEF translate, t
  <2>4. CASE Permitted(c, way, write_access)
    <3>1. t.c = d /\ t.pa = c.tlb[way].ppn /\ Allowed(c, va, write_access)
      BY <2>3, <2>4, <1>3 DEF Allowed
    <3> HIDE DEF d
    <3> QED BY <1>3, <2>1, <2>2, <3>1 DEF Translation
  <2>5. CASE ~Permitted(c, way, write_access)
    <3>1. t.c = except_handle(d, "fault") /\ t.pa = c.tlb[way].ppn
          /\ ~Allowed(c, va, write_access)
      BY <2>3, <2>5, <1>3 DEF Allowed
    <3> HIDE DEF d
    <3>2. /\ t.c \in States /\ t.c.tlb = d.tlb /\ t.c.mru = d.mru /\ t.c.addr = d.addr /\ t.c.word = d.word
          /\ t.c.lock = FALSE /\ (t.c.pending \/ t.c.stalled)
      <4>1. d \in States /\ t.c = except_handle(d, "fault")
        BY <2>1, <3>1
      <4> QED BY <4>1, ExceptFacts DEF Excepted
    <3> QED BY <2>1, <2>2, <3>1, <3>2 DEF SameMaps, Ordered
  <2> QED BY <2>4, <2>5
<1>4. CASE c.sr.me /\ way = 0
  <2>1. t.c = except_handle(c, "miss") /\ t.pa = 0 /\ ~Allowed(c, va, write_access)
    BY <1>4 DEF translate, Allowed, t
  <2>2. /\ t.c \in States /\ t.c.tlb = c.tlb /\ t.c.mru = c.mru /\ t.c.addr = c.addr /\ t.c.word = c.word
        /\ t.c.lock = FALSE /\ (t.c.pending \/ t.c.stalled)
    BY <2>1, ExceptFacts DEF Excepted
  <2> QED BY <1>0, <2>1, <2>2 DEF SameMaps, Ordered
<1> QED BY <1>2, <1>3, <1>4

(* The way of a page and its permissions depend on the mappings only.      *)
LEMMA SameMapsFacts ==
  ASSUME NEW c \in States, NEW d \in States, SameMaps(d, c), NEW va \in Pages
  PROVE  /\ find_tlbmr(d, va) = find_tlbmr(c, va)
         /\ \A write_access \in BOOLEAN :
              d.sr = c.sr =>
                /\ Allowed(d, va, write_access) <=> Allowed(c, va, write_access)
                /\ Allowed(c, va, write_access) => Translation(d, va) = Translation(c, va)
<1>1. find_tlbmr(d, va) = find_tlbmr(c, va)
  <2>1. {w \in Ways : d.tlb[w].tag = va} = {w \in Ways : c.tlb[w].tag = va}
    BY DEF SameMaps
  <2> QED BY <2>1 DEF find_tlbmr
<1>2. find_tlbmr(c, va) \in Ways \cup {0}
  BY FindFacts
<1>3. ASSUME d.sr = c.sr, NEW write_access \in BOOLEAN, Allowed(c, va, write_access)
      PROVE  Translation(d, va) = Translation(c, va)
  BY <1>1, <1>2, <1>3 DEF Translation, SameMaps, Allowed
<1>4. ASSUME d.sr = c.sr, NEW write_access \in BOOLEAN
      PROVE  Allowed(d, va, write_access) <=> Allowed(c, va, write_access)
  BY <1>1, <1>2, <1>4 DEF Allowed, Permitted, SameMaps
<1> QED BY <1>1, <1>3, <1>4

-----------------------------------------------------------------------------
(* The inductive invariant.                                                *)
IndInv ==
  /\ TypeOK
  /\ Ordered(cpu)
  /\ StoreBreaksLock

(* The processor after its reset.                                          *)
LEMMA InitIndInv == Init => IndInv
<1> SUFFICES ASSUME Init PROVE IndInv
  OBVIOUS
<1>1. 0 \in Pages /\ NWays \in Nat
  BY MmuConstants
<1>2. Invalid \in Entries
  BY <1>1 DEF Invalid, Entries
<1>3. cpu.mru = 0 /\ cpu.lock = FALSE /\ cpu.pending = FALSE
  BY DEF Init
<1>4. cpu \in States
  BY <1>1, <1>2 DEF Init, States, Modes
<1>5. Ordered(cpu)
  BY <1>3 DEF Ordered
<1> QED BY <1>3, <1>4, <1>5 DEF IndInv, TypeOK, StoreBreaksLock, Init

(* The end of an instruction: what Done leaves of the state it is given.   *)
LEMMA DoneFacts ==
  ASSUME NEW c \in States, Ordered(c), NEW wrote \in Pages \cup {None},
         NEW since \in SUBSET Pages, Done(c, wrote, since)
  PROVE  /\ cpu' \in States /\ ~cpu'.pending /\ Ordered(cpu')
         /\ cpu'.lock = c.lock /\ cpu'.stalled = c.stalled
         /\ c.lock => cpu'.addr = c.addr /\ cpu'.word = c.word
         /\ last'.except = (c.pending \/ c.stalled) /\ last'.wrote = wrote
         /\ stored' \subseteq Pages
         /\ c.lock => stored' = since \cup ({wrote} \ {None})
<1>0. c.addr \in Pages /\ c.word \in BOOLEAN /\ c.lock \in BOOLEAN /\ 0 \in Pages
  BY MmuConstants DEF States
<1>1. PICK a \in Pages : a = IF c.lock THEN c.addr ELSE 0
  BY <1>0
<1>2. PICK b \in BOOLEAN : b = (c.lock => c.word)
  BY <1>0
<1>3. cpu' = [c EXCEPT !.pending = FALSE, !.addr = a, !.word = b]
  BY <1>1, <1>2 DEF Done, States
<1>4. /\ cpu' \in States /\ ~cpu'.pending /\ cpu'.lock = c.lock /\ cpu'.stalled = c.stalled
      /\ cpu'.tlb = c.tlb /\ cpu'.mru = c.mru /\ cpu'.addr = a /\ cpu'.word = b
  BY <1>3 DEF States
<1>5. c.lock => cpu'.addr = c.addr /\ cpu'.word = c.word
  BY <1>0, <1>1, <1>2, <1>4
<1>6. Ordered(cpu')
  BY <1>4 DEF Ordered
<1>7. stored' \subseteq Pages /\ (c.lock => stored' = since \cup ({wrote} \ {None}))
  BY DEF Done
<1>8. last'.except = (c.pending \/ c.stalled) /\ last'.wrote = wrote
  BY DEF Done
<1> QED BY <1>4, <1>5, <1>6, <1>7, <1>8

(* A load gives up the lock exactly with an exception.                     *)
LEMMA LoadFacts ==
  ASSUME NEW c \in States, Ordered(c), ~c.pending, ~c.stalled, NEW va \in Pages,
         NEW aligned \in BOOLEAN, NEW ok \in BOOLEAN,
         NEW d, d = eval_mem32(c, va, aligned, ok)
  PROVE  /\ d \in States /\ Ordered(d) /\ d.addr = c.addr /\ d.word = c.word
         /\ d.lock => c.lock /\ ~d.pending /\ ~d.stalled
<1> DEFINE t == translate(c, va, FALSE)
<1>1. Translated(c, va, FALSE, t)
  BY TranslateFacts, Zenon
<1>2. d = IF ~aligned THEN except_handle(c, "align")
          ELSE IF t.c.pending \/ ok THEN t.c
          ELSE except_handle(t.c, "buserr")
  BY DEF eval_mem32
<1> HIDE DEF t
<1>3. PICK tc : tc = t.c
  OBVIOUS
<1>4. /\ tc \in States /\ Ordered(tc) /\ tc.addr = c.addr /\ tc.word = c.word
      /\ tc.lock => c.lock /\ ~tc.pending /\ ~tc.stalled
  BY <1>1, <1>3 DEF Translated
<1>5. ASSUME NEW x \in States, Ordered(x), x.addr = c.addr, x.word = c.word,
             NEW e \in Errors, d = except_handle(x, e)
      PROVE  /\ d \in States /\ Ordered(d) /\ d.addr = c.addr /\ d.word = c.word
             /\ d.lock => c.lock /\ ~d.pending /\ ~d.stalled
  <2>1. /\ d \in States /\ d.tlb = x.tlb /\ d.mru = x.mru /\ d.addr = x.addr /\ d.word = x.word
        /\ d.lock = FALSE
    BY <1>5, ExceptFacts DEF Excepted
  <2> QED BY <1>5, <2>1 DEF Ordered
<1>6. "align" \in Errors /\ "buserr" \in Errors
  BY DEF Errors
<1>7. CASE ~aligned
  BY <1>2, <1>5, <1>6, <1>7
<1>8. CASE aligned /\ (tc.pending \/ ok)
  BY <1>2, <1>3, <1>4, <1>8
<1>9. CASE aligned /\ ~(tc.pending \/ ok)
  BY <1>2, <1>3, <1>4, <1>5, <1>6, <1>9
<1> QED BY <1>7, <1>8, <1>9

(* What a store does, s, from state c: it gives up the lock on the word it *)
(* writes and writes only what it may, unless the debug unit has caught    *)
(* its exception.                                                          *)
StoreDone(c, va, s) ==
  /\ s.c \in States /\ Ordered(s.c)
  /\ s.c.addr = c.addr /\ s.c.word = c.word /\ s.wrote \in Pages \cup {None}
  /\ s.c.lock => /\ c.lock /\ ~s.c.pending /\ ~s.c.stalled
                 /\ c.word => s.wrote # c.addr
  /\ s.c.pending => s.wrote = None
  /\ s.wrote # None /\ ~s.c.stalled => Allowed(c, va, TRUE) /\ s.wrote = Translation(c, va)

(* set_mem32 does what StoreDone says.                                     *)
LEMMA SetMemFacts ==
  ASSUME NEW c \in States, Ordered(c), ~c.pending, ~c.stalled, NEW va \in Pages,
         NEW aligned \in BOOLEAN, NEW ok \in BOOLEAN,
         NEW s, s = set_mem32(c, va, aligned, ok)
  PROVE  StoreDone(c, va, s)
<1> DEFINE t == translate(c, va, TRUE)
           d == [t.c EXCEPT !.lock = @ /\ ~(t.pa = c.addr /\ c.word)]
<1>1. Translated(c, va, TRUE, t)
  BY TranslateFacts, Zenon
<1>2. s = IF ~aligned THEN [c |-> except_handle(c, "align"), wrote |-> None]
          ELSE IF d.pending THEN [c |-> d, wrote |-> None]
          ELSE IF ok THEN [c |-> d, wrote |-> t.pa]
          ELSE [c |-> except_handle(d, "buserr"), wrote |-> None]
  BY DEF set_mem32
<1> HIDE DEF t
<1>3. PICK b \in BOOLEAN : b = (t.c.lock /\ ~(t.pa = c.addr /\ c.word))
  OBVIOUS
<1>4. d = [t.c EXCEPT !.lock = b]
  BY <1>1, <1>3 DEF Translated, States
<1>5. /\ d \in States /\ d.tlb = t.c.tlb /\ d.mru = t.c.mru /\ d.addr = t.c.addr
      /\ d.word = t.c.word /\ d.pending = t.c.pending /\ d.stalled = t.c.stalled /\ d.lock = b
  BY <1>1, <1>4 DEF States, Translated
<1> HIDE DEF d
<1>6. Ordered(d) /\ d.addr = c.addr /\ d.word = c.word /\ t.pa \in Pages
  BY <1>1, <1>5 DEF Ordered, Translated
<1>7. ASSUME NEW x \in States, Ordered(x), x.addr = c.addr, x.word = c.word,
             NEW e \in Errors, s = [c |-> except_handle(x, e), wrote |-> None]
      PROVE  StoreDone(c, va, s)
  <2>1. PICK y : y = except_handle(x, e)
    OBVIOUS
  <2>2. /\ y \in States /\ y.tlb = x.tlb /\ y.mru = x.mru /\ y.addr = x.addr /\ y.word = x.word
        /\ y.lock = FALSE
    BY <2>1, ExceptFacts DEF Excepted
  <2>3. s.c = y /\ s.wrote = None
    BY <1>7, <2>1
  <2>4. Ordered(y)
    BY <1>7, <2>2 DEF Ordered
  <2> QED BY <1>7, <2>2, <2>3, <2>4 DEF StoreDone
<1>8. "align" \in Errors /\ "buserr" \in Errors
  BY DEF Errors
<1>9. CASE ~aligned
  BY <1>2, <1>7, <1>8, <1>9
<1>10. CASE aligned /\ d.pending
  <2>1. s.c = d /\ s.wrote = None
    BY <1>2, <1>10
  <2>2. d.lock = FALSE
    BY <1>1, <1>3, <1>5, <1>10 DEF Translated
  <2> QED BY <1>5, <1>6, <2>1, <2>2 DEF StoreDone
<1>11. CASE aligned /\ ~d.pending /\ ok
  <2>1. s.c = d /\ s.wrote = t.pa
    BY <1>2, <1>11
  <2>2. d.lock => c.lock /\ ~d.stalled /\ (c.word => t.pa # c.addr)
    BY <1>1, <1>3, <1>5 DEF Translated
  <2>3. ~d.stalled => Allowed(c, va, TRUE) /\ t.pa = Translation(c, va)
    BY <1>1, <1>5, <1>11 DEF Translated
  <2> QED BY <1>5, <1>6, <1>11, <2>1, <2>2, <2>3 DEF StoreDone
<1>12. CASE aligned /\ ~d.pending /\ ~ok
  BY <1>2, <1>5, <1>6, <1>7, <1>8, <1>12
<1> QED BY <1>9, <1>10, <1>11, <1>12

-----------------------------------------------------------------------------
(* What every instruction does, whichever it is.                           *)
StepOK == IndInv' /\ AbortsLock /\ WritesProtected

(* An instruction that stores nothing and does not take the lock.          *)
LEMMA QuietStep ==
  ASSUME IndInv, NEW c \in States, Ordered(c), Done(c, None, stored),
         c.addr = cpu.addr, c.word = cpu.word,
         c.lock => cpu.lock /\ ~c.pending /\ ~c.stalled
  PROVE  StepOK
<1>0. stored \in SUBSET Pages /\ None \in Pages \cup {None}
  BY DEF IndInv, TypeOK
<1>1. /\ cpu' \in States /\ ~cpu'.pending /\ Ordered(cpu')
      /\ cpu'.lock = c.lock /\ (c.lock => cpu'.addr = c.addr /\ cpu'.word = c.word)
      /\ last'.except = (c.pending \/ c.stalled) /\ last'.wrote = None
      /\ stored' \subseteq Pages /\ (c.lock => stored' = stored \cup ({None} \ {None}))
  BY <1>0, DoneFacts
<1>2. StoreBreaksLock'
  BY <1>1 DEF IndInv, StoreBreaksLock
<1>3. IndInv'
  BY <1>1, <1>2 DEF IndInv, TypeOK
<1>4. AbortsLock
  BY <1>1 DEF AbortsLock
<1>5. WritesProtected
  BY <1>1 DEF WritesProtected
<1> QED BY <1>3, <1>4, <1>5 DEF StepOK

(* A store of the user's program that is allowed is to a page with user    *)
(* write permission.                                                       *)
LEMMA UserStores ==
  ASSUME NEW c \in States, NEW va \in Pages, ~c.sr.sm, Allowed(c, va, TRUE)
  PROVE  \E w \in Ways : /\ c.tlb[w].ppn = Translation(c, va)
                         /\ c.tlb[w].tag # None /\ "UW" \in c.tlb[w].attr
<1>1. c.sr.me
  BY DEF States, Modes, Kernel, User, Paged
<1>2. find_tlbmr(c, va) \in Ways /\ c.tlb[find_tlbmr(c, va)].tag = va
  BY <1>1, FindFacts DEF Allowed
<1>3. va # None
  BY MmuConstants DEF None
<1>4. "UW" \in c.tlb[find_tlbmr(c, va)].attr
  BY <1>1 DEF Allowed, Permitted
<1> QED BY <1>1, <1>2, <1>3, <1>4 DEF Translation

(* A load.                                                                 *)
LEMMA LoadStep ==
  ASSUME IndInv, NEW va \in Pages, NEW aligned \in BOOLEAN, NEW ok \in BOOLEAN,
         l_lwz(va, aligned, ok)
  PROVE  StepOK
<1>1. PICK d : d = eval_mem32(cpu, va, aligned, ok)
  OBVIOUS
<1>2. /\ d \in States /\ Ordered(d) /\ d.addr = cpu.addr /\ d.word = cpu.word
      /\ d.lock => cpu.lock /\ ~d.pending /\ ~d.stalled
  BY <1>1, LoadFacts DEF IndInv, TypeOK, l_lwz
<1>3. Done(d, None, stored)
  BY <1>1 DEF l_lwz
<1> QED BY <1>2, <1>3, QuietStep

(* A store: it breaks a lock on its word, and writes only where the TLB    *)
(* permits.                                                                *)
LEMMA StoreStep ==
  ASSUME IndInv, NEW va \in Pages, NEW aligned \in BOOLEAN, NEW ok \in BOOLEAN,
         l_sw(va, aligned, ok)
  PROVE  StepOK
<1>1. PICK s : s = set_mem32(cpu, va, aligned, ok)
  OBVIOUS
<1>2. StoreDone(cpu, va, s) /\ cpu \in States /\ stored \in SUBSET Pages
  BY <1>1, SetMemFacts DEF IndInv, TypeOK, l_sw
<1>3. Done(s.c, s.wrote, stored)
  BY <1>1 DEF l_sw
<1>4. PICK c, wrote : c = s.c /\ wrote = s.wrote
  OBVIOUS
<1>5. c \in States /\ Ordered(c) /\ wrote \in Pages \cup {None} /\ Done(c, wrote, stored)
  BY <1>2, <1>3, <1>4 DEF StoreDone
<1>6. /\ cpu' \in States /\ ~cpu'.pending /\ Ordered(cpu')
      /\ cpu'.lock = c.lock /\ cpu'.stalled = c.stalled
      /\ c.lock => cpu'.addr = c.addr /\ cpu'.word = c.word
      /\ last'.except = (c.pending \/ c.stalled) /\ last'.wrote = wrote
      /\ stored' \subseteq Pages
      /\ c.lock => stored' = stored \cup ({wrote} \ {None})
  BY <1>2, <1>5, DoneFacts
<1>7. StoreBreaksLock'
  BY <1>2, <1>4, <1>6 DEF IndInv, StoreBreaksLock, StoreDone
<1>8. IndInv'
  BY <1>6, <1>7 DEF IndInv, TypeOK
<1>9. AbortsLock
  BY <1>2, <1>4, <1>6 DEF AbortsLock, StoreDone
<1>10. WritesProtected
  <2>1. ASSUME wrote # None, ~cpu.sr.sm, ~c.stalled
        PROVE  \E w \in Ways : /\ cpu.tlb[w].ppn = wrote
                               /\ cpu.tlb[w].tag # None /\ "UW" \in cpu.tlb[w].attr
    BY <1>2, <1>4, <2>1, UserStores DEF StoreDone
  <2>2. wrote # None => ~c.pending
    BY <1>2, <1>4 DEF StoreDone
  <2> QED BY <1>6, <2>1, <2>2 DEF WritesProtected
<1> QED BY <1>8, <1>9, <1>10 DEF StepOK

(* l.lwa takes the lock and translates twice.                              *)
LEMMA LoadLinkedStep ==
  ASSUME IndInv, NEW va \in Pages, NEW aligned \in BOOLEAN, NEW ok \in BOOLEAN,
         l_lwa(va, aligned, ok)
  PROVE  StepOK
<1> DEFINE c == eval_mem32(cpu, va, aligned, ok)
           locked == [c EXCEPT !.lock = TRUE]
           u == translate(locked, va, FALSE)
           d == [u.c EXCEPT !.addr = u.pa, !.word = aligned]
<1>1. c \in States /\ Ordered(c)
  <2>1. PICK x : x = c
    OBVIOUS
  <2>2. x = eval_mem32(cpu, va, aligned, ok)
    BY <2>1
  <2>3. cpu \in States /\ Ordered(cpu) /\ ~cpu.pending /\ ~cpu.stalled
    BY DEF IndInv, TypeOK, l_lwa
  <2>4. x \in States /\ Ordered(x)
    BY <2>2, <2>3, LoadFacts
  <2> QED BY <2>1, <2>4
<1>2. Done(d, None, {})
  BY DEF l_lwa
<1> HIDE DEF c
<1>3. locked \in States /\ Ordered(locked)
  <2>1. locked \in States /\ locked.tlb = c.tlb /\ locked.mru = c.mru
    BY <1>1 DEF States
  <2> QED BY <1>1, <2>1 DEF Ordered
<1> HIDE DEF locked
<1>4. Translated(locked, va, FALSE, u)
  BY <1>3, TranslateFacts, Zenon
<1> HIDE DEF u
<1>5. d \in States /\ Ordered(d)
  <2>1. u.c \in States /\ Ordered(u.c) /\ u.pa \in Pages
    BY <1>3, <1>4 DEF Translated
  <2>2. d \in States /\ d.tlb = u.c.tlb /\ d.mru = u.c.mru
    BY <2>1 DEF States
  <2> QED BY <2>1, <2>2 DEF Ordered
<1> HIDE DEF d
<1>6. /\ cpu' \in States /\ ~cpu'.pending /\ Ordered(cpu') /\ last'.wrote = None
      /\ cpu'.lock = d.lock /\ stored' \subseteq Pages
      /\ d.lock => stored' = {} \cup ({None} \ {None})
  <2>1. {} \in SUBSET Pages /\ None \in Pages \cup {None}
    OBVIOUS
  <2> QED BY <1>2, <1>5, <2>1, DoneFacts
<1>7. IndInv'
  BY <1>6 DEF IndInv, TypeOK, StoreBreaksLock
<1>8. AbortsLock /\ WritesProtected
  BY <1>6 DEF AbortsLock, WritesProtected
<1> QED BY <1>7, <1>8 DEF StepOK

(* l.swa compares the addresses, stores through a second translation and   *)
(* gives up the lock.                                                      *)
LEMMA StoreConditionalStep ==
  ASSUME IndInv, NEW va \in Pages, NEW aligned \in BOOLEAN, NEW ok \in BOOLEAN,
         l_swa(va, aligned, ok)
  PROVE  StepOK
<1> DEFINE u == translate(cpu, va, FALSE)
           success == u.pa = cpu.addr /\ aligned = cpu.word /\ u.c.lock
           s == IF success THEN set_mem32(u.c, va, aligned, ok) ELSE [c |-> u.c, wrote |-> None]
           d == [s.c EXCEPT !.lock = FALSE]
<1>0. /\ cpu \in States /\ Ordered(cpu) /\ ~cpu.pending /\ ~cpu.stalled
      /\ stored \in SUBSET Pages
  BY DEF IndInv, TypeOK, l_swa
<1>1. Translated(cpu, va, FALSE, u)
  BY <1>0, TranslateFacts, Zenon
<1>2. Done(d, s.wrote, stored)
  BY DEF l_swa
<1> HIDE DEF u
<1>3. /\ s.c \in States /\ Ordered(s.c)
      /\ s.wrote \in Pages \cup {None}
      /\ s.c.pending => s.wrote = None
      /\ s.wrote # None /\ ~s.c.stalled =>
           Allowed(cpu, va, TRUE) /\ s.wrote = Translation(cpu, va)
  <2>0. u.c \in States /\ Ordered(u.c) /\ SameMaps(u.c, cpu)
    BY <1>0, <1>1 DEF Translated
  <2>1. CASE success
    <3>1. u.c.sr = cpu.sr /\ ~u.c.pending /\ ~u.c.stalled
      BY <1>0, <1>1, <2>1 DEF Translated
    <3>2. PICK x, y : x = u.c /\ y = s
      OBVIOUS
    <3>3. y = set_mem32(x, va, aligned, ok)
      BY <2>1, <3>2
    <3> HIDE DEF s, success
    <3>4. StoreDone(x, va, y)
      BY <2>0, <3>1, <3>2, <3>3, SetMemFacts
    <3>5. Allowed(x, va, TRUE) => Allowed(cpu, va, TRUE) /\ Translation(x, va) = Translation(cpu, va)
      <4>1. \A write_access \in BOOLEAN :
              /\ Allowed(x, va, write_access) <=> Allowed(cpu, va, write_access)
              /\ Allowed(cpu, va, write_access) => Translation(x, va) = Translation(cpu, va)
        BY <1>0, <2>0, <3>1, <3>2, SameMapsFacts
      <4> QED BY <4>1, Zenon
    <3> QED BY <3>2, <3>4, <3>5 DEF StoreDone
  <2>2. CASE ~success
    BY <2>0, <2>2
  <2> QED BY <2>1, <2>2
<1> HIDE DEF s
<1>4. /\ d \in States /\ Ordered(d) /\ d.lock = FALSE
      /\ d.pending = s.c.pending /\ d.stalled = s.c.stalled
  <2>1. /\ d \in States /\ d.tlb = s.c.tlb /\ d.mru = s.c.mru /\ d.lock = FALSE
        /\ d.pending = s.c.pending /\ d.stalled = s.c.stalled
    BY <1>3 DEF States
  <2> QED BY <1>3, <2>1 DEF Ordered
<1> HIDE DEF d
<1>5. PICK wrote : wrote = s.wrote
  OBVIOUS
<1>6. /\ cpu' \in States /\ ~cpu'.pending /\ Ordered(cpu')
      /\ cpu'.lock = FALSE /\ cpu'.stalled = d.stalled
      /\ last'.except = (d.pending \/ d.stalled) /\ last'.wrote = wrote
      /\ stored' \subseteq Pages
  <2>1. wrote \in Pages \cup {None} /\ Done(d, wrote, stored)
    BY <1>2, <1>3, <1>5
  <2> QED BY <1>0, <1>4, <2>1, DoneFacts
<1>7. IndInv'
  BY <1>6 DEF IndInv, TypeOK, StoreBreaksLock
<1>8. AbortsLock
  BY <1>6 DEF AbortsLock
<1>9. WritesProtected
  <2>1. ASSUME wrote # None, ~cpu.sr.sm, ~s.c.stalled
        PROVE  \E w \in Ways : /\ cpu.tlb[w].ppn = wrote
                               /\ cpu.tlb[w].tag # None /\ "UW" \in cpu.tlb[w].attr
    BY <1>0, <1>3, <1>5, <2>1, UserStores
  <2> QED BY <1>3, <1>4, <1>5, <1>6, <2>1 DEF WritesProtected
<1> QED BY <1>7, <1>8, <1>9 DEF StepOK

(* The operating system's writes to the TLB registers keep the order of    *)
(* the LRU fields: whichever is written, the way hit last is forgotten     *)
(* unless it still has the highest field.                                  *)
LEMMA TlbWriteStep ==
  ASSUME IndInv, NEW way \in Ways
  PROVE  /\ \A match \in Matches : mtspr_tlbmr(way, match) => StepOK
         /\ \A ppn \in Pages, attr \in Attributes : mtspr_tlbtr(way, ppn, attr) => StepOK
<1>0. /\ cpu \in States /\ ~cpu.pending /\ Ordered(cpu)
      /\ cpu.tlb \in [Ways -> Entries] /\ cpu.tlb[way] \in Entries /\ lru_reload \in Nat
      /\ cpu.mru # 0 => cpu.mru \in Ways
  BY ReloadFacts, MmuConstants DEF IndInv, TypeOK, States, Ways
<1>1. ASSUME NEW match \in Matches, mtspr_tlbmr(way, match) PROVE StepOK
  <2>1. PICK tag, lru : tag = match.tag /\ lru = match.lru
    OBVIOUS
  <2>2. tag \in Pages \cup {None} /\ lru \in 0..3
    BY <2>1, MmuConstants
  <2> DEFINE e == [cpu.tlb[way] EXCEPT !.tag = tag, !.lru = lru]
             m == IF cpu.mru = way \/ lru >= lru_reload THEN 0 ELSE cpu.mru
             c == [cpu EXCEPT !.tlb = [cpu.tlb EXCEPT ![way] = e], !.mru = m]
  <2>3. Done(c, None, stored) /\ ~cpu.stalled
    BY <1>0, <1>1, <2>1 DEF mtspr_tlbmr, States
  <2>4. e \in Entries /\ e.lru = lru
    <3> DEFINE x == [cpu.tlb[way] EXCEPT !.tag = tag]
    <3>1. x \in Entries /\ e = [x EXCEPT !.lru = lru]
      BY <1>0, <2>2 DEF Entries
    <3> HIDE DEF x, e
    <3> QED BY <2>2, <3>1 DEF Entries
  <2> HIDE DEF e
  <2>5. m \in 0..NWays /\ (m # 0 => m = cpu.mru /\ m # way /\ lru < lru_reload)
    BY <1>0, <2>2, MmuConstants DEF States
  <2> HIDE DEF m
  <2>6. /\ c \in States /\ c.tlb = [cpu.tlb EXCEPT ![way] = e] /\ c.mru = m
        /\ c.addr = cpu.addr /\ c.word = cpu.word /\ c.lock = cpu.lock
        /\ c.pending = cpu.pending /\ c.stalled = cpu.stalled
    BY <1>0, <2>4, <2>5 DEF States
  <2> HIDE DEF c
  <2>7. Ordered(c)
    BY <1>0, <2>4, <2>5, <2>6 DEF Ordered
  <2> QED BY <1>0, <2>3, <2>6, <2>7, QuietStep
<1>2. ASSUME NEW ppn \in Pages, NEW attr \in Attributes, mtspr_tlbtr(way, ppn, attr) PROVE StepOK
  <2> DEFINE e == [cpu.tlb[way] EXCEPT !.ppn = ppn, !.attr = attr]
             c == [cpu EXCEPT !.tlb = [cpu.tlb EXCEPT ![way] = e]]
  <2>1. Done(c, None, stored) /\ ~cpu.stalled
    BY <1>0, <1>2 DEF mtspr_tlbtr, States
  <2>2. e \in Entries /\ e.lru = cpu.tlb[way].lru
    BY <1>0 DEF Entries
  <2> HIDE DEF e
  <2>4. /\ c \in States /\ c.tlb = [cpu.tlb EXCEPT ![way] = e] /\ c.mru = cpu.mru
        /\ c.addr = cpu.addr /\ c.word = cpu.word /\ c.lock = cpu.lock
        /\ c.pending = cpu.pending /\ c.stalled = cpu.stalled
    BY <1>0, <2>2 DEF States
  <2> HIDE DEF c
  <2>5. \A w \in Ways : c.tlb[w].lru = cpu.tlb[w].lru
    BY <1>0, <2>2, <2>4
  <2>6. Ordered(c)
    BY <1>0, <2>4, <2>5 DEF Ordered
  <2> QED BY <1>0, <2>1, <2>4, <2>6, QuietStep
<1> QED BY <1>1, <1>2

(* Every step.                                                             *)
LEMMA NextStep ==
  ASSUME IndInv, Next
  PROVE  StepOK
<1>0. /\ cpu \in States /\ ~cpu.pending /\ Ordered(cpu)
  BY DEF IndInv, TypeOK
<1>1. ASSUME NEW va \in Pages, NEW aligned \in BOOLEAN, NEW ok \in BOOLEAN,
             \/ l_lwz(va, aligned, ok) \/ l_sw(va, aligned, ok)
             \/ l_lwa(va, aligned, ok) \/ l_swa(va, aligned, ok)
      PROVE  StepOK
  BY <1>1, LoadStep, StoreStep, LoadLinkedStep, StoreConditionalStep
<1>2. ASSUME Interrupt PROVE StepOK
  <2>1. PICK d : d = except_handle(cpu, "interrupt")
    OBVIOUS
  <2>2. Done(d, None, stored)
    BY <1>2, <2>1 DEF Interrupt
  <2>3. /\ d \in States /\ d.tlb = cpu.tlb /\ d.mru = cpu.mru /\ d.addr = cpu.addr
        /\ d.word = cpu.word /\ d.lock = FALSE
    BY <1>0, <2>1, ExceptFacts DEF Excepted
  <2>4. Ordered(d)
    BY <1>0, <2>3 DEF Ordered
  <2> QED BY <2>2, <2>3, <2>4, QuietStep
<1>3. ASSUME NEW sr \in Modes, NEW esr \in Modes, ~cpu.stalled,
             Done([cpu EXCEPT !.sr = sr, !.esr = esr], None, stored)
      PROVE  StepOK
  <2> DEFINE c == [cpu EXCEPT !.sr = sr, !.esr = esr]
  <2>1. /\ c \in States /\ c.tlb = cpu.tlb /\ c.mru = cpu.mru
        /\ c.addr = cpu.addr /\ c.word = cpu.word /\ c.lock = cpu.lock
        /\ c.pending = cpu.pending /\ c.stalled = cpu.stalled
    BY <1>0 DEF States
  <2>2. Done(c, None, stored)
    BY <1>3
  <2> HIDE DEF c
  <2>3. Ordered(c)
    BY <1>0, <2>1 DEF Ordered
  <2> QED BY <1>0, <1>3, <2>1, <2>2, <2>3, QuietStep
<1>4. ASSUME l_rfe PROVE StepOK
  <2>1. cpu.esr \in Modes /\ [cpu EXCEPT !.sr = cpu.esr] = [cpu EXCEPT !.sr = cpu.esr, !.esr = cpu.esr]
    BY <1>0 DEF States
  <2> QED BY <1>3, <1>4, <2>1 DEF l_rfe
<1>5. ASSUME NEW sr \in Modes, mtspr_sr(sr) PROVE StepOK
  BY <1>3, <1>5 DEF mtspr_sr, Modes
<1>6. ASSUME Unstall PROVE StepOK
  <2>1. /\ cpu' \in States /\ cpu'.tlb = cpu.tlb /\ cpu'.mru = cpu.mru
        /\ cpu'.addr = cpu.addr /\ cpu'.word = cpu.word /\ cpu'.lock = cpu.lock /\ ~cpu'.pending
    BY <1>0, <1>6 DEF Unstall, States
  <2>2. Ordered(cpu')
    BY <1>0, <2>1 DEF Ordered
  <2>3. IndInv'
    BY <1>6, <2>1, <2>2 DEF IndInv, TypeOK, StoreBreaksLock, Unstall
  <2>4. last'.except = FALSE /\ last'.wrote = None
    BY <1>6 DEF Unstall
  <2> QED BY <2>3, <2>4 DEF StepOK, AbortsLock, WritesProtected
<1> QED
  BY <1>1, <1>2, <1>4, <1>5, <1>6, TlbWriteStep DEF Next, Modes

(* The inductive invariant holds of every behaviour.                       *)
LEMMA IndInvHolds == Spec => []IndInv
<1>1. IndInv /\ [Next]_vars => IndInv'
  <2>1. ASSUME IndInv, UNCHANGED vars PROVE IndInv'
    BY <2>1 DEF vars, IndInv, TypeOK, StoreBreaksLock
  <2> QED BY <2>1, NextStep DEF StepOK
<1> QED BY InitIndInv, <1>1, PTL DEF Spec

-----------------------------------------------------------------------------
(* The peek of the debugger and of the cache instructions agrees with the  *)
(* translation, in every typed state.                                      *)
LEMMA PeekFacts ==
  ASSUME cpu \in States, ~cpu.pending, 
         NEW va \in Pages, NEW write_access \in BOOLEAN
  PROVE  LET t == translate([cpu EXCEPT !.stalled = FALSE], va, write_access)
         IN  peek_into_tlb(cpu, va, write_access) = IF t.c.pending \/ t.c.stalled THEN 0 ELSE t.pa
<1> DEFINE c == [cpu EXCEPT !.stalled = FALSE]
           t == translate(c, va, write_access)
<1>1. /\ c \in States /\ c.tlb = cpu.tlb /\ c.sr = cpu.sr
      /\ c.pending = FALSE /\ c.stalled = FALSE
  BY DEF States
<1> HIDE DEF c
<1>2. SameMaps(c, cpu)
  BY <1>1 DEF SameMaps
<1>3. Translated(c, va, write_access, t)
  BY <1>1, <1>2, TranslateFacts
<1>4. find_tlbmr(c, va) = find_tlbmr(cpu, va)
  BY <1>1, <1>2, SameMapsFacts
<1> HIDE DEF t
<1>5. peek_into_tlb(cpu, va, write_access) = IF t.c.pending \/ t.c.stalled THEN 0 ELSE t.pa
  <2>1. CASE Allowed(c, va, write_access)
    <3>1. t.pa = Translation(c, va) /\ ~t.c.pending /\ ~t.c.stalled
      BY <1>1, <1>3, <2>1 DEF Translated
    <3>2. peek_into_tlb(cpu, va, write_access) = Translation(c, va)
      BY <1>1, <1>4, <2>1 DEF peek_into_tlb, Translation, Allowed, Permitted
    <3> QED BY <3>1, <3>2
  <2>2. CASE ~Allowed(c, va, write_access)
    <3>1. t.c.pending \/ t.c.stalled
      BY <1>3, <2>2 DEF Translated
    <3>2. peek_into_tlb(cpu, va, write_access) = 0
      BY <1>1, <1>4, <2>2 DEF peek_into_tlb, Allowed, Permitted
    <3> QED BY <3>1, <3>2
  <2> QED BY <2>1, <2>2
<1> QED BY <1>5 DEF t, c

(* dmmu_translate and immu_translate keep the LRU fields ordered by use    *)
(* although they OR the reload value in, and peek_into_dtlb sees what a    *)
(* translation would.                                                      *)
THEOREM TranslationIsExact == Spec => []TranslationExact
<1>1. IndInv => TranslationExact
  <2> SUFFICES ASSUME IndInv PROVE TranslationExact
    OBVIOUS
  <2>1. LruOrder
    BY DEF IndInv, Ordered, LruOrder
  <2>2. PeekAgrees
    <3>1. \A va \in Pages, write_access \in BOOLEAN :
            LET t == translate([cpu EXCEPT !.stalled = FALSE], va, write_access)
            IN  peek_into_tlb(cpu, va, write_access) = IF t.c.pending \/ t.c.stalled THEN 0 ELSE t.pa
      BY PeekFacts DEF IndInv, TypeOK
    <3> QED BY <3>1 DEF PeekAgrees
  <2> QED BY <2>1, <2>2 DEF IndInv, TranslationExact
<1> QED BY <1>1, IndInvHolds, PTL

(* l.swa succeeds only if no store to the locked word and no exception     *)
(* came between it and l.lwa.                                              *)
THEOREM LockIsExact == Spec => LockExact
<1>1. IndInv => StoreBreaksLock
  BY DEF IndInv
<1>2. IndInv /\ [Next]_vars => [AbortsLock]_vars
  BY NextStep DEF StepOK
<1> QED BY <1>1, <1>2, IndInvHolds, PTL DEF Spec, LockExact, ExceptionAborts

(* A user program writes nothing but what the TLB lets it write, and a     *)
(* store whose exception is taken writes nothing.                          *)
THEOREM StoresAreProtected == Spec => Protected
<1>1. IndInv /\ [Next]_vars => [WritesProtected]_vars
  BY NextStep DEF StepOK
<1> QED BY <1>1, IndInvHolds, PTL DEF Spec, Protected

=============================================================================
