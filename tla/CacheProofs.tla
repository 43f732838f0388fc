---------------------------- MODULE CacheProofs -----------------------------
(***************************************************************************)
(* Proofs about the caches, for every number of blocks, of ways (the one   *)
(* way of the shipped configurations included) and of LRU states.          *)
(***************************************************************************)
EXTENDS Cache, TLAPS, WellFoundedInduction

Lines == [tag : Blocks \cup {None}, lru : 0 .. Newest, line : [Units -> Values]]
Caches == [Ways -> Lines]

(* There is at least one way.                                              *)
Configured == nways \in NWays

(* The facts about the constants that the proofs use.                      *)
LEMMA ConstantFacts ==
  ASSUME Configured
  PROVE  /\ nways \in Nat /\ nways > 0 /\ Newest \in Nat /\ Newest > 0
         /\ Watched \in Blocks /\ 0 \in Blocks /\ None \notin Blocks
         /\ Ways \subseteq Nat /\ 0 \notin Ways /\ 1 \in Ways
         /\ Blank \in [Units -> Values] /\ Invalid \in Lines
         /\ Invalid.tag = None /\ Invalid.lru = 0 /\ Invalid.line = Blank
<1>1. /\ nways \in Nat /\ nways > 0 /\ Newest \in Nat /\ Newest > 0
      /\ Watched \in Blocks /\ 0 \in Blocks /\ None \notin Blocks
  BY CacheConstants DEF Newest, None, Configured
<1>2. Ways \subseteq Nat /\ 0 \notin Ways /\ 1 \in Ways
  BY <1>1 DEF Ways
<1>3. Blank \in [Units -> Values]
  BY DEF Blank, Values
<1> QED BY <1>1, <1>2, <1>3 DEF Invalid, Lines

(* A search through the ways has a first and a last result.                *)
LEMMA FirstOf ==
  ASSUME NEW S, S \subseteq Nat, S # {}
  PROVE  \E x \in S : \A y \in S : x <= y
<1>1. IsWellFoundedOn(OpToRel(<, Nat), Nat)
  BY NatLessThanWellFounded
<1>2. \E x \in S : \A y \in S : ~ (<<y, x>> \in OpToRel(<, Nat))
  BY <1>1, WFMin
<1>3. PICK x \in S : \A y \in S : ~ (<<y, x>> \in OpToRel(<, Nat))
  BY <1>2
<1>4. \A y \in S : ~ (y < x)
  BY <1>3 DEF OpToRel
<1> QED BY <1>4

(* Min and Max of a set of ways are members of it.                         *)
LEMMA FirstAndLast ==
  ASSUME Configured, NEW S, S \subseteq Ways, S # {}
  PROVE  Min(S) \in S /\ Max(S) \in S
<1>0. S \subseteq Nat /\ nways \in Nat /\ \A w \in S : w <= nways
  BY ConstantFacts DEF Ways
<1>1. Min(S) \in S
  <2>1. \E x \in S : \A y \in S : x =< y
    BY <1>0, FirstOf
  <2> QED BY <2>1 DEF Min
<1>2. Max(S) \in S
  <2> DEFINE T == {nways - w : w \in S}
  <2>1. T \subseteq Nat /\ T # {}
    <3>1. PICK w \in S : TRUE
      OBVIOUS
    <3>2. \A v \in S : v \in Nat /\ nways - v \in Nat
      BY <1>0
    <3> QED BY <3>1, <3>2
  <2>2. PICK t \in T : \A y \in T : t <= y
    <3> HIDE DEF T
    <3> QED BY <2>1, FirstOf
  <2>3. PICK x \in S : t = nways - x
    BY <2>2
  <2>4. \A y \in S : x >= y
    BY <1>0, <2>2, <2>3
  <2> QED BY <2>4 DEF Max
<1> QED BY <1>1, <1>2

-----------------------------------------------------------------------------
(* What Find returns.                                                      *)
LEMMA FindFacts ==
  ASSUME Configured, NEW c, NEW b
  PROVE  /\ Find(c, b) \in Ways \cup {0}
         /\ Find(c, b) # 0 => Find(c, b) \in Ways /\ c[Find(c, b)].tag = b
         /\ Find(c, b) = 0 <=> \A w \in Ways : c[w].tag # b
<1> DEFINE hits == {w \in Ways : c[w].tag = b}
<1>1. CASE hits = {}
  BY <1>1 DEF Find
<1>2. CASE hits # {}
  <2>1. Min(hits) \in hits /\ Max(hits) \in hits
    BY <1>2, FirstAndLast
  <2>2. Find(c, b) \in hits
    BY <1>2, <2>1 DEF Find
  <2> QED BY <2>2, ConstantFacts
<1> QED BY <1>1, <1>2

(* It depends on the tags only, and finds the only way that there is.      *)
LEMMA FindSame ==
  ASSUME NEW c, NEW d, NEW b, \A w \in Ways : c[w].tag = d[w].tag
  PROVE  Find(c, b) = Find(d, b)
<1>1. {w \in Ways : c[w].tag = b} = {w \in Ways : d[w].tag = b}
  OBVIOUS
<1> QED BY <1>1 DEF Find

(* The way that a load's miss replaces is the first of the least recently  *)
(* used ones.                                                              *)
LEMMA VictimFacts ==
  ASSUME Configured, NEW c \in Caches
  PROVE  Victim(c) \in Ways /\ \A v \in Ways : c[Victim(c)].lru <= c[v].lru
<1> DEFINE S == {w \in Ways : \A v \in Ways : c[w].lru <= c[v].lru}
           L == {c[w].lru : w \in Ways}
<1>1. L \subseteq Nat /\ L # {}
  BY ConstantFacts DEF Caches, Lines, Ways
<1>2. PICK x \in L : \A y \in L : x <= y
  <2> HIDE DEF L
  <2> QED BY <1>1, FirstOf
<1>3. S # {}
  BY <1>2
<1>4. Min(S) \in S
  BY <1>3, FirstAndLast
<1> QED BY <1>4 DEF Victim

(* The ways that a refill may replace, which is not the one used last.     *)
OneNewest(c) == \A w, v \in Ways : w # v /\ c[w].lru = Newest => c[v].lru < Newest

(* Both replacement policies, that of a refill and that of a write miss,   *)
(* spare the way that was used last if there is another.                   *)
LEMMA VictimNotNewest ==
  ASSUME Configured, NEW c \in Caches, OneNewest(c)
  PROVE  /\ Victim(c) \in Ways /\ WriteVictim(c) \in Ways
         /\ nways > 1 => c[Victim(c)].lru < Newest /\ c[WriteVictim(c)].lru < Newest
<1> DEFINE old == {w \in Ways : c[w].lru < Newest}
<1>1. \A w \in Ways : c[w].lru \in Nat /\ c[w].lru <= Newest
  BY ConstantFacts DEF Caches, Lines
<1>2. Victim(c) \in Ways
  BY VictimFacts
<1>3. WriteVictim(c) \in Ways /\ (old # {} => WriteVictim(c) \in old)
  <2>1. old # {} => Max(old) \in old
    BY FirstAndLast
  <2> QED BY <2>1, ConstantFacts DEF WriteVictim
<1>4. ASSUME nways > 1 PROVE c[Victim(c)].lru < Newest /\ old # {}
  <2>1. 1 \in Ways /\ 2 \in Ways
    BY <1>4, ConstantFacts DEF Ways
  <2>2. PICK o \in Ways : c[o].lru < Newest
    BY <1>1, <2>1, ConstantFacts DEF OneNewest
  <2>3. c[Victim(c)].lru <= c[o].lru
    BY <2>2, VictimFacts
  <2>4. c[Victim(c)].lru \in Nat /\ c[o].lru \in Nat /\ Newest \in Nat
    BY <1>1, <1>2, <2>2, ConstantFacts
  <2> QED BY <2>2, <2>3, <2>4
<1> QED BY <1>2, <1>3, <1>4

-----------------------------------------------------------------------------
(* A hit changes LRU fields only, and makes the way the newest.            *)
LEMMA TouchFacts ==
  ASSUME Configured, NEW c \in Caches, NEW way \in Ways, NEW d, d = Touch(c, way)
  PROVE  /\ d \in Caches
         /\ \A w \in Ways : d[w].tag = c[w].tag /\ d[w].line = c[w].line
         /\ d[way].lru = Newest
         /\ OneNewest(c) => OneNewest(d)
<1> DEFINE L(w) == IF w = way THEN Newest
                   ELSE IF c[w].lru > c[way].lru THEN c[w].lru - 1 ELSE c[w].lru
<1>1. \A w \in Ways : c[w] \in Lines /\ c[w].lru \in 0..Newest
  BY DEF Caches, Lines
<1>2. \A w \in Ways : d[w] = [c[w] EXCEPT !.lru = L(w)]
  BY DEF Touch
<1>3. \A w \in Ways : L(w) \in 0..Newest
  BY <1>1, ConstantFacts
<1>4. \A w \in Ways : /\ d[w] \in Lines /\ d[w].tag = c[w].tag /\ d[w].line = c[w].line
                      /\ d[w].lru = L(w)
  <2> HIDE DEF L
  <2> QED BY <1>1, <1>2, <1>3 DEF Lines
<1>5. d \in Caches
  BY <1>4 DEF Touch, Caches
<1>6. ASSUME OneNewest(c) PROVE OneNewest(d)
  <2> SUFFICES ASSUME NEW w \in Ways, NEW v \in Ways, w # v, d[w].lru = Newest, d[v].lru >= Newest
               PROVE  FALSE
    BY <1>3, <1>4, ConstantFacts DEF OneNewest
  <2>1. \A x \in Ways : x # way => L(x) < Newest
    <3> SUFFICES ASSUME NEW x \in Ways, x # way PROVE L(x) < Newest
      OBVIOUS
    <3>1. c[x].lru \in 0..Newest /\ c[way].lru \in 0..Newest
      BY <1>1
    <3>2. c[x].lru = Newest => c[way].lru < Newest
      BY <1>6 DEF OneNewest
    <3> QED BY <3>1, <3>2, ConstantFacts
  <2>2. d[w].lru = L(w) /\ d[v].lru = L(v)
    BY <1>4
  <2>3. \A x \in Ways : L(x) \in Nat
    BY <1>3, ConstantFacts
  <2> HIDE DEF L
  <2> QED BY <2>1, <2>2, <2>3, ConstantFacts
<1> QED BY <1>4, <1>5, <1>6

(* A refill ages every other way.                                          *)
LEMMA AgeFacts ==
  ASSUME Configured, NEW c \in Caches, NEW way \in Ways, NEW d, d = Age(c, way)
  PROVE  /\ d \in Caches
         /\ \A w \in Ways : d[w].tag = c[w].tag /\ d[w].line = c[w].line
         /\ d[way].lru = Newest
         /\ \A w \in Ways \ {way} : d[w].lru < Newest
<1> DEFINE L(w) == IF w = way THEN Newest
                   ELSE IF c[w].lru > 0 THEN c[w].lru - 1 ELSE 0
<1>1. \A w \in Ways : c[w] \in Lines /\ c[w].lru \in 0..Newest
  BY DEF Caches, Lines
<1>2. \A w \in Ways : d[w] = [c[w] EXCEPT !.lru = L(w)]
  BY DEF Age
<1>3. \A w \in Ways : L(w) \in 0..Newest /\ (w # way => L(w) < Newest)
  BY <1>1, ConstantFacts
<1>4. \A w \in Ways : /\ d[w] \in Lines /\ d[w].tag = c[w].tag /\ d[w].line = c[w].line
                      /\ d[w].lru = L(w)
  <2> HIDE DEF L
  <2> QED BY <1>1, <1>2, <1>3 DEF Lines
<1>5. d \in Caches
  BY <1>4 DEF Age, Caches
<1> QED BY <1>3, <1>4, <1>5

(* A refill changes the tag and line of one way; if it succeeds that way   *)
(* is the newest, otherwise it is invalid.                                 *)
LEMMA RefillFacts ==
  ASSUME Configured, NEW c \in Caches, OneNewest(c), NEW way \in Ways, NEW b \in Blocks,
         NEW m \in [Units -> Values], NEW ok \in BOOLEAN, NEW d, d = Refill(c, way, b, m, ok)
  PROVE  /\ d \in Caches /\ OneNewest(d)
         /\ \A w \in Ways \ {way} : d[w].tag = c[w].tag /\ d[w].line = c[w].line
         /\ ok => /\ d[way].tag = b /\ d[way].lru = Newest
                  /\ b = Watched => d[way].line = m
         /\ ~ok => d[way].tag = None
<1> DEFINE line == IF b = Watched THEN m ELSE Blank
           a == Age(c, way)
<1>1. line \in [Units -> Values] /\ None \in Blocks \cup {None} /\ (b = Watched => line = m)
  BY ConstantFacts
<1>2. /\ a \in Caches
      /\ \A w \in Ways : a[w].tag = c[w].tag /\ a[w].line = c[w].line
      /\ a[way].lru = Newest
      /\ \A w \in Ways \ {way} : a[w].lru < Newest
  BY AgeFacts
<1> HIDE DEF line, a
<1>3. CASE ok
  <2> DEFINE e == [[a[way] EXCEPT !.tag = b] EXCEPT !.line = line]
  <2>1. d = [a EXCEPT ![way] = e]
    <3>1. d = [[a EXCEPT ![way].tag = b] EXCEPT ![way].line = line]
      BY <1>3 DEF Refill, a, line
    <3> QED BY <1>2, <3>1 DEF Caches
  <2>2. e \in Lines /\ e.tag = b /\ e.line = line /\ e.lru = Newest
    <3>1. a[way] \in Lines
      BY <1>2 DEF Caches
    <3> DEFINE f == [a[way] EXCEPT !.tag = b]
    <3>2. f \in Lines /\ f.tag = b /\ f.lru = Newest
      BY <1>2, <3>1 DEF Lines
    <3> HIDE DEF f
    <3>3. [f EXCEPT !.line = line] \in Lines /\ [f EXCEPT !.line = line].tag = b
          /\ [f EXCEPT !.line = line].lru = Newest /\ [f EXCEPT !.line = line].line = line
      BY <1>1, <3>2 DEF Lines
    <3> QED BY <3>3 DEF f
  <2> HIDE DEF e
  <2>3. d \in Caches /\ d[way] = e /\ \A w \in Ways \ {way} : d[w] = a[w]
    BY <1>2, <2>1, <2>2 DEF Caches
  <2>4. OneNewest(d)
    BY <1>2, <2>2, <2>3, ConstantFacts DEF OneNewest
  <2> QED BY <1>1, <1>2, <1>3, <2>2, <2>3, <2>4
<1>4. CASE ~ok
  <2> DEFINE f == IF kind = "ic" THEN a ELSE c
  <2>1. d = [f EXCEPT ![way] = Invalid]
    BY <1>4 DEF Refill, a
  <2>2. f \in Caches /\ OneNewest(f)
        /\ \A w \in Ways : f[w].tag = c[w].tag /\ f[w].line = c[w].line
    BY <1>2 DEF OneNewest
  <2> HIDE DEF f
  <2>3. d \in Caches /\ d[way] = Invalid /\ \A w \in Ways \ {way} : d[w] = f[w]
    BY <2>1, <2>2, ConstantFacts DEF Caches
  <2>4. OneNewest(d)
    BY <2>2, <2>3, ConstantFacts DEF OneNewest
  <2> QED BY <1>4, <2>2, <2>3, <2>4, ConstantFacts
<1> QED BY <1>3, <1>4

-----------------------------------------------------------------------------
(* NoDuplicates of any contents: no block is in two ways.                  *)
Unique(c) == \A w, v \in Ways : w # v /\ c[w].tag = c[v].tag => c[w].tag = None

(* A line that a load would hit agrees with memory m, but for units st.    *)
Coherent(c, m, st) ==
  Find(c, Watched) # 0 => \A u \in Units \ st : c[Find(c, Watched)].line[u] = m[u]

(* Block b is there and was used last; block b is there.                   *)
Newly(c, b) == \E w \in Ways : c[w].tag = b /\ c[w].lru = Newest

Holds(c, b) == \E w \in Ways : c[w].tag = b

(* One way of c is replaced, by nothing or by a block that c does not      *)
(* have, with its words as they are in memory.                             *)
LEMMA ReplaceFacts ==
  ASSUME Configured, NEW c, NEW d, NEW way \in Ways, NEW b \in Blocks, NEW m, NEW st,
         Unique(c), Coherent(c, m, st), Find(c, b) = 0,
         \A w \in Ways \ {way} : d[w].tag = c[w].tag /\ d[w].line = c[w].line,
         d[way].tag = None \/ (d[way].tag = b /\ (b = Watched => d[way].line = m))
  PROVE  Unique(d) /\ Coherent(d, m, st)
<1>1. \A w \in Ways : c[w].tag # b
  BY FindFacts
<1>2. Unique(d)
  BY <1>1 DEF Unique
<1>3. Coherent(d, m, st)
  <2> DEFINE f == Find(d, Watched)
             g == Find(c, Watched)
  <2> SUFFICES ASSUME f # 0, NEW u \in Units \ st PROVE d[f].line[u] = m[u]
    BY DEF Coherent
  <2>1. f \in Ways /\ d[f].tag = Watched
    BY FindFacts
  <2> HIDE DEF f
  <2>2. CASE f = way
    BY <2>1, <2>2, ConstantFacts
  <2>3. CASE f # way
    <3>1. c[f].tag = Watched
      BY <2>1, <2>3
    <3>2. g \in Ways /\ c[g].tag = Watched /\ g # 0
      BY <2>1, <3>1, FindFacts
    <3>3. g = f
      <4> HIDE DEF g
      <4> QED BY <2>1, <3>1, <3>2, ConstantFacts DEF Unique
    <3>4. c[g].line[u] = m[u]
      BY <3>2 DEF Coherent
    <3> QED BY <2>1, <2>3, <3>3, <3>4
  <2> QED BY <2>2, <2>3
<1> QED BY <1>2, <1>3

(* The tags and the lines decide whether a cache is coherent.              *)
LEMMA SameLines ==
  ASSUME Configured, NEW c, NEW d, NEW m, NEW st, Coherent(c, m, st),
         \A w \in Ways : d[w].tag = c[w].tag /\ d[w].line = c[w].line
  PROVE  Coherent(d, m, st)
<1>1. Find(d, Watched) = Find(c, Watched)
  BY FindSame
<1>2. Find(c, Watched) \in Ways \cup {0}
  BY FindFacts
<1> QED BY <1>1, <1>2 DEF Coherent

(* What an access through the cache leaves.                                *)
Good(c, d, b, m, st, ok) ==
  /\ d \in Caches /\ Unique(d) /\ OneNewest(d) /\ Coherent(d, m, st)
  /\ ok => Newly(d, b)
  /\ ok /\ nways > 1 => \A x \in Blocks : Newly(c, x) => Holds(d, x)

(* dc_simulate_read and ic_simulate_fetch keep a cache good, hit or miss,  *)
(* whether or not the refill succeeds.                                     *)
LEMMA ReadFacts ==
  ASSUME Configured, NEW c \in Caches, Unique(c), OneNewest(c), NEW b \in Blocks,
         NEW m \in [Units -> Values], NEW st, Coherent(c, m, st), NEW ok \in BOOLEAN
  PROVE  Good(c, dc_simulate_read(c, b, m, ok), b, m, st, ok)
<1> DEFINE way == Find(c, b)
           d == dc_simulate_read(c, b, m, ok)
<1> USE DEF Good
<1>1. CASE way # 0
  <2>1. way \in Ways /\ c[way].tag = b /\ d = Touch(c, way)
    BY <1>1, FindFacts DEF dc_simulate_read
  <2> HIDE DEF way, d
  <2>2. /\ d \in Caches /\ OneNewest(d)
        /\ \A w \in Ways : d[w].tag = c[w].tag /\ d[w].line = c[w].line
        /\ d[way].lru = Newest
    BY <2>1, TouchFacts
  <2>3. Unique(d) /\ Coherent(d, m, st)
    BY <2>2, SameLines DEF Unique
  <2>4. Newly(d, b) /\ \A x \in Blocks : Newly(c, x) => Holds(d, x)
    BY <2>1, <2>2 DEF Newly, Holds
  <2> QED BY <2>2, <2>3, <2>4 DEF d
<1>2. CASE way = 0
  <2> DEFINE v == Victim(c)
  <2>1. v \in Ways /\ (nways > 1 => c[v].lru < Newest)
    BY VictimNotNewest
  <2>2. d = Refill(c, v, b, m, ok)
    BY <1>2 DEF dc_simulate_read
  <2> HIDE DEF v, d
  <2>3. /\ d \in Caches /\ OneNewest(d)
        /\ \A w \in Ways \ {v} : d[w].tag = c[w].tag /\ d[w].line = c[w].line
        /\ ok => /\ d[v].tag = b /\ d[v].lru = Newest
                 /\ b = Watched => d[v].line = m
        /\ ~ok => d[v].tag = None
    BY <2>1, <2>2, RefillFacts
  <2>4. Unique(d) /\ Coherent(d, m, st)
    BY <1>2, <2>1, <2>3, ReplaceFacts
  <2>5. ok => Newly(d, b)
    BY <2>1, <2>3 DEF Newly
  <2>6. nways > 1 => \A x \in Blocks : Newly(c, x) => Holds(d, x)
    BY <2>1, <2>3, ConstantFacts DEF Newly, Holds
  <2> QED BY <2>3, <2>4, <2>5, <2>6 DEF d
<1> QED BY <1>1, <1>2

(* A store changes its units in memory and, on a hit, in the line; units   *)
(* that are not followed (of other blocks) are none.                       *)
LEMMA WriteFacts ==
  ASSUME Configured, NEW c \in Caches, Unique(c), OneNewest(c), NEW b \in Blocks,
         NEW us \in SUBSET Units, b = Watched \/ us = {}, NEW v \in Values,
         NEW m0 \in [Units -> Values], NEW st \in SUBSET Units, Coherent(c, m0, st),
         NEW m, m = [u \in Units |-> IF u \in us THEN v ELSE m0[u]]
  PROVE  Good(c, dc_simulate_write(c, b, us, v, m, TRUE), b, m, st \ us, TRUE)
<1> DEFINE way == Find(c, b)
           d == dc_simulate_write(c, b, us, v, m, TRUE)
<1>0. m \in [Units -> Values]
  OBVIOUS
<1>1. CASE way # 0
  <2> DEFINE t == Touch(c, way)
             l == [u \in Units |-> IF u \in us THEN v ELSE t[way].line[u]]
  <2>1. way \in Ways /\ c[way].tag = b /\ d = [t EXCEPT ![way].line = l]
    BY <1>1, FindFacts DEF dc_simulate_write
  <2>2. /\ t \in Caches /\ OneNewest(t)
        /\ \A w \in Ways : t[w].tag = c[w].tag /\ t[w].line = c[w].line
        /\ t[way].lru = Newest
    BY <2>1, TouchFacts
  <2> HIDE DEF way, d, t
  <2>3. t[way] \in Lines /\ l \in [Units -> Values]
    BY <2>1, <2>2 DEF Caches, Lines
  <2> DEFINE e == [t[way] EXCEPT !.line = l]
  <2>4. e \in Lines /\ e.tag = t[way].tag /\ e.lru = Newest /\ e.line = l
    <3> HIDE DEF l
    <3> QED BY <2>2, <2>3 DEF Lines
  <2>5. d \in Caches /\ d[way] = e /\ \A w \in Ways \ {way} : d[w] = t[w]
    <3>1. d = [t EXCEPT ![way] = e]
      BY <2>1, <2>2 DEF Caches
    <3> HIDE DEF e
    <3> QED BY <2>1, <2>2, <2>4, <3>1 DEF Caches
  <2> HIDE DEF e, l
  <2>6. \A w \in Ways : d[w].tag = c[w].tag /\ d[w].lru = t[w].lru
    BY <2>2, <2>4, <2>5
  <2>7. Unique(d) /\ OneNewest(d) /\ Newly(d, b) /\ \A x \in Blocks : Newly(c, x) => Holds(d, x)
    BY <2>1, <2>2, <2>6 DEF Unique, OneNewest, Newly, Holds
  <2>8. Coherent(d, m, st \ us)
    <3> DEFINE f == Find(d, Watched)
    <3> SUFFICES ASSUME f # 0, NEW u \in Units \ (st \ us) PROVE d[f].line[u] = m[u]
      BY DEF Coherent
    <3>1. f = Find(c, Watched) /\ f \in Ways
      BY <2>6, FindSame, FindFacts
    <3>2. u \notin us => c[f].line[u] = m0[u]
      BY <3>1 DEF Coherent
    <3> HIDE DEF f
    <3>3. CASE f = way
      <4>1. d[f].line[u] = IF u \in us THEN v ELSE c[f].line[u]
        BY <2>2, <2>4, <2>5, <3>1, <3>3 DEF l
      <4> QED BY <3>2, <4>1
    <3>4. CASE f # way
      <4>1. us = {}
        BY <3>1, <3>4 DEF f, way
      <4> QED BY <2>2, <2>5, <3>1, <3>2, <3>4, <4>1
    <3> QED BY <3>3, <3>4
  <2> QED BY <2>5, <2>7, <2>8 DEF Good, d
<1>2. CASE way = 0
  <2> DEFINE x == WriteVictim(c)
  <2>1. x \in Ways /\ (nways > 1 => c[x].lru < Newest)
    BY VictimNotNewest
  <2>2. d = Refill(c, x, b, m, TRUE)
    BY <1>2 DEF dc_simulate_write
  <2> HIDE DEF x, d
  <2>3. /\ d \in Caches /\ OneNewest(d)
        /\ \A w \in Ways \ {x} : d[w].tag = c[w].tag /\ d[w].line = c[w].line
        /\ d[x].tag = b /\ d[x].lru = Newest
        /\ b = Watched => d[x].line = m
    <3>1. PICK ok \in BOOLEAN : ok
      OBVIOUS
    <3>2. d = Refill(c, x, b, m, ok)
      BY <2>2, <3>1
    <3> DEFINE D == /\ d \in Caches /\ OneNewest(d)
                    /\ \A w \in Ways \ {x} : d[w].tag = c[w].tag /\ d[w].line = c[w].line
                    /\ ok => /\ d[x].tag = b /\ d[x].lru = Newest
                             /\ b = Watched => d[x].line = m
                    /\ ~ok => d[x].tag = None
    <3>3. D
      BY <1>0, <2>1, <3>2, RefillFacts
    <3> QED BY <3>1, <3>3
  <2>4. Coherent(c, m, st \ us)
    <3>1. CASE us = {}
      <4>1. m = m0 /\ st \ us = st
        BY <3>1
      <4> QED BY <4>1
    <3>2. CASE b = Watched
      BY <1>2, <3>2 DEF Coherent
    <3> QED BY <3>1, <3>2
  <2>5. Unique(d) /\ Coherent(d, m, st \ us)
    BY <1>2, <2>1, <2>3, <2>4, ReplaceFacts
  <2>6. Newly(d, b) /\ (nways > 1 => \A y \in Blocks : Newly(c, y) => Holds(d, y))
    BY <2>1, <2>3, ConstantFacts DEF Newly, Holds
  <2> QED BY <2>3, <2>5, <2>6 DEF Good, d
<1> QED BY <1>1, <1>2

(* dc_inv and ic_inv: the ways that remain are as they were, and none of   *)
(* them has the block.                                                     *)
LEMMA InvFacts ==
  ASSUME Configured, NEW c \in Caches, NEW b \in Blocks, enabled => Unique(c), OneNewest(c),
         kind \in {"dc", "ic"}, NEW d, d = dc_inv(c, b)
  PROVE  /\ d \in Caches /\ Unique(d) /\ OneNewest(d)
         /\ \A w \in Ways : /\ d[w].tag # b /\ d[w].line = c[w].line
                            /\ d[w].tag \in {c[w].tag, None}
<1> DEFINE way == Find(c, b)
           Cleared(w) == \/ ~enabled
                         \/ kind = "dc" /\ w = way
                         \/ kind = "ic" /\ c[w].tag = b
<1>1. \A w \in Ways : c[w] \in Lines
  BY DEF Caches
<1>2. \A w \in Ways : d[w] = IF Cleared(w) THEN [c[w] EXCEPT !.tag = None, !.lru = 0] ELSE c[w]
  BY DEF dc_inv
<1>3. \A w \in Ways : enabled /\ c[w].tag = b => Cleared(w)
  <2> SUFFICES ASSUME NEW w \in Ways, enabled, c[w].tag = b, kind = "dc" PROVE w = way
    OBVIOUS
  <2>1. way \in Ways /\ c[way].tag = b
    BY FindFacts
  <2> HIDE DEF way
  <2> QED BY <2>1, ConstantFacts DEF Unique
<1> HIDE DEF Cleared
<1>4. \A w \in Ways : ~enabled => Cleared(w)
  BY DEF Cleared
<1>5. ASSUME NEW w \in Ways, NEW x, x = [c[w] EXCEPT !.tag = None, !.lru = 0]
      PROVE  x \in Lines /\ x.tag = None /\ x.lru = 0 /\ x.line = c[w].line
  <2> DEFINE y == [c[w] EXCEPT !.tag = None]
  <2>1. y \in Lines /\ y.tag = None /\ y.line = c[w].line /\ x = [y EXCEPT !.lru = 0]
    BY <1>1, <1>5, ConstantFacts DEF Lines
  <2> HIDE DEF y
  <2> QED BY <2>1, ConstantFacts DEF Lines
<1>6. \A w \in Ways :
        /\ d[w] \in Lines /\ d[w].line = c[w].line
        /\ Cleared(w) => d[w].tag = None /\ d[w].lru = 0
        /\ ~Cleared(w) => d[w] = c[w]
  BY <1>1, <1>2, <1>5
<1>7. d \in Caches
  BY <1>6 DEF Caches, dc_inv
<1>8. \A w \in Ways : d[w].tag # b /\ d[w].tag \in {c[w].tag, None}
  BY <1>3, <1>4, <1>6, ConstantFacts
<1>9. Unique(d)
  BY <1>4, <1>6 DEF Unique
<1>10. OneNewest(d)
  <2> SUFFICES ASSUME NEW w \in Ways, NEW v \in Ways, w # v, d[w].lru = Newest
               PROVE  d[v].lru < Newest
    BY DEF OneNewest
  <2>1. ~Cleared(w) /\ c[w].lru = Newest
    BY <1>6, ConstantFacts
  <2>2. c[v].lru < Newest
    BY <2>1 DEF OneNewest
  <2> QED BY <1>6, <2>2, ConstantFacts
<1> QED BY <1>6, <1>7, <1>8, <1>9, <1>10

-----------------------------------------------------------------------------
(* The inductive invariant. An enabled cache has been flushed (the program *)
(* invalidates it first), without which NoDuplicates says nothing;         *)
(* OneNewest is what makes the victim another way than the newest; the     *)
(* last conjunct ties the history mru to the LRU fields.                   *)
IndInv ==
  /\ TypeOK
  /\ enabled => flushed
  /\ NoDuplicates
  /\ OneNewest(cache)
  /\ Coherent(cache, mem, stale)
  /\ mru # None => Newly(cache, mru)

(* What Becomes makes of a cache c and a memory m that agree but for units *)
(* us.                                                                     *)
LEMMA BecomesFacts ==
  ASSUME Configured, NEW c \in Caches, NEW m \in [Units -> Values], NEW us \in SUBSET Units,
         OneNewest(c), Coherent(c, m, us), Becomes(c, m, us), UNCHANGED <<kind, nways>>
  PROVE  /\ cache' \in Caches /\ mem' = m /\ stale' \subseteq Units
         /\ \A w \in Ways : cache'[w].tag = c[w].tag /\ cache'[w].lru = c[w].lru
         /\ OneNewest(cache')
         /\ Coherent(cache, mem, stale)'
<1> DEFINE d == Followed(c)
           way == Find(d, Watched)
<1>1. cache' = d /\ mem' = m /\ stale' = {u \in us : way # 0 /\ d[way].line[u] # m[u]}
  BY DEF Becomes
<1>2. \A w \in Ways : /\ d[w] \in Lines /\ d[w].tag = c[w].tag /\ d[w].lru = c[w].lru
                      /\ c[w].tag = Watched => d[w] = c[w]
  <2> SUFFICES ASSUME NEW w \in Ways
               PROVE  /\ d[w] \in Lines /\ d[w].tag = c[w].tag /\ d[w].lru = c[w].lru
                      /\ c[w].tag = Watched => d[w] = c[w]
    OBVIOUS
  <2>1. d[w] = IF c[w].tag = Watched THEN c[w] ELSE [c[w] EXCEPT !.line = Blank]
    BY DEF Followed
  <2>2. c[w] \in Lines
    BY DEF Caches
  <2> HIDE DEF d
  <2> QED BY <2>1, <2>2, ConstantFacts DEF Lines
<1>3. d \in Caches
  BY <1>2 DEF Caches, Followed
<1>4. way = Find(c, Watched)
  BY <1>2, FindSame
<1>5. way # 0 => way \in Ways /\ d[way] = c[way]
  BY <1>2, <1>4, FindFacts
<1> HIDE DEF d, way
<1>6. OneNewest(cache')
  BY <1>1, <1>2 DEF OneNewest
<1>7. Find(cache, Watched)' = way
  BY <1>1 DEF way, Find, Ways
<1>8. Coherent(cache, mem, stale)'
  <2> SUFFICES ASSUME way # 0, NEW u \in Units \ stale' PROVE d[way].line[u] = m[u]
    BY <1>1, <1>7 DEF Coherent
  <2>1. CASE u \in us
    BY <1>1, <2>1
  <2>2. CASE u \notin us
    BY <1>4, <1>5, <2>2 DEF Coherent
  <2> QED BY <2>1, <2>2
<1> QED BY <1>1, <1>2, <1>3, <1>6, <1>8

(* A store's units, of the pieces of the watched block or of none.         *)
LEMMA PieceFacts ==
  ASSUME NEW b \in Blocks, NEW us \in Pieces(b)
  PROVE  us \in SUBSET Units /\ (b = Watched \/ us = {})
BY DEF Pieces, Words, Units

(* A write leaves words in memory.                                         *)
LEMMA WrittenFacts ==
  ASSUME NEW us \in SUBSET Units, NEW v \in Values, TypeOK
  PROVE  Written(us, v) \in [Units -> Values]
BY DEF Written, TypeOK

(* Memory changes behind a cache that stays as it is.                      *)
LEMMA BehindFacts ==
  ASSUME TypeOK, Coherent(cache, mem, stale), NEW us \in SUBSET Units, NEW v \in Values
  PROVE  Coherent(cache, Written(us, v), stale \cup us)
BY DEF Coherent, Written

(* A cache after its reset, disabled and not flushed.                      *)
LEMMA InitIndInv == Init => IndInv
<1> SUFFICES ASSUME Init PROVE IndInv
  OBVIOUS
<1>0. Configured
  BY DEF Init, Configured
<1> DEFINE e == IF kind = "dc" THEN [Invalid EXCEPT !.tag = 0] ELSE Invalid
<1>1. e \in Lines /\ e.lru = 0 /\ e.line = Blank /\ (kind = "ic" => e.tag = None)
  <2>1. CASE kind = "ic"
    BY <1>0, <2>1, ConstantFacts
  <2>2. CASE kind = "dc"
    BY <1>0, <2>2, ConstantFacts DEF Lines
  <2> QED BY <2>1, <2>2 DEF Init
<1>2. cache = [w \in Ways |-> e]
  BY DEF Init
<1> HIDE DEF e
<1>3. cache \in Caches /\ \A w \in Ways : cache[w].lru = 0 /\ cache[w].line = Blank
  BY <1>1, <1>2 DEF Caches
<1>4. TypeOK
  BY <1>0, <1>3, ConstantFacts DEF TypeOK, Init, Caches, Lines
<1>5. OneNewest(cache)
  BY <1>0, <1>3, ConstantFacts DEF OneNewest
<1>6. Coherent(cache, mem, stale)
  <2>1. Find(cache, Watched) # 0 => Find(cache, Watched) \in Ways
    BY <1>0, FindFacts
  <2> QED BY <1>3, <2>1 DEF Coherent, Init
<1>7. NoDuplicates
  BY <1>1, <1>2 DEF NoDuplicates, Init
<1> QED BY <1>4, <1>5, <1>6, <1>7 DEF IndInv, Init

-----------------------------------------------------------------------------
(* What has to be shown of every step.                                     *)
StepOK == IndInv' /\ KeepsLast

(* A step that leaves contents which are good is good.                     *)
LEMMA Conclude ==
  ASSUME IndInv, NEW c \in Caches, NEW m \in [Units -> Values], NEW us \in SUBSET Units,
         OneNewest(c), Coherent(c, m, us), Becomes(c, m, us), UNCHANGED <<kind, nways>>,
         enabled' = enabled, flushed' \in BOOLEAN, flushed => flushed', flushed' => Unique(c),
         mru' \in Blocks \cup {None}, mru' # None => Newly(c, mru'),
         nways > 1 /\ mru # None /\ mru' # None /\ enabled => Holds(c, mru)
  PROVE  StepOK
<1>0. Configured
  BY DEF IndInv, TypeOK, Configured
<1>1. /\ cache' \in Caches /\ mem' = m /\ stale' \subseteq Units
      /\ \A w \in Ways : cache'[w].tag = c[w].tag /\ cache'[w].lru = c[w].lru
      /\ OneNewest(cache')
      /\ Coherent(cache, mem, stale)'
  BY <1>0, BecomesFacts
<1>2. TypeOK'
  BY <1>1 DEF Ways, IndInv, TypeOK, Caches, Lines
<1>3. OneNewest(cache)'
  BY <1>1 DEF Ways, OneNewest
<1>4. NoDuplicates'
  BY <1>1 DEF Ways, NoDuplicates, Unique
<1>5. (mru # None => Newly(cache, mru))'
  BY <1>1 DEF Ways, Newly
<1>6. KeepsLast
  BY <1>1 DEF KeepsLast, Holds
<1> QED BY <1>1, <1>2, <1>3, <1>4, <1>5, <1>6 DEF IndInv, StepOK

(* The invariant, in the terms of the facts above.                         *)
LEMMA IndInvFacts ==
  ASSUME IndInv
  PROVE  /\ Configured /\ cache \in Caches /\ mem \in [Units -> Values] /\ stale \in SUBSET Units
         /\ mru \in Blocks \cup {None} /\ flushed \in BOOLEAN /\ enabled \in BOOLEAN
         /\ kind \in {"dc", "ic"} /\ TypeOK
         /\ OneNewest(cache) /\ Coherent(cache, mem, stale)
         /\ flushed => Unique(cache)
         /\ enabled => flushed
         /\ mru # None => Newly(cache, mru) /\ Holds(cache, mru)
BY DEF IndInv, TypeOK, Configured, Caches, Lines, NoDuplicates, Unique, Newly, Holds

(* A step that only enables or disables the cache.                         *)
LEMMA SameStep ==
  ASSUME IndInv, UNCHANGED <<kind, nways, cache, mem, flushed, stale, mru>>,
         enabled' \in BOOLEAN, enabled' => flushed
  PROVE  StepOK
<1>1. TypeOK'
  BY DEF Ways, IndInv, TypeOK
<1>2. Coherent(cache, mem, stale)'
  BY DEF Ways, IndInv, Coherent, Find
<1>3. OneNewest(cache)' /\ NoDuplicates' /\ (mru # None => Newly(cache, mru))'
  BY DEF Ways, IndInv, OneNewest, NoDuplicates, Newly
<1>4. KeepsLast
  BY DEF IndInv, KeepsLast, Newly
<1> QED BY <1>1, <1>2, <1>3, <1>4 DEF IndInv, StepOK

(* A load or a fetch, through the cache or around it.                      *)
LEMMA ReadStep ==
  ASSUME IndInv, NEW b \in Blocks, NEW ci \in BOOLEAN, NEW ok \in BOOLEAN, Read(b, ci, ok)
  PROVE  StepOK
<1>1. CASE Used(ci)
  <2> DEFINE c == dc_simulate_read(cache, b, mem, ok)
  <2>1. enabled /\ flushed
    BY <1>1, IndInvFacts DEF Used
  <2>2. Good(cache, c, b, mem, stale, ok)
    BY <2>1, IndInvFacts, ReadFacts
  <2>3. Becomes(c, mem, stale) /\ mru' = IF ok THEN b ELSE None
    BY <1>1 DEF Read
  <2> HIDE DEF c
  <2>4. /\ c \in Caches /\ OneNewest(c) /\ Unique(c) /\ Coherent(c, mem, stale)
        /\ mru' # None => Newly(c, mru')
        /\ nways > 1 /\ mru # None /\ mru' # None => Holds(c, mru)
    BY <2>2, <2>3, IndInvFacts DEF Good
  <2> QED BY <2>1, <2>3, <2>4, IndInvFacts, Conclude DEF Read
<1>2. CASE ~Used(ci)
  BY <1>2, IndInvFacts, SameStep DEF Read
<1> QED BY <1>1, <1>2

(* Memory is written behind the cache.                                     *)
LEMMA BehindStep ==
  ASSUME IndInv, NEW us \in SUBSET Units, NEW v \in Values,
         Becomes(cache, Written(us, v), stale \cup us),
         UNCHANGED <<kind, nways, enabled, flushed, mru>>
  PROVE  StepOK
<1>1. /\ Written(us, v) \in [Units -> Values] /\ stale \cup us \in SUBSET Units
      /\ Coherent(cache, Written(us, v), stale \cup us)
  BY IndInvFacts, WrittenFacts, BehindFacts
<1> QED BY <1>1, IndInvFacts, Conclude

(* A store: dc_simulate_write, or around the cache.                        *)
LEMMA WriteStep ==
  ASSUME IndInv, NEW b \in Blocks, NEW us \in Pieces(b), NEW v \in Values,
         NEW ci \in BOOLEAN, NEW ok \in BOOLEAN, Write(b, us, v, ci, ok)
  PROVE  StepOK
<1>0. us \in SUBSET Units /\ (b = Watched \/ us = {})
  BY PieceFacts
<1>1. CASE ok /\ Used(ci)
  <2> DEFINE m == Written(us, v)
             c == dc_simulate_write(cache, b, us, v, m, TRUE)
  <2>1. enabled /\ flushed
    BY <1>1, IndInvFacts DEF Used
  <2>2. m \in [Units -> Values] /\ m = [u \in Units |-> IF u \in us THEN v ELSE mem[u]]
    BY <1>0, IndInvFacts, WrittenFacts DEF Written
  <2>3. Becomes(c, m, stale \ us) /\ mru' = b
    BY <1>1 DEF Write
  <2> HIDE DEF m
  <2>4. Good(cache, c, b, m, stale \ us, TRUE)
    <3>1. cache \in Caches /\ Unique(cache) /\ OneNewest(cache) /\ mem \in [Units -> Values]
          /\ stale \in SUBSET Units /\ Coherent(cache, mem, stale)
      BY <2>1, IndInvFacts
    <3> QED BY <1>0, <2>2, <3>1, IndInvFacts, WriteFacts
  <2> HIDE DEF c
  <2>5. /\ c \in Caches /\ OneNewest(c) /\ Unique(c) /\ Coherent(c, m, stale \ us)
        /\ Newly(c, mru') /\ (nways > 1 /\ mru # None => Holds(c, mru))
    BY <2>3, <2>4, IndInvFacts DEF Good
  <2>6. stale \ us \in SUBSET Units
    BY IndInvFacts
  <2> QED BY <2>1, <2>2, <2>3, <2>5, <2>6, IndInvFacts, Conclude DEF Write
<1>2. CASE ok /\ ~Used(ci)
  BY <1>0, <1>2, BehindStep DEF Write
<1>3. CASE ~ok
  BY <1>3, IndInvFacts, SameStep DEF Write
<1> QED BY <1>1, <1>2, <1>3

(* After an invalidation of the watched block it is not in the cache; one  *)
(* of another block leaves the lines alone.                                *)
LEMMA InvStep ==
  ASSUME IndInv, NEW b \in Blocks, NEW m \in [Units -> Values],
         b = Watched \/ m = mem, Becomes(dc_inv(cache, b), m, stale),
         flushed' = (flushed \/ ~enabled), mru' = None, UNCHANGED <<kind, nways, enabled>>
  PROVE  StepOK
<1> DEFINE d == dc_inv(cache, b)
<1>1. /\ d \in Caches /\ Unique(d) /\ OneNewest(d)
      /\ \A w \in Ways : /\ d[w].tag # b /\ d[w].line = cache[w].line
                         /\ d[w].tag \in {cache[w].tag, None}
  BY IndInvFacts, InvFacts
<1> HIDE DEF d
<1>2. Coherent(d, m, stale)
  <2> DEFINE f == Find(d, Watched)
             g == Find(cache, Watched)
  <2> SUFFICES ASSUME f # 0, NEW u \in Units \ stale PROVE d[f].line[u] = m[u]
    BY DEF Coherent
  <2>1. f \in Ways /\ d[f].tag = Watched
    BY IndInvFacts, FindFacts
  <2>2. b # Watched /\ m = mem /\ cache[f].tag = Watched
    BY <1>1, <2>1, IndInvFacts, ConstantFacts
  <2>3. enabled
    <3> SUFFICES ASSUME ~enabled PROVE FALSE
      BY IndInvFacts
    <3>1. \A w \in Ways : d[w] = [cache[w] EXCEPT !.tag = None, !.lru = 0]
      BY DEF d, dc_inv
    <3>2. d[f] = [cache[f] EXCEPT !.tag = None, !.lru = 0] /\ cache[f] \in Lines
      BY <2>1, <3>1, IndInvFacts DEF Caches
    <3>3. d[f].tag = None
      BY <3>2 DEF Lines
    <3> QED BY <2>1, <3>3, IndInvFacts, ConstantFacts
  <2>4. g \in Ways /\ cache[g].tag = Watched /\ g # 0
    BY <2>1, <2>2, IndInvFacts, FindFacts
  <2> HIDE DEF f
  <2>5. g = f
    <3> HIDE DEF g
    <3> QED BY <2>1, <2>2, <2>3, <2>4, IndInvFacts, ConstantFacts DEF Unique
  <2>6. cache[g].line[u] = mem[u]
    BY <2>4, IndInvFacts DEF Coherent
  <2> QED BY <1>1, <2>1, <2>2, <2>5, <2>6
<1> QED BY <1>1, <1>2, IndInvFacts, Conclude DEF d

(* Every step keeps the inductive invariant and the block of the last      *)
(* access.                                                                 *)
LEMMA NextStep ==
  ASSUME IndInv, Next
  PROVE  StepOK
<1>1. ASSUME NEW b \in Blocks, NEW ci \in BOOLEAN, NEW ok \in BOOLEAN, Read(b, ci, ok)
      PROVE  StepOK
  BY <1>1, ReadStep
<1>2. ASSUME NEW b \in Blocks, NEW us \in Pieces(b), NEW v \in Values,
             NEW ci \in BOOLEAN, NEW ok \in BOOLEAN, Write(b, us, v, ci, ok)
      PROVE  StepOK
  BY <1>2, WriteStep
<1>3. ASSUME NEW us \in Pieces(Watched), NEW v \in Values, WriteBehind(us, v)
      PROVE  StepOK
  <2>1. us \in SUBSET Units
    BY IndInvFacts, ConstantFacts, PieceFacts
  <2> QED BY <1>3, <2>1, BehindStep DEF WriteBehind
<1>4. ASSUME NEW b \in Blocks, Invalidate(b)
      PROVE  StepOK
  BY <1>4, IndInvFacts, InvStep DEF Invalidate
<1>5. ASSUME NEW u \in Units, NEW v \in Values, rsp_write_mem(u, v)
      PROVE  StepOK
  <2>1. Written({u}, v) \in [Units -> Values]
    BY IndInvFacts, WrittenFacts
  <2> QED BY <1>5, <2>1, IndInvFacts, ConstantFacts, InvStep DEF rsp_write_mem
<1>6. CASE mtspr_SR
  BY <1>6, IndInvFacts, SameStep DEF mtspr_SR
<1> QED BY <1>1, <1>2, <1>3, <1>4, <1>5, <1>6 DEF Next

(* Nothing happens.                                                        *)
LEMMA StutterStep ==
  ASSUME IndInv, UNCHANGED vars
  PROVE  StepOK
BY IndInvFacts, SameStep DEF vars

(* The inductive invariant holds of every behaviour.                       *)
LEMMA IndInvHolds == Spec => []IndInv
<1>1. IndInv /\ [Next]_vars => IndInv'
  BY NextStep, StutterStep DEF StepOK
<1> QED BY <1>1, InitIndInv, PTL DEF Spec

(* A load finds the watched block in the way that it touches or refills.   *)
LEMMA IndInvLoads ==
  ASSUME IndInv
  PROVE  CacheExact
<1> DEFINE c == dc_simulate_read(cache, Watched, mem, TRUE)
<1> SUFFICES ASSUME enabled, NEW u \in Units \ stale
             PROVE  c[Find(c, Watched)].line[u] = mem[u]
  BY DEF IndInv, CacheExact, LoadExact
<1>1. PICK ok \in BOOLEAN : ok
  OBVIOUS
<1>2. c = dc_simulate_read(cache, Watched, mem, ok)
  BY <1>1
<1> HIDE DEF c
<1>3. Good(cache, c, Watched, mem, stale, ok)
  BY <1>2, IndInvFacts, ConstantFacts, ReadFacts
<1>4. Coherent(c, mem, stale) /\ Newly(c, Watched)
  BY <1>1, <1>3 DEF Good
<1>5. Find(c, Watched) # 0
  BY <1>4, IndInvFacts, FindFacts DEF Newly
<1> QED BY <1>4, <1>5 DEF Coherent

(* The caches are transparent: no block is in two ways of a set that       *)
(* software has invalidated, the LRU counters stay in range, and a load    *)
(* gets what is in memory except for what was written behind the cache.    *)
THEOREM CacheIsExact == Spec => []CacheExact
BY IndInvHolds, IndInvLoads, PTL

(* Of two blocks in turn neither replaces the other in a cache of more     *)
(* than one way: dc_simulate_read, ic_simulate_fetch and dc_simulate_write *)
(* never choose the way of the last access as their victim.                *)
THEOREM LastIsKept == Spec => LastKept
<1>1. IndInv /\ [Next]_vars => [KeepsLast]_vars
  BY NextStep DEF StepOK
<1> QED BY <1>1, IndInvHolds, PTL DEF Spec, LastKept

=============================================================================
