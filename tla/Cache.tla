-------------------------------- MODULE Cache -------------------------------
(***************************************************************************)
(* The data cache (cache/dcache-model.c, write through, allocating on      *)
(* reads and writes) and the instruction cache (cache/icache-model.c),     *)
(* with the accesses that go around them: cache inhibited ones, those made *)
(* while SR[DCE] or SR[ICE] is off, those of devices, and the debugger's.  *)
(*                                                                         *)
(* One set is modelled, for sets do not interact, and one cache at a time. *)
(* Data are followed for one block, Watched: both halves of one word, 0    *)
(* and 1, and another word, 2.  A 32-bit access is to a word, a narrower   *)
(* one to a half.  A refill fails on a block that is in no memory area:    *)
(* areas are larger than blocks.                                           *)
(***************************************************************************)
EXTENDS Integers, FiniteSetsExt

CONSTANTS
  Blocks, Watched,
  NWays,           \* the values of config.dc.nways, ic->nways
  UStates          \* config.dc.ustates, ic->ustates

ASSUME CacheConstants ==
  /\ Watched \in Blocks /\ Blocks \subseteq Nat /\ 0 \in Blocks
  /\ NWays \subseteq Nat \ {0} /\ UStates \in Nat \ {0, 1}

VARIABLES
  kind,            \* "dc" or "ic"
  nways,           \* the number of ways, 1 in the configurations that are shipped
  enabled,         \* SR[DCE], SR[ICE]
  cache,           \* tag, lru and line of the ways
  mem,             \* the words of Watched in memory
  flushed,         \* history: software has invalidated the set, or need not
  stale,           \* history: units of Watched changed behind the cache
  mru              \* history: the block of the last access through the cache

vars == <<kind, nways, enabled, cache, mem, flushed, stale, mru>>

Ways == 1 .. nways
None == -1                           \* the tag of an invalid way
Units == 0 .. 2
Words == {{0, 1}, {2}}
Values == {0, 1}
Blank == [u \in Units |-> 0]
Invalid == [tag |-> None, lru |-> 0, line |-> Blank]
Newest == UStates - 1

(* The data cache is all zeros, which is tag 0 in every way; the           *)
(* instruction cache has invalid tags.                                     *)
Init ==
  /\ kind \in {"dc", "ic"} /\ nways \in NWays
  /\ enabled = FALSE
  /\ cache = [w \in Ways |-> IF kind = "dc" THEN [Invalid EXCEPT !.tag = 0] ELSE Invalid]
  /\ mem = Blank
  /\ flushed = (kind = "ic")
  /\ stale = {}
  /\ mru = None

-----------------------------------------------------------------------------
(* Operators on a cache c.                                                 *)

(* The way with a block, 0 if there is none: the last, or the first.       *)
Find(c, b) ==
  LET hits == {w \in Ways : c[w].tag = b}
  IN  IF hits = {} THEN 0 ELSE IF kind = "dc" THEN Max(hits) ELSE Min(hits)

(* A hit: younger ways age by one.                                         *)
Touch(c, way) ==
  [w \in Ways |-> [c[w] EXCEPT !.lru = IF w = way THEN Newest
                                       ELSE IF @ > c[way].lru THEN @ - 1 ELSE @]]

(* Faulty variant: always the first way.                                   *)
Victim_first(c) == 1

(* The first of the least recently used ways.                              *)
Victim(c) ==
  Min({w \in Ways : \A v \in Ways : c[w].lru <= c[v].lru})

(* dc_simulate_write does not keep the minimum as it looks for it: the     *)
(* last way that is not the newest.                                        *)
WriteVictim(c) ==
  LET old == {w \in Ways : c[w].lru < Newest}
  IN  IF old = {} THEN 1 ELSE Max(old)

(* A refill: every other way ages by one.                                  *)
Age(c, way) ==
  [w \in Ways |-> [c[w] EXCEPT !.lru = IF w = way THEN Newest ELSE IF @ > 0 THEN @ - 1 ELSE 0]]

(* A refill from memory m of a way with block b, or its failure (ok is     *)
(* false).  The instruction cache has aged its ways before it fails.       *)
Refill(c, way, b, m, ok) ==
  LET line == IF b = Watched THEN m ELSE Blank
  IN  IF ok THEN [Age(c, way) EXCEPT ![way].tag = b, ![way].line = line]
      ELSE [(IF kind = "ic" THEN Age(c, way) ELSE c) EXCEPT ![way] = Invalid]

(* dc_simulate_read and ic_simulate_fetch with the cache in use.           *)
dc_simulate_read(c, b, m, ok) ==
  LET way == Find(c, b)
  IN  IF way # 0 THEN Touch(c, way) ELSE Refill(c, Victim(c), b, m, ok)

(* Faulty variant: the word in the line is not changed.                    *)
dc_simulate_write_through(c, b, us, v, m, ok) ==
  LET way == Find(c, b)
  IN  IF way # 0 THEN Touch(c, way) ELSE Refill(c, WriteVictim(c), b, m, ok)

(* dc_simulate_write with the cache in use, after m has been written.      *)
dc_simulate_write(c, b, us, v, m, ok) ==
  LET way == Find(c, b)
  IN  IF way # 0
      THEN [Touch(c, way) EXCEPT ![way].line =
              [u \in Units |-> IF u \in us THEN v ELSE @[u]]]
      ELSE Refill(c, WriteVictim(c), b, m, ok)

(* Faulty variant: with the cache off, too, only the block's way.          *)
dc_inv_way(c, b) ==
  LET way == Find(c, b)
  IN  IF way # 0 THEN [c EXCEPT ![way] = Invalid] ELSE c

(* dc_inv and ic_inv.  While the cache is off the whole set is cleared;    *)
(* dc_inv clears one way with the block, ic_inv all of them.               *)
dc_inv(c, b) ==
  LET way == Find(c, b)
  IN  IF ~enabled THEN [w \in Ways |-> [c[w] EXCEPT !.tag = None, !.lru = 0]]
      ELSE [w \in Ways |-> IF (kind = "dc" /\ w = way) \/ (kind = "ic" /\ c[w].tag = b)
                           THEN [c[w] EXCEPT !.tag = None, !.lru = 0] ELSE c[w]]

-----------------------------------------------------------------------------
(* The lines of ways that do not hold Watched are not followed.            *)
Followed(c) == [w \in Ways |-> IF c[w].tag = Watched THEN c[w] ELSE [c[w] EXCEPT !.line = Blank]]

(* The new cache c and memory m; of the units us, written behind the cache *)
(* or left stale, those of a cached Watched that differ now are stale.     *)
Becomes(c, m, us) ==
  LET d == Followed(c)
      way == Find(d, Watched)
  IN  /\ cache' = d
      /\ mem' = m
      /\ stale' = {u \in us : way # 0 /\ d[way].line[u] # m[u]}

(* The pieces of a block that an access may write, if they are followed.   *)
Pieces(b) == IF b = Watched THEN Words \cup {{u} : u \in Units} ELSE {{}}

Written(us, v) == [u \in Units |-> IF u \in us THEN v ELSE mem[u]]

(* The caches are used by an access that is not cache inhibited (ci).      *)
Used(ci) == enabled /\ ~ci

(* A load, a fetch, or a write to DCBPR or ICBPR.  The value is a line's   *)
(* or memory's: see LoadExact.                                             *)
Read(b, ci, ok) ==
  /\ IF Used(ci)
     THEN /\ Becomes(dc_simulate_read(cache, b, mem, ok), mem, stale)
          /\ mru' = IF ok THEN b ELSE None
     ELSE UNCHANGED <<cache, mem, stale, mru>>
  /\ UNCHANGED <<kind, nways, enabled, flushed>>

(* A store: memory first, and only that if the cache is not used.  A bus   *)
(* error leaves everything alone.                                          *)
Write(b, us, v, ci, ok) ==
  /\ kind = "dc"
  /\ CASE ok /\ Used(ci) ->
            /\ Becomes(dc_simulate_write(cache, b, us, v, Written(us, v), TRUE),
                       Written(us, v), stale \ us)
            /\ mru' = b
       [] ok /\ ~Used(ci) ->
            /\ Becomes(cache, Written(us, v), stale \cup us)
            /\ UNCHANGED mru
       [] OTHER -> UNCHANGED <<cache, mem, stale, mru>>
  /\ UNCHANGED <<kind, nways, enabled, flushed>>

(* A device writes memory; so does the processor, for the instruction      *)
(* cache.                                                                  *)
WriteBehind(us, v) ==
  /\ Becomes(cache, Written(us, v), stale \cup us)
  /\ UNCHANGED <<kind, nways, enabled, flushed, mru>>

(* mtspr to DCBIR, DCBFR or ICBIR.                                         *)
Invalidate(b) ==
  /\ Becomes(dc_inv(cache, b), mem, stale)
  /\ flushed' = (flushed \/ ~enabled)
  /\ mru' = None
  /\ UNCHANGED <<kind, nways, enabled>>

(* The debugger writes a byte: the caches are invalidated, then memory is  *)
(* written.                                                                *)
rsp_write_mem(u, v) ==
  /\ Becomes(dc_inv(cache, Watched), Written({u}, v), stale)
  /\ mru' = None
  /\ flushed' = (flushed \/ ~enabled)
  /\ UNCHANGED <<kind, nways, enabled>>

(* Software switches a cache on when it has invalidated it.                *)
mtspr_SR ==
  /\ ~enabled => flushed
  /\ enabled' = ~enabled
  /\ UNCHANGED <<kind, nways, cache, mem, flushed, stale, mru>>

Next ==
  \/ \E b \in Blocks, ci \in BOOLEAN, ok \in BOOLEAN : Read(b, ci, ok)
  \/ \E b \in Blocks, v \in Values, ci \in BOOLEAN, ok \in BOOLEAN :
       \E us \in Pieces(b) : Write(b, us, v, ci, ok)
  \/ \E us \in Pieces(Watched), v \in Values : WriteBehind(us, v)
  \/ \E b \in Blocks : Invalidate(b)
  \/ \E u \in Units, v \in Values : rsp_write_mem(u, v)
  \/ mtspr_SR

Spec == Init /\ [][Next]_vars

-----------------------------------------------------------------------------
(* Types; the LRU fields stay within the configured number of states.      *)
TypeOK ==
  /\ kind \in {"dc", "ic"} /\ nways \in NWays /\ {enabled, flushed} \subseteq BOOLEAN
  /\ cache \in [Ways -> [tag : Blocks \cup {None}, lru : 0 .. Newest, line : [Units -> Values]]]
  /\ mem \in [Units -> Values] /\ stale \subseteq Units
  /\ mru \in Blocks \cup {None}

(* No block is in two ways once software has invalidated the set: dc_inv   *)
(* finds only one of them, and the other would come back later.            *)
NoDuplicates ==
  flushed => \A w, v \in Ways : w # v /\ cache[w].tag = cache[v].tag => cache[w].tag = None

(* What a load gets, from a line or by a refill, is what is in memory,     *)
(* except for what was changed behind the cache since the block was last   *)
(* refilled or invalidated.                                                *)
LoadExact ==
  LET c == dc_simulate_read(cache, Watched, mem, TRUE)
  IN  enabled => \A u \in Units \ stale : c[Find(c, Watched)].line[u] = mem[u]

(* The cache is transparent, now and after an invalidation.                *)
CacheExact == TypeOK /\ NoDuplicates /\ LoadExact

(* A program that alternates between two blocks keeps both if there is     *)
(* more than one way: the block of the last access is not the one that the *)
(* next miss replaces, by a load or by a store.                            *)
KeepsLast ==
  nways > 1 /\ mru # None /\ mru' # None /\ enabled => \E w \in Ways : cache'[w].tag = mru

LastKept == [][KeepsLast]_vars
=============================================================================
