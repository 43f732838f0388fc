---------------------------- MODULE DeviceProofs ----------------------------
(***************************************************************************)
(* Proofs about the peripherals and the memory map they are found in.      *)
(*                                                                         *)
(* The UART is the module extended: every length of the FIFOs, every set   *)
(* of trigger levels, every program.  The Ethernet controller (E), the DMA *)
(* controller (D) and the memory map (M) are instances with constants and  *)
(* variables of their own; what their modules assume of their constants is *)
(* a hypothesis here.                                                      *)
(***************************************************************************)
EXTENDS Uart, Integers, FiniteSetTheorems, FunctionTheorems, SequenceTheorems, WellFoundedInduction,
        TLAPS

CONSTANTS NBD, TxBdNums, TxBdReset, MaxWaiting, PacketMod       \* of Eth
CONSTANTS AddrMod, Sizes, Masks                                 \* of Dma
CONSTANTS NAreas, Owned                                         \* of MemMap
VARIABLES eth, eth_line, rtx_type, waiting, drv, eth_owed, eth_observed
VARIABLES chan, dma_jobs, int_msk_a, int_src_a, dma_line, copied, want, dma_owed, parked, dma_observed
VARIABLES own, area, cur_area, csc, ba_mask, mc_next, mc_areas, mine, mc_at, before

E == INSTANCE Eth WITH line <- eth_line, owed <- eth_owed, observed <- eth_observed
D == INSTANCE Dma WITH ch <- chan, jobs <- dma_jobs, line <- dma_line, log <- copied,
                       owed <- dma_owed, observed <- dma_observed
M == INSTANCE MemMap WITH reset <- mc_at, next <- mc_next

-----------------------------------------------------------------------------
(* The fields of the device's record.                                      *)
Fields ==
  {"ints", "ier", "iir", "line", "lsr", "sbc", "loop", "mcr", "msr", "delta", "trigger",
   "fifo_len", "txbuf", "txser", "rxbuf", "rxser", "receiveing", "now", "later",
   "stale", "twice"}
(* A record with these fields.                                             *)
Shape(v) == v = [f \in Fields |-> v[f]]

(* The part of TypeOK that interrupts and the histories are about.         *)
IntTypes(v) ==
  /\ Shape(v) /\ v.ints \subseteq Interrupts /\ v.iir \in DOMAIN Rank
  /\ v.line \in BOOLEAN /\ v.ier \subseteq Interrupts \ {"CTI"}
  /\ v.stale \in BOOLEAN /\ v.twice = FALSE

(* Identified, of any record.                                              *)
LineIsIir(v) == v.line = (v.iir # "NO_INT")
Apt(v) == v.stale = TRUE \/ v.iir = "NO_INT" \/ v.iir \in Signalled(v)
Shown(v) == LineIsIir(v) /\ Apt(v) /\ \A i \in Signalled(v) : Rank[i] <= Rank[v.iir]

(* The functions that raise and clear interrupts leave the rest alone.     *)
RestSame(v, w) ==
  /\ Shape(w) /\ w.ier = v.ier /\ w.lsr = v.lsr /\ w.sbc = v.sbc /\ w.loop = v.loop
  /\ w.mcr = v.mcr /\ w.msr = v.msr /\ w.delta = v.delta /\ w.trigger = v.trigger
  /\ w.fifo_len = v.fifo_len /\ w.txbuf = v.txbuf /\ w.txser = v.txser /\ w.rxbuf = v.rxbuf
  /\ w.rxser = v.rxser /\ w.receiveing = v.receiveing /\ w.now = v.now
  /\ w.twice = v.twice

(* The priorities.                                                         *)
LEMMA RankFacts ==
  /\ Interrupts = {"MSI", "THRI", "CTI", "RDI", "RLSI"}
  /\ DOMAIN Rank = Interrupts \cup {"NO_INT"} /\ "NO_INT" \notin Interrupts
  /\ Rank["NO_INT"] = 0 /\ Rank["MSI"] = 1 /\ Rank["THRI"] = 2 /\ Rank["CTI"] = 3
  /\ Rank["RDI"] = 4 /\ Rank["RLSI"] = 5
  /\ \A i \in DOMAIN Rank : Rank[i] \in Nat
  /\ \A i \in Interrupts : Rank[i] > 0
BY DEF Rank, Interrupts

(* Of some interrupts one is the highest.                                  *)
LEMMA HighestFacts ==
  ASSUME NEW is, is \subseteq Interrupts, is # {}
  PROVE  Highest(is) \in is /\ \A j \in is : Rank[j] <= Rank[Highest(is)]
<1>0. \A i \in is : i \in {"MSI", "THRI", "CTI", "RDI", "RLSI"}
  BY RankFacts
<1>1. \E i \in is : \A j \in is : Rank[j] <= Rank[i]
  <2>1. CASE "RLSI" \in is
    <3>1. \A j \in is : Rank[j] <= Rank["RLSI"]
      BY <1>0, RankFacts
    <3> QED BY <2>1, <3>1
  <2>2. CASE "RLSI" \notin is /\ "RDI" \in is
    <3>1. \A j \in is : Rank[j] <= Rank["RDI"]
      BY <1>0, <2>2, RankFacts
    <3> QED BY <2>2, <3>1
  <2>3. CASE "RLSI" \notin is /\ "RDI" \notin is /\ "CTI" \in is
    <3>1. \A j \in is : Rank[j] <= Rank["CTI"]
      BY <1>0, <2>3, RankFacts
    <3> QED BY <2>3, <3>1
  <2>4. CASE "RLSI" \notin is /\ "RDI" \notin is /\ "CTI" \notin is /\ "THRI" \in is
    <3>1. \A j \in is : Rank[j] <= Rank["THRI"]
      BY <1>0, <2>4, RankFacts
    <3> QED BY <2>4, <3>1
  <2>5. CASE "RLSI" \notin is /\ "RDI" \notin is /\ "CTI" \notin is /\ "THRI" \notin is
    <3>1. \A j \in is : j = "MSI"
      BY <1>0, <2>5
    <3>2. PICK i \in is : i = "MSI"
      BY <3>1
    <3>3. \A j \in is : Rank[j] <= Rank[i]
      BY <3>1, <3>2, RankFacts
    <3> QED BY <3>2, <3>3
  <2> QED BY <2>1, <2>2, <2>3, <2>4, <2>5
<1> QED BY <1>1 DEF Highest

(* An interrupt is raised.                                                 *)
LEMMA RaiseFacts ==
  ASSUME NEW v, IntTypes(v), NEW i \in Interrupts, NEW w, w = Raise(v, i)
  PROVE  /\ RestSame(v, w) /\ IntTypes(w)
         /\ w.ints = v.ints \cup {i} /\ w.later = v.later
         /\ LineIsIir(v) => LineIsIir(w)
         /\ Shown(v) => Shown(w)
         /\ (EnableBit(i) \in v.ier => Rank[i] <= Rank[w.iir])
         /\ (EnableBit(i) \in v.ier /\ (v.stale = TRUE \/ Rank[v.iir] <= Rank[i]) => Apt(w))
<1>1. CASE EnableBit(i) \in v.ier /\ Rank[v.iir] <= Rank[i]
  <2>1. w = [v EXCEPT !.ints = @ \cup {i}, !.iir = i, !.line = TRUE, !.stale = FALSE]
    BY <1>1 DEF Raise
  <2>2. /\ RestSame(v, w) /\ w.later = v.later
        /\ w.ints = v.ints \cup {i} /\ w.iir = i /\ w.line = TRUE /\ w.stale = FALSE
    BY <2>1 DEF RestSame, IntTypes, Shape, Fields
  <2>3. IntTypes(w)
    BY <2>2, RankFacts DEF IntTypes, RestSame
  <2>4. LineIsIir(w)
    BY <2>2, RankFacts DEF LineIsIir
  <2>5. Apt(w)
    BY <1>1, <2>2 DEF Apt, Signalled, RestSame
  <2> QED BY <1>1, <2>2, <2>3, <2>4, <2>5, RankFacts DEF Shown, Signalled, RestSame, IntTypes
<1>2. CASE ~ (EnableBit(i) \in v.ier /\ Rank[v.iir] <= Rank[i])
  <2>1. w = [v EXCEPT !.ints = @ \cup {i}]
    BY <1>2 DEF Raise
  <2>2. /\ RestSame(v, w) /\ w.later = v.later
        /\ w.ints = v.ints \cup {i} /\ w.iir = v.iir /\ w.line = v.line /\ w.stale = v.stale
    BY <2>1 DEF RestSame, IntTypes, Shape, Fields
  <2>3. IntTypes(w)
    BY <2>2, RankFacts DEF IntTypes, RestSame
  <2>4. LineIsIir(v) => LineIsIir(w)
    BY <2>2 DEF LineIsIir
  <2>5. EnableBit(i) \in v.ier => Rank[i] <= Rank[w.iir]
    BY <1>2, <2>2, RankFacts DEF IntTypes
  <2>6. (Apt(v) => Apt(w)) /\ (v.stale = TRUE => Apt(w))
    BY <2>2 DEF Apt, Signalled, RestSame
  <2> QED BY <1>2, <2>2, <2>3, <2>4, <2>5, <2>6, RankFacts DEF Shown, Signalled, RestSame, IntTypes
<1> QED BY <1>1, <1>2

(* The next interrupt is identified, if there is one.                      *)
LEMMA NextIntFacts ==
  ASSUME NEW v, IntTypes(v), NEW w, w = uart_next_int(v)
  PROVE  /\ RestSame(v, w) /\ IntTypes(w)
         /\ w.ints = v.ints /\ w.later = v.later
         /\ LineIsIir(v) => Shown(w)
<1>1. CASE Signalled(v) # {}
  <2> DEFINE i == Highest(Signalled(v))
             higher == Rank[v.iir] > Rank[i]
             x == [v EXCEPT !.stale = higher]
  <2>1. Signalled(v) \subseteq v.ints /\ Signalled(v) \subseteq Interrupts
    BY DEF Signalled, IntTypes
  <2>2. i \in Signalled(v) /\ \A j \in Signalled(v) : Rank[j] <= Rank[i]
    BY <1>1, <2>1, HighestFacts
  <2>3. w = Raise(x, i)
    BY <1>1 DEF uart_next_int
  <2>4. i \in v.ints /\ i \in Interrupts /\ EnableBit(i) \in v.ier
    BY <2>1, <2>2 DEF Signalled
  <2> HIDE DEF i
  <2>5. higher \in BOOLEAN /\ (higher \/ Rank[v.iir] <= Rank[i])
    BY <2>4, RankFacts DEF IntTypes
  <2> HIDE DEF higher
  <2>6. /\ RestSame(v, x) /\ x.ints = v.ints /\ x.iir = v.iir /\ x.line = v.line
        /\ x.later = v.later /\ x.stale = higher
    BY DEF RestSame, IntTypes, Shape, Fields
  <2> HIDE DEF x
  <2>7. IntTypes(x) /\ EnableBit(i) \in x.ier /\ (LineIsIir(v) => LineIsIir(x))
    BY <2>4, <2>5, <2>6 DEF IntTypes, RestSame, LineIsIir
  <2>8. x.stale = TRUE \/ Rank[x.iir] <= Rank[i]
    BY <2>5, <2>6
  <2>9. /\ RestSame(x, w) /\ IntTypes(w) /\ w.ints = x.ints \cup {i} /\ w.later = x.later
        /\ LineIsIir(x) => LineIsIir(w)
        /\ Rank[i] <= Rank[w.iir] /\ Apt(w)
    BY <2>3, <2>4, <2>7, <2>8, RaiseFacts
  <2>10. w.ints = v.ints /\ w.later = v.later /\ RestSame(v, w)
    BY <2>4, <2>6, <2>9 DEF RestSame
  <2>11. Signalled(w) = Signalled(v)
    BY <2>10 DEF Signalled, RestSame
  <2>12. \A j \in Signalled(w) : Rank[j] <= Rank[w.iir]
    <3>1. \A j \in Signalled(w) : Rank[j] \in Nat
      BY <2>1, <2>11, RankFacts
    <3>2. Rank[i] \in Nat /\ Rank[w.iir] \in Nat
      BY <2>4, <2>9, RankFacts DEF IntTypes
    <3> QED BY <2>2, <2>9, <2>11, <3>1, <3>2
  <2> QED BY <2>7, <2>9, <2>10, <2>12 DEF Shown
<1>2. CASE Signalled(v) = {}
  <2>1. w = [v EXCEPT !.line = FALSE, !.iir = "NO_INT", !.stale = FALSE]
    BY <1>2 DEF uart_next_int
  <2>2. /\ RestSame(v, w) /\ w.ints = v.ints /\ w.later = v.later
        /\ w.iir = "NO_INT" /\ w.line = FALSE /\ w.stale = FALSE
    BY <2>1 DEF RestSame, IntTypes, Shape, Fields
  <2>3. IntTypes(w)
    BY <2>2, RankFacts DEF IntTypes, RestSame
  <2>4. Signalled(w) = {}
    BY <1>2, <2>2 DEF Signalled, RestSame
  <2>5. LineIsIir(w) /\ Apt(w)
    BY <2>2 DEF LineIsIir, Apt
  <2> QED BY <2>2, <2>3, <2>4, <2>5 DEF Shown
<1> QED BY <1>1, <1>2

(* An interrupt is cleared; the timeout goes with its interrupt.           *)
LEMMA ClearFacts ==
  ASSUME NEW v, IntTypes(v), NEW i \in Interrupts, NEW w, w = uart_clear_int(v, i)
  PROVE  /\ RestSame(v, w) /\ IntTypes(w)
         /\ w.ints = v.ints \ {i}
         /\ w.later = (IF i = "CTI" THEN v.later \ {"int_cti"} ELSE v.later)
         /\ Shown(v) => Shown(w)
<1> DEFINE x == [v EXCEPT !.ints = @ \ {i},
                          !.later = IF i = "CTI" THEN @ \ {"int_cti"} ELSE @]
<1>1. /\ RestSame(v, x) /\ x.ints = v.ints \ {i} /\ x.iir = v.iir /\ x.line = v.line
      /\ x.stale = v.stale
      /\ x.later = (IF i = "CTI" THEN v.later \ {"int_cti"} ELSE v.later)
  BY DEF RestSame, IntTypes, Shape, Fields
<1>2. w = (IF i = v.iir THEN uart_next_int(x) ELSE x)
  BY DEF uart_clear_int
<1> HIDE DEF x
<1>3. IntTypes(x)
  BY <1>1 DEF IntTypes, RestSame
<1>4. /\ Shown(v) => LineIsIir(x) /\ \A j \in Signalled(x) : Rank[j] <= Rank[x.iir]
      /\ Shown(v) /\ i # v.iir => Apt(x)
  BY <1>1 DEF Shown, LineIsIir, Apt, Signalled, RestSame
<1>5. CASE i = v.iir
  <2>1. w = uart_next_int(x)
    BY <1>2, <1>5
  <2>2. /\ RestSame(x, w) /\ IntTypes(w) /\ w.ints = x.ints /\ w.later = x.later
        /\ LineIsIir(x) => Shown(w)
    BY <1>3, <2>1, NextIntFacts
  <2>3. RestSame(v, w)
    BY <1>1, <2>2 DEF RestSame
  <2> QED BY <1>1, <1>4, <2>2, <2>3 DEF Shown
<1>6. CASE i # v.iir
  BY <1>1, <1>2, <1>3, <1>4, <1>6 DEF Shown
<1> QED BY <1>5, <1>6

-----------------------------------------------------------------------------
(* Runs of characters.                                                     *)

(* The numbers of characters that arrive and are written.                  *)
Numbers == 0 .. CharMod - 1

(* The rest of a division, for the sums that occur.                        *)
LEMMA Wraps ==
  ASSUME NEW x \in Int, 0 <= x, x < CharMod + CharMod
  PROVE  x % CharMod = IF x < CharMod THEN x ELSE x - CharMod
<1>1. CharMod \in Nat /\ CharMod > 0
  BY UartConstants
<1>2. CASE x < CharMod
  BY <1>1, <1>2
<1>3. CASE ~ (x < CharMod)
  BY <1>1, <1>3
<1> QED BY <1>2, <1>3

(* How many characters Run has, and which.                                 *)
Many(a, b) == IF a <= b THEN b - a ELSE b + CharMod - a
Nth(a, i) == IF a + i - 1 < CharMod THEN a + i - 1 ELSE a + i - 1 - CharMod

(* Run holds these.                                                        *)
LEMMA RunIs ==
  ASSUME NEW a \in Numbers, NEW b \in Numbers
  PROVE  /\ Many(a, b) \in Nat /\ Many(a, b) < CharMod
         /\ Run(a, b) = [i \in 1 .. Many(a, b) |-> Nth(a, i)]
         /\ \A i \in 1 .. Many(a, b) : Nth(a, i) \in Numbers /\ Run(a, b)[i] = Nth(a, i)
         /\ Run(a, b) \in Seq(Numbers) /\ Len(Run(a, b)) = Many(a, b)
<1>1. CharMod \in Nat /\ CharMod > 0 /\ a \in Int /\ b \in Int
      /\ 0 <= a /\ 0 <= b /\ a < CharMod /\ b < CharMod
  BY UartConstants DEF Numbers
<1>2. (b + CharMod - a) % CharMod = Many(a, b)
  <2>1. PICK x \in Int : x = b + CharMod - a
    BY <1>1
  <2>2. x % CharMod = IF x < CharMod THEN x ELSE x - CharMod
    BY <1>1, <2>1, Wraps
  <2> QED BY <1>1, <2>1, <2>2 DEF Many
<1>3. Many(a, b) \in 0 .. CharMod - 1
  BY <1>1 DEF Many
<1>4. ASSUME NEW i \in 1 .. Many(a, b)
      PROVE  (a + i - 1) % CharMod = Nth(a, i) /\ Nth(a, i) \in Numbers
  <2>0. i \in Int /\ 1 <= i /\ i < CharMod
    BY <1>1, <1>3
  <2>1. PICK x \in Int : x = a + i - 1
    BY <1>1, <2>0
  <2>2. x % CharMod = IF x < CharMod THEN x ELSE x - CharMod
    BY <1>1, <2>0, <2>1, Wraps
  <2> QED BY <1>1, <2>0, <2>1, <2>2 DEF Nth, Numbers
<1>5. Run(a, b) = [i \in 1 .. Many(a, b) |-> Nth(a, i)]
  BY <1>2, <1>4 DEF Run
<1> HIDE DEF Many, Nth, Numbers
<1>6. Many(a, b) \in Nat /\ Many(a, b) < CharMod
  BY <1>1, <1>3
<1>7. Run(a, b) \in [1 .. Many(a, b) -> Numbers]
  BY <1>4, <1>5
<1>8. Run(a, b) \in Seq(Numbers) /\ Len(Run(a, b)) = Many(a, b)
  BY <1>6, <1>7
<1> QED BY <1>4, <1>5, <1>6, <1>8

(* Sequences of the same length and elements are equal.                    *)
LEMMA SeqsEqual ==
  ASSUME NEW S, NEW s \in Seq(S), NEW t \in Seq(S), Len(s) = Len(t),
         \A i \in 1 .. Len(s) : s[i] = t[i]
  PROVE  s = t
OBVIOUS

(* The next number.                                                        *)
LEMMA IncIs ==
  ASSUME NEW c \in Numbers
  PROVE  Inc(c) \in Numbers /\ Inc(c) = IF c + 1 < CharMod THEN c + 1 ELSE 0
<1>1. CharMod \in Nat /\ CharMod > 0 /\ c \in Int /\ 0 <= c /\ c < CharMod
  BY UartConstants DEF Numbers
<1>2. PICK x \in Int : x = c + 1
  BY <1>1
<1>3. x % CharMod = IF x < CharMod THEN x ELSE x - CharMod
  BY <1>1, <1>2, Wraps
<1> QED BY <1>1, <1>2, <1>3 DEF Inc, Numbers

(* Nothing lies between a number and itself.                               *)
LEMMA RunEmpty ==
  ASSUME NEW a \in Numbers
  PROVE  Run(a, a) = <<>>
<1>1. Many(a, a) = 0
  BY UartConstants DEF Many, Numbers
<1> QED BY <1>1, RunIs

(* One more character at the end.                                          *)
LEMMA RunAppend ==
  ASSUME NEW a \in Numbers, NEW b \in Numbers, Len(Run(a, b)) < CharMod - 1
  PROVE  Append(Run(a, b), b) = Run(a, Inc(b))
<1>0. PICK d \in Numbers : d = Inc(b) /\ d = IF b + 1 < CharMod THEN b + 1 ELSE 0
  BY IncIs
<1>1. CharMod \in Nat /\ CharMod > 1 /\ a \in Int /\ b \in Int /\ d \in Int
      /\ 0 <= a /\ 0 <= b /\ 0 <= d /\ a < CharMod /\ b < CharMod /\ d < CharMod
  BY UartConstants DEF Numbers
<1> DEFINE s == Append(Run(a, b), b)
           t == Run(a, d)
           n == Many(a, b)
<1>2. n \in Nat /\ n < CharMod - 1 /\ Len(Run(a, b)) = n /\ Run(a, b) \in Seq(Numbers)
  BY RunIs
<1>3. Many(a, d) = n + 1
  BY <1>0, <1>1, <1>2 DEF Many
<1>4. t \in Seq(Numbers) /\ Len(t) = n + 1 /\ \A i \in 1 .. n + 1 : t[i] = Nth(a, i)
  BY <1>3, RunIs
<1>5. \A i \in 1 .. n : Run(a, b)[i] = Nth(a, i)
  BY RunIs
<1>6. s \in Seq(Numbers) /\ Len(s) = n + 1 /\ s[n + 1] = b /\ \A i \in 1 .. n : s[i] = Run(a, b)[i]
  BY <1>2
<1>7. Nth(a, n + 1) = b
  BY <1>1, <1>2 DEF Nth, Many
<1> HIDE DEF s, t, n
<1>8. ASSUME NEW i \in 1 .. Len(s) PROVE s[i] = t[i]
  <2>1. CASE i = n + 1
    BY <1>2, <1>4, <1>6, <1>7, <2>1
  <2>2. CASE i # n + 1
    <3>1. i \in 1 .. n /\ i \in 1 .. n + 1
      BY <1>2, <1>6, <2>2
    <3> QED BY <1>4, <1>5, <1>6, <3>1
  <2> QED BY <2>1, <2>2
<1>9. s = t
  BY <1>4, <1>6, <1>8, SeqsEqual
<1> QED BY <1>0, <1>9 DEF s, t

(* One character less at the front.                                        *)
LEMMA RunHead ==
  ASSUME NEW a \in Numbers, NEW b \in Numbers, Run(a, b) # <<>>
  PROVE  Head(Run(a, b)) = a /\ Run(a, b)[1] = a /\ Tail(Run(a, b)) = Run(Inc(a), b)
<1>0. PICK d \in Numbers : d = Inc(a) /\ d = IF a + 1 < CharMod THEN a + 1 ELSE 0
  BY IncIs
<1>1. CharMod \in Nat /\ CharMod > 1 /\ a \in Int /\ b \in Int /\ d \in Int
      /\ 0 <= a /\ 0 <= b /\ 0 <= d /\ a < CharMod /\ b < CharMod /\ d < CharMod
  BY UartConstants DEF Numbers
<1> DEFINE r == Run(a, b)
           s == Tail(r)
           t == Run(d, b)
           n == Many(a, b)
<1>2. n \in Nat /\ Len(r) = n /\ r \in Seq(Numbers) /\ \A i \in 1 .. n : r[i] = Nth(a, i)
  BY RunIs
<1>3. n > 0
  BY <1>2
<1>4. Many(d, b) = n - 1
  BY <1>0, <1>1, <1>3 DEF Many
<1>5. t \in Seq(Numbers) /\ Len(t) = n - 1 /\ \A i \in 1 .. n - 1 : t[i] = Nth(d, i)
  BY <1>4, RunIs
<1>6. n < CharMod
  BY RunIs
<1> HIDE DEF r, n
<1>7. s \in Seq(Numbers) /\ Len(s) = n - 1 /\ \A i \in 1 .. n - 1 : s[i] = r[i + 1]
  BY <1>2, <1>3
<1> HIDE DEF s, t
<1>8. ASSUME NEW i \in 1 .. Len(s) PROVE s[i] = t[i]
  <2>1. i \in 1 .. n - 1 /\ i + 1 \in 1 .. n /\ i \in Int /\ i >= 1 /\ i < CharMod
    BY <1>1, <1>2, <1>6, <1>7
  <2>2. Nth(a, i + 1) = Nth(d, i)
    BY <1>0, <1>1, <2>1 DEF Nth
  <2> QED BY <1>2, <1>5, <1>7, <2>1, <2>2
<1>9. s = t
  BY <1>5, <1>7, <1>8, SeqsEqual
<1>10. r[1] = a /\ Head(r) = r[1]
  <2>1. Nth(a, 1) = a
    BY <1>1 DEF Nth
  <2> QED BY <1>2, <1>3, <2>1
<1> QED BY <1>0, <1>9, <1>10 DEF r, s, t

(* The last character is the one before the end.                           *)
LEMMA RunLast ==
  ASSUME NEW a \in Numbers, NEW b \in Numbers, Run(a, b) # <<>>,
         NEW e, e = Run(a, b)[Len(Run(a, b))]
  PROVE  e \in Numbers /\ Inc(e) = b
<1>1. CharMod \in Nat /\ CharMod > 1 /\ a \in Int /\ b \in Int
      /\ 0 <= a /\ 0 <= b /\ a < CharMod /\ b < CharMod
  BY UartConstants DEF Numbers
<1> DEFINE n == Many(a, b)
<1>2. n \in Nat /\ Len(Run(a, b)) = n /\ n < CharMod /\ Run(a, b) \in Seq(Numbers)
      /\ \A i \in 1 .. n : Run(a, b)[i] = Nth(a, i)
  BY <1>1, RunIs
<1>3. n > 0
  BY <1>2
<1>4. e = Nth(a, n) /\ e \in Numbers
  BY <1>2, <1>3
<1>5. Inc(e) = IF e + 1 < CharMod THEN e + 1 ELSE 0
  BY <1>4, IncIs
<1>6. e = IF a + n - 1 < CharMod THEN a + n - 1 ELSE a + n - 1 - CharMod
  BY <1>4 DEF Nth
<1>7. n = IF a <= b THEN b - a ELSE b + CharMod - a
  BY DEF Many
<1> HIDE DEF n
<1>8. e + 1 = b \/ (e + 1 = CharMod /\ b = 0)
  BY <1>1, <1>2, <1>3, <1>6, <1>7
<1> QED BY <1>1, <1>4, <1>5, <1>8

(* Without its last character a run ends before that one.                  *)
LEMMA RunButLast ==
  ASSUME NEW a \in Numbers, NEW b \in Numbers, NEW S, NEW s \in Seq(S), NEW e \in S,
         Append(s, e) = Run(a, b)
  PROVE  e \in Numbers /\ s = Run(a, e)
<1> DEFINE r == Run(a, b)
<1>1. Len(s) \in Nat /\ Len(r) = Len(s) + 1 /\ r[Len(s) + 1] = e
      /\ \A i \in 1 .. Len(s) : r[i] = s[i]
  OBVIOUS
<1>2. r # <<>>
  BY <1>1
<1>3. e \in Numbers /\ Inc(e) = b /\ b = IF e + 1 < CharMod THEN e + 1 ELSE 0
  <2>1. e \in Numbers /\ Inc(e) = b
    BY <1>1, <1>2, RunLast
  <2> QED BY <2>1, IncIs
<1>4. CharMod \in Nat /\ CharMod > 1 /\ a \in Int /\ b \in Int /\ e \in Int
      /\ 0 <= a /\ 0 <= b /\ 0 <= e /\ a < CharMod /\ b < CharMod /\ e < CharMod
  BY <1>3, UartConstants DEF Numbers
<1>5. Many(a, b) = Len(s) + 1 /\ \A i \in 1 .. Len(s) + 1 : r[i] = Nth(a, i)
  BY <1>1, RunIs
<1>6. Many(a, e) = Len(s)
  <2>1. PICK n \in Nat : n = Len(s)
    BY <1>1
  <2>2. (IF a <= b THEN b - a ELSE b + CharMod - a) = n + 1
    BY <1>5, <2>1 DEF Many
  <2>3. (IF a <= e THEN e - a ELSE e + CharMod - a) = n
    BY <1>3, <1>4, <2>2
  <2> QED BY <2>1, <2>3 DEF Many
<1>7. Run(a, e) \in Seq(Numbers) /\ Len(Run(a, e)) = Len(s)
      /\ \A i \in 1 .. Len(s) : Run(a, e)[i] = Nth(a, i)
  BY <1>3, <1>6, RunIs
<1> HIDE DEF r
<1>8. \A i \in 1 .. Len(s) : s[i] = Run(a, e)[i]
  BY <1>1, <1>5, <1>7
<1> QED BY <1>3, <1>7, <1>8, SeqsEqual

(* A character in front of the rest.                                       *)
LEMMA HeadThenTail ==
  ASSUME NEW S, NEW s \in Seq(S), s # <<>>
  PROVE  << Head(s) >> \o Tail(s) = s
<1> DEFINE t == << Head(s) >> \o Tail(s)
<1>1. Len(s) \in Nat /\ Len(s) > 0 /\ Head(s) = s[1] /\ Head(s) \in S
  OBVIOUS
<1>2. Tail(s) \in Seq(S) /\ Len(Tail(s)) = Len(s) - 1
      /\ \A i \in 1 .. Len(s) - 1 : Tail(s)[i] = s[i + 1]
  BY <1>1
<1>3. t \in Seq(S) /\ Len(t) = Len(s)
  BY <1>1, <1>2
<1>4. \A i \in 1 .. Len(s) : t[i] = s[i]
  BY <1>1, <1>2
<1> QED BY <1>3, <1>4, SeqsEqual

(* What is under way to the program, and from it.                          *)
RxSeq(v) == IF v.receiveing THEN Append(v.rxbuf, v.rxser) ELSE v.rxbuf
TxSeq(v) == IF "TXSERE" \in v.lsr THEN v.txbuf ELSE << v.txser >> \o v.txbuf

-----------------------------------------------------------------------------
(* What is true of the device between its functions.  Every part speaks of *)
(* a few fields, so that a function that leaves these alone preserves it.  *)

(* Interrupts: types, and Identified; and no job was queued twice.         *)
IntsOK(v) == IntTypes(v) /\ Shown(v)

(* The fields that have only a type.                                       *)
RestOK(v) ==
  /\ v.lsr \subseteq {"TXBUFE", "TXSERE", "RDRDY", "OVRRUN"} /\ v.loop \in BOOLEAN
  /\ v.mcr \subseteq ModemLines /\ v.msr \subseteq ModemLines /\ v.delta \subseteq ModemLines
  /\ v.fifo_len \in {1, FIFO_LEN}
  /\ v.later \subseteq {"char_clock", "int_cti", "recv_char", "check_char"}

(* The transmitter: types, and what its FIFO says about its interrupt.     *)
TxTypes(v) ==
  /\ v.sbc \in BOOLEAN
  /\ v.txbuf \in Seq(Chars) /\ v.txser \in Chars
  /\ v.now \subseteq {"tx_send", "send_break"}
  /\ "THRI" \in v.ints => v.txbuf = <<>>
  /\ "TXBUFE" \in v.lsr <=> v.txbuf = <<>>

(* The FIFO is not longer than its mode allows.                            *)
TxFits(v) == Len(v.txbuf) <= v.fifo_len

(* The jobs of the transmitter.  LCR[SBC] tells which of its two jobs a    *)
(* busy shift register has: without this the jobs are not inductive.       *)
TxJobs(v) ==
  /\ "TXSERE" \notin v.lsr <=> ("char_clock" \in v.later \/ "send_break" \in v.now)
  /\ "TXSERE" \in v.lsr => ("tx_send" \in v.now <=> v.txbuf # <<>>)
  /\ "tx_send" \in v.now => v.txbuf # <<>> /\ "TXSERE" \in v.lsr
  /\ v.sbc => "char_clock" \notin v.later
  /\ ~v.sbc => "send_break" \notin v.now

(* The transmitter between two functions.                                  *)
TxOK(v) == TxTypes(v) /\ TxFits(v) /\ TxJobs(v)

(* A transmitter whose job was just taken from the queue.                  *)
TxIdle(v) == TxTypes(v) /\ TxFits(v) /\ v.now = {} /\ "char_clock" \notin v.later

(* The receiver: types, what its FIFO says about its interrupts, jobs.     *)
RxTypes(v) ==
  /\ v.trigger \in Triggers
  /\ v.rxbuf \in Seq(Chars) /\ v.rxser \in Chars
  /\ v.receiveing \in BOOLEAN
  /\ "RLSI" \in v.ints <=> "OVRRUN" \in v.lsr
  /\ "RDI" \in v.ints => v.rxbuf # <<>>
(* The receiver's FIFO, LSR[RDRDY], jobs and character timeout.            *)
RxFits(v) == Len(v.rxbuf) <= v.fifo_len
RxReady(v) == "RDRDY" \in v.lsr <=> v.rxbuf # <<>>
RxJobs(v, ch) ==
  /\ ch <=> ("recv_char" \in v.later \/ "check_char" \in v.later)
  /\ ~ ("recv_char" \in v.later /\ "check_char" \in v.later)
  /\ v.receiveing <=> "recv_char" \in v.later
RxTimeout(v) == v.rxbuf # <<>> <=> ("int_cti" \in v.later \/ "CTI" \in v.ints)

(* The receiver between two functions.                                     *)
RxOK(v, ch) == RxTypes(v) /\ RxFits(v) /\ RxReady(v) /\ RxJobs(v, ch) /\ RxTimeout(v)

(* The whole device, with a channel that works or not.                     *)
Good(v, ch) == IntsOK(v) /\ RestOK(v) /\ TxOK(v) /\ RxOK(v, ch)

(* Two records agree on the fields of a part.                              *)
IntsSame(v, w) == Shape(w) /\ w.ints = v.ints /\ w.ier = v.ier /\ w.iir = v.iir /\ w.line = v.line
                    /\ w.stale = v.stale /\ w.twice = v.twice
ModemSame(v, w) == w.loop = v.loop /\ w.mcr = v.mcr /\ w.msr = v.msr /\ w.delta = v.delta
TxSame(v, w) == w.sbc = v.sbc /\ w.txbuf = v.txbuf /\ w.txser = v.txser
RxSame(v, w) ==
  w.trigger = v.trigger /\ w.rxbuf = v.rxbuf /\ w.rxser = v.rxser /\ w.receiveing = v.receiveing

(* Assignments to other fields do not disturb the interrupts.              *)
LEMMA IntsKept ==
  ASSUME NEW v, IntsOK(v), NEW w, IntsSame(v, w)
  PROVE  IntsOK(w)
BY DEF IntsSame, IntsOK, IntTypes, Shown, LineIsIir, Apt, Signalled

(* A job that is not queued is added to the queue, with time 0 ...         *)
LEMMA NowFacts ==
  ASSUME NEW v, IntTypes(v), NEW job, job \notin v.now, NEW w, w = SchedNow(v, job)
  PROVE  /\ IntsSame(v, w) /\ ModemSame(v, w) /\ RxSame(v, w) /\ TxSame(v, w)
         /\ w.lsr = v.lsr /\ w.fifo_len = v.fifo_len
         /\ w.now = v.now \cup {job} /\ w.later = v.later
<1>1. (v.twice \/ job \in v.now) = FALSE
  BY DEF IntTypes
<1>2. w = [v EXCEPT !.now = v.now \cup {job}, !.twice = FALSE]
  BY <1>1 DEF SchedNow
<1> QED BY <1>2 DEF IntTypes, Shape, Fields, IntsSame, ModemSame, RxSame, TxSame

(* ... or with a time.                                                     *)
LEMMA LaterFacts ==
  ASSUME NEW v, IntTypes(v), NEW job, job \notin v.later, NEW w, w = SchedLater(v, job)
  PROVE  /\ IntsSame(v, w) /\ ModemSame(v, w) /\ RxSame(v, w) /\ TxSame(v, w)
         /\ w.lsr = v.lsr /\ w.fifo_len = v.fifo_len
         /\ w.now = v.now /\ w.later = v.later \cup {job}
<1>1. (v.twice \/ job \in v.later) = FALSE
  BY DEF IntTypes
<1>2. w = [v EXCEPT !.later = v.later \cup {job}, !.twice = FALSE]
  BY <1>1 DEF SchedLater
<1> QED BY <1>2 DEF IntTypes, Shape, Fields, IntsSame, ModemSame, RxSame, TxSame

(* Raising an interrupt, in terms of the parts.                            *)
LEMMA RaiseGood ==
  ASSUME NEW v, IntsOK(v), NEW i \in Interrupts, NEW w, w = Raise(v, i)
  PROVE  IntsOK(w) /\ RestSame(v, w) /\ w.ints = v.ints \cup {i} /\ w.later = v.later
BY RaiseFacts DEF IntsOK

(* Clearing an interrupt, in terms of the parts.                           *)
LEMMA ClearGood ==
  ASSUME NEW v, IntsOK(v), NEW i \in Interrupts, NEW w, w = uart_clear_int(v, i)
  PROVE  /\ IntsOK(w) /\ RestSame(v, w) /\ w.ints = v.ints \ {i}
         /\ w.later = (IF i = "CTI" THEN v.later \ {"int_cti"} ELSE v.later)
BY ClearFacts DEF IntsOK

-----------------------------------------------------------------------------
(* The transmitter.                                                        *)

(* A character goes to the shift register of a transmitter that waits.     *)
LEMMA TxSendGood ==
  ASSUME NEW v, NEW ch, IntsOK(v), RestOK(v), TxIdle(v), RxOK(v, ch), v.txbuf # <<>>,
         NEW z, z = uart_tx_send(v)
  PROVE  Good(z, ch) /\ RxSame(v, z) /\ TxSeq(z) = v.txbuf
<1> DEFINE b == [v EXCEPT !.txser = Head(v.txbuf), !.txbuf = Tail(@), !.lsr = @ \ {"TXSERE"}]
           w == IF v.sbc THEN SchedNow(b, "send_break") ELSE SchedLater(b, "char_clock")
           x == [w EXCEPT !.lsr = @ \cup {"TXBUFE"}]
<1>1. /\ IntsSame(v, w) /\ ModemSame(v, w) /\ RxSame(v, w)
      /\ w.fifo_len = v.fifo_len /\ w.sbc = v.sbc
      /\ w.txser = Head(v.txbuf) /\ w.txbuf = Tail(v.txbuf) /\ w.lsr = v.lsr \ {"TXSERE"}
      /\ w.later = (IF v.sbc THEN v.later ELSE v.later \cup {"char_clock"})
      /\ w.now = (IF v.sbc THEN v.now \cup {"send_break"} ELSE v.now)
  <2>1. /\ IntsSame(v, b) /\ ModemSame(v, b) /\ RxSame(v, b)
        /\ b.fifo_len = v.fifo_len /\ b.sbc = v.sbc
        /\ b.txser = Head(v.txbuf) /\ b.txbuf = Tail(v.txbuf) /\ b.lsr = v.lsr \ {"TXSERE"}
        /\ b.later = v.later /\ b.now = v.now
    BY DEF IntsOK, IntTypes, Shape, Fields, IntsSame, ModemSame, RxSame
  <2> HIDE DEF b
  <2>2. IntTypes(b)
    BY <2>1, IntsKept DEF IntsOK
  <2>3. "send_break" \notin b.now /\ "char_clock" \notin b.later
    BY <2>1 DEF TxIdle
  <2>4. CASE v.sbc
    <3>1. w = SchedNow(b, "send_break")
      BY <2>4
    <3> HIDE DEF w
    <3>2. /\ IntsSame(b, w) /\ ModemSame(b, w) /\ RxSame(b, w) /\ TxSame(b, w)
          /\ w.lsr = b.lsr /\ w.fifo_len = b.fifo_len
          /\ w.now = b.now \cup {"send_break"} /\ w.later = b.later
      BY <2>2, <2>3, <3>1, NowFacts
    <3> QED BY <2>1, <2>4, <3>2 DEF IntsSame, ModemSame, RxSame, TxSame
  <2>5. CASE ~v.sbc
    <3>1. w = SchedLater(b, "char_clock")
      BY <2>5
    <3> HIDE DEF w
    <3>2. /\ IntsSame(b, w) /\ ModemSame(b, w) /\ RxSame(b, w) /\ TxSame(b, w)
          /\ w.lsr = b.lsr /\ w.fifo_len = b.fifo_len
          /\ w.now = b.now /\ w.later = b.later \cup {"char_clock"}
      BY <2>2, <2>3, <3>1, LaterFacts
    <3> QED BY <2>1, <2>5, <3>2 DEF IntsSame, ModemSame, RxSame, TxSame
  <2> QED BY <2>4, <2>5
<1>2. z = (IF w.txbuf = <<>> THEN Raise(x, "THRI") ELSE w)
  BY DEF uart_tx_send
<1> HIDE DEF w
<1>3. /\ IntsSame(w, x) /\ ModemSame(w, x) /\ RxSame(w, x) /\ TxSame(w, x)
      /\ x.lsr = w.lsr \cup {"TXBUFE"} /\ x.fifo_len = w.fifo_len
      /\ x.now = w.now /\ x.later = w.later
  BY <1>1 DEF Shape, Fields, IntsSame, ModemSame, RxSame, TxSame
<1> HIDE DEF x
<1>4. RxOK(w, ch) /\ RestOK(w)
  BY <1>1 DEF RxOK, RxTypes, RxFits, RxReady, RxJobs, RxTimeout, RestOK, IntsSame, ModemSame, RxSame
<1>5. IntsOK(w)
  BY <1>1, IntsKept
<1>6. TxJobs(w)
  BY <1>1 DEF TxJobs, TxIdle, TxTypes, TxFits
<1>7. v.txbuf \in Seq(Chars) /\ v.txbuf # <<>> /\ Len(v.txbuf) <= v.fifo_len
  BY DEF TxIdle, TxTypes, TxFits
<1>8. v.fifo_len \in Nat
  BY UartConstants DEF RestOK
<1>9. w.txbuf \in Seq(Chars) /\ w.txser \in Chars /\ Len(w.txbuf) <= w.fifo_len
  BY <1>1, <1>7, <1>8
<1>10. "TXBUFE" \notin w.lsr /\ "THRI" \notin w.ints
  BY <1>1, <1>7 DEF TxIdle, TxTypes, TxFits, IntsSame
<1>11. w.now \subseteq {"tx_send", "send_break"} /\ w.sbc \in BOOLEAN
  BY <1>1 DEF TxIdle, TxTypes, TxFits
<1>12. << w.txser >> \o w.txbuf = v.txbuf /\ "TXSERE" \notin w.lsr
  BY <1>1, <1>7, HeadThenTail
<1>13. CASE w.txbuf # <<>>
  <2>1. TxTypes(w) /\ TxFits(w)
    BY <1>9, <1>10, <1>11, <1>13 DEF TxTypes, TxFits
  <2>2. z = w
    BY <1>2, <1>13
  <2>3. RxSame(v, z) /\ TxSeq(z) = v.txbuf
    BY <1>1, <1>12, <2>2 DEF TxSeq, RxSame
  <2> QED BY <1>4, <1>5, <1>6, <2>1, <2>2, <2>3 DEF Good, TxOK
<1>14. CASE w.txbuf = <<>>
  <2>1. z = Raise(x, "THRI") /\ "THRI" \in Interrupts
    BY <1>2, <1>14, RankFacts
  <2>2. IntsOK(x)
    BY <1>3, <1>5, IntsKept
  <2>3. IntsOK(z) /\ RestSame(x, z) /\ z.ints = x.ints \cup {"THRI"} /\ z.later = x.later
    BY <2>1, <2>2, RaiseGood
  <2>4. TxTypes(z) /\ TxFits(z)
    BY <1>3, <1>9, <1>11, <1>14, <2>3 DEF TxTypes, TxFits, RestSame, TxSame
  <2>5. TxJobs(z)
    BY <1>3, <1>6, <2>3 DEF TxJobs, RestSame, TxSame
  <2>6. RxOK(z, ch) /\ RestOK(z)
    BY <1>3, <1>4, <2>3 DEF RxOK, RxTypes, RxFits, RxReady, RxJobs, RxTimeout, RestOK, RestSame,
                                IntsSame, ModemSame, RxSame
  <2>7. RxSame(v, z)
    BY <1>1, <1>3, <2>3 DEF RestSame, RxSame
  <2>8. TxSeq(z) = v.txbuf
    BY <1>3, <1>12, <2>3 DEF TxSeq, TxSame, RestSame
  <2> QED BY <2>3, <2>4, <2>5, <2>6, <2>7, <2>8 DEF Good, TxOK
<1> QED BY <1>13, <1>14

(* The shift register is empty; the next character follows, if any.        *)
LEMMA ShiftedOutGood ==
  ASSUME NEW v, NEW ch, IntsOK(v), RestOK(v), TxIdle(v), RxOK(v, ch),
         NEW z, z = ShiftedOut(v)
  PROVE  Good(z, ch) /\ RxSame(v, z) /\ TxSeq(z) = v.txbuf
<1>1. CASE v.txbuf # <<>>
  BY <1>1, TxSendGood DEF ShiftedOut
<1>2. CASE v.txbuf = <<>>
  <2>1. z = [v EXCEPT !.lsr = @ \cup {"TXSERE"}]
    BY <1>2 DEF ShiftedOut
  <2>2. /\ IntsSame(v, z) /\ ModemSame(v, z) /\ RxSame(v, z) /\ TxSame(v, z)
        /\ z.lsr = v.lsr \cup {"TXSERE"} /\ z.fifo_len = v.fifo_len
        /\ z.now = v.now /\ z.later = v.later
    BY <2>1 DEF IntsOK, IntTypes, Shape, Fields, IntsSame, ModemSame, RxSame, TxSame
  <2>3. IntsOK(z)
    BY <2>2, IntsKept
  <2>4. RxOK(z, ch) /\ RestOK(z)
    BY <2>2 DEF RxOK, RxTypes, RxFits, RxReady, RxJobs, RxTimeout, RestOK, IntsSame, ModemSame, RxSame
  <2>5. TxTypes(z) /\ TxFits(z)
    BY <2>2 DEF TxIdle, TxTypes, TxFits, TxSame, IntsSame
  <2>6. TxJobs(z)
    BY <1>2, <2>2 DEF TxIdle, TxJobs, TxSame
  <2>7. TxSeq(z) = v.txbuf
    BY <2>2 DEF TxSeq, TxSame
  <2> QED BY <2>2, <2>3, <2>4, <2>5, <2>6, <2>7 DEF Good, TxOK
<1> QED BY <1>1, <1>2

-----------------------------------------------------------------------------
(* The inductive invariant: the device is good, the histories are typed,   *)
(* and both streams are exact.                                             *)
Hist(h) == h.count \in Numbers /\ h.next \in Numbers /\ h.clean \in BOOLEAN
IndInv ==
  /\ Good(u, channel) /\ channel \in BOOLEAN
  /\ Hist(rx) /\ RxStream
  /\ Hist(tx) /\ TxStream

(* Numbers are characters, and so is the one that stands for a loop.       *)
LEMMA NumberFacts ==
  /\ 0 \in Numbers /\ 0 \in Chars /\ Looped \in Chars
  /\ \A c \in Numbers : c \in Chars
  /\ \A c \in Chars : Inc(c) \in Numbers
<1>1. CharMod \in Nat /\ CharMod > 0
  BY UartConstants
<1>2. ASSUME NEW c \in Chars PROVE Inc(c) \in Numbers
  <2>1. PICK s \in Nat : s = c + 1
    BY <1>1 DEF Chars
  <2>2. s % CharMod \in 0 .. CharMod - 1
    BY <1>1
  <2> QED BY <2>1, <2>2 DEF Inc, Numbers
<1> QED BY <1>1, <1>2 DEF Numbers, Chars, Looped

(* The history of an empty direction.                                      *)
LEMMA FreshFacts == Hist(Fresh) /\ Run(Fresh.next, Fresh.count) = <<>>
<1>1. PICK z \in Numbers : z = 0
  BY NumberFacts
<1>2. Fresh.count = z /\ Fresh.next = z /\ Fresh.clean = TRUE
  BY <1>1 DEF Fresh
<1>3. Run(z, z) = <<>>
  BY RunEmpty
<1> QED BY <1>2, <1>3 DEF Hist

(* A step that accounts for what it does to the transmitter.               *)
LEMMA TxAccounts ==
  ASSUME Hist(tx), NEW c \in Numbers, NEW n, NEW loss, TxHistory(u', c, n, loss),
         observed' = observed,
         observed = "tx" /\ tx.clean /\ ~loss => n \in Numbers /\ TxSeq(u') = Run(n, c)
  PROVE  Hist(tx)' /\ TxStream'
<1> DEFINE idle == u'.txbuf = <<>> /\ "TXSERE" \in u'.lsr
<1>1. CASE observed = "tx" /\ ~idle /\ tx.clean /\ ~loss
  <2>1. tx' = [count |-> c, next |-> n, clean |-> TRUE]
    BY <1>1 DEF TxHistory
  <2>2. n \in Numbers /\ TxSeq(u') = Run(n, c)
    BY <1>1
  <2>3. tx'.count = c /\ tx'.next = n /\ tx'.clean = TRUE
    BY <2>1
  <2> QED BY <2>2, <2>3 DEF Hist, TxStream, TxSeq
<1>2. CASE observed = "tx" /\ ~idle /\ ~ (tx.clean /\ ~loss)
  <2>1. tx' = [count |-> c, next |-> 0, clean |-> FALSE]
    BY <1>2 DEF TxHistory
  <2>2. tx'.count = c /\ tx'.next = 0 /\ tx'.clean = FALSE
    BY <2>1
  <2> QED BY <2>2, NumberFacts DEF Hist, TxStream
<1>3. CASE observed # "tx" \/ idle
  <2>1. tx' = Fresh
    BY <1>3 DEF TxHistory
  <2>2. Hist(tx)'
    BY <2>1, FreshFacts DEF Hist
  <2>3. idle => TxSeq(u') = <<>>
    BY DEF TxSeq
  <2>4. TxStream'
    BY <1>3, <2>1, <2>3, FreshFacts DEF TxStream, TxSeq
  <2> QED BY <2>2, <2>4
<1> QED BY <1>1, <1>2, <1>3

(* The same for the receiver.                                              *)
LEMMA RxAccounts ==
  ASSUME Hist(rx), NEW c \in Numbers, NEW n, NEW loss, RxHistory(u', c, n, loss),
         observed' = observed,
         observed = "rx" /\ rx.clean /\ ~loss /\ (u'.rxbuf # <<>> \/ u'.receiveing)
           => n \in Numbers /\ RxSeq(u') = Run(n, c)
  PROVE  Hist(rx)' /\ RxStream'
<1> DEFINE idle == u'.rxbuf = <<>> /\ ~u'.receiveing
<1>1. CASE observed = "rx" /\ ~idle /\ rx.clean /\ ~loss
  <2>1. rx' = [count |-> c, next |-> n, clean |-> TRUE]
    BY <1>1 DEF RxHistory
  <2>2. n \in Numbers /\ RxSeq(u') = Run(n, c)
    BY <1>1
  <2>3. rx'.count = c /\ rx'.next = n /\ rx'.clean = TRUE
    BY <2>1
  <2> QED BY <2>2, <2>3 DEF Hist, RxStream, RxSeq
<1>2. CASE observed = "rx" /\ ~idle /\ ~ (rx.clean /\ ~loss)
  <2>1. rx' = [count |-> c, next |-> 0, clean |-> FALSE]
    BY <1>2 DEF RxHistory
  <2>2. rx'.count = c /\ rx'.next = 0 /\ rx'.clean = FALSE
    BY <2>1
  <2> QED BY <2>2, NumberFacts DEF Hist, RxStream
<1>3. CASE observed # "rx" \/ idle
  <2>1. rx' = Fresh
    BY <1>3 DEF RxHistory
  <2>2. Hist(rx)'
    BY <2>1, FreshFacts DEF Hist
  <2>3. idle => RxSeq(u') = <<>>
    BY DEF RxSeq
  <2>4. RxStream'
    BY <1>3, <2>1, <2>3, FreshFacts DEF RxStream, RxSeq
  <2> QED BY <2>2, <2>4
<1> QED BY <1>1, <1>2, <1>3

(* A step that leaves a direction alone.                                   *)
LEMMA RxKept ==
  ASSUME Hist(rx), RxStream, RxSame(u, u'), UNCHANGED <<rx, observed>>
  PROVE  Hist(rx)' /\ RxStream'
BY DEF Hist, RxStream, RxSame

(* The same for the transmitter.                                           *)
LEMMA TxKept ==
  ASSUME Hist(tx), TxStream, TxSeq(u') = TxSeq(u), UNCHANGED <<tx, observed>>
  PROVE  Hist(tx)' /\ TxStream'
BY DEF Hist, TxStream, TxSeq

(* A character in front of others, taken away again.                       *)
LEMMA ConsFacts ==
  ASSUME NEW S, NEW x \in S, NEW s \in Seq(S), NEW r, r = << x >> \o s
  PROVE  r # <<>> /\ Head(r) = x /\ Tail(r) = s
<1>1. r \in Seq(S) /\ Len(r) = Len(s) + 1 /\ r[1] = x /\ Len(s) \in Nat
      /\ \A i \in 1 .. Len(s) : r[i + 1] = s[i]
  OBVIOUS
<1>2. r # <<>> /\ Head(r) = x
  BY <1>1
<1>3. Tail(r) \in Seq(S) /\ Len(Tail(r)) = Len(s) /\ \A i \in 1 .. Len(s) : Tail(r)[i] = s[i]
  BY <1>1, <1>2
<1>4. Tail(r) = s
  BY <1>3, SeqsEqual
<1> QED BY <1>2, <1>4

(* The jobs of the transmitter.                                            *)
LEMMA CharClockStep ==
  ASSUME IndInv, uart_char_clock
  PROVE  IndInv'
<1> DEFINE v == [u EXCEPT !.later = @ \ {"char_clock"}]
<1>1. /\ IntsSame(u, v) /\ ModemSame(u, v) /\ RxSame(u, v) /\ TxSame(u, v)
      /\ v.lsr = u.lsr /\ v.fifo_len = u.fifo_len
      /\ v.now = u.now /\ v.later = u.later \ {"char_clock"}
  BY DEF IndInv, Good, IntsOK, IntTypes, Shape, Fields, IntsSame, ModemSame, RxSame, TxSame
<1>2. u' = ShiftedOut(v) /\ "char_clock" \in u.later
  BY DEF uart_char_clock
<1> HIDE DEF v
<1>3. IntsOK(v)
  BY <1>1, IntsKept DEF IndInv, Good
<1>4. RxOK(v, channel) /\ RestOK(v)
  BY <1>1 DEF IndInv, Good, RxOK, RxTypes, RxFits, RxReady, RxJobs, RxTimeout, RestOK,
              IntsSame, ModemSame, RxSame
<1>5. TxIdle(v)
  BY <1>1, <1>2 DEF IndInv, Good, TxOK, TxIdle, TxTypes, TxFits, TxJobs, TxSame, IntsSame
<1>6. Good(u', channel) /\ RxSame(v, u') /\ TxSeq(u') = v.txbuf
  BY <1>2, <1>3, <1>4, <1>5, ShiftedOutGood
<1>7. Hist(rx)' /\ RxStream'
  BY <1>1, <1>6, RxKept DEF IndInv, RxSame, uart_char_clock
<1>8. Hist(tx)' /\ TxStream'
  <2>1. ASSUME observed = "tx", tx.clean
        PROVE  Inc(u.txser) \in Numbers /\ TxSeq(u') = Run(Inc(u.txser), tx.count)
    <3>1. << u.txser >> \o u.txbuf = Run(tx.next, tx.count)
      BY <1>2, <2>1 DEF IndInv, TxStream, Good, TxOK, TxJobs
    <3>2. u.txser \in Chars /\ u.txbuf \in Seq(Chars)
      BY DEF IndInv, Good, TxOK, TxTypes
    <3>3. /\ Run(tx.next, tx.count) # <<>> /\ Head(Run(tx.next, tx.count)) = u.txser
          /\ Tail(Run(tx.next, tx.count)) = u.txbuf
      BY <3>1, <3>2, ConsFacts
    <3>4. u.txser = tx.next /\ u.txbuf = Run(Inc(tx.next), tx.count)
      BY <3>3, RunHead DEF IndInv, Hist
    <3> QED BY <1>1, <1>6, <3>2, <3>4, NumberFacts DEF TxSame
  <2> QED BY <2>1, TxAccounts DEF IndInv, Hist, uart_char_clock
<1> QED BY <1>6, <1>7, <1>8 DEF IndInv, uart_char_clock

(* The job that ends a character while a break is sent.                    *)
LEMMA SendBreakStep ==
  ASSUME IndInv, uart_send_break
  PROVE  IndInv'
<1> DEFINE v == [u EXCEPT !.now = @ \ {"send_break"}]
<1>1. /\ IntsSame(u, v) /\ ModemSame(u, v) /\ RxSame(u, v) /\ TxSame(u, v)
      /\ v.lsr = u.lsr /\ v.fifo_len = u.fifo_len
      /\ v.now = u.now \ {"send_break"} /\ v.later = u.later
  BY DEF IndInv, Good, IntsOK, IntTypes, Shape, Fields, IntsSame, ModemSame, RxSame, TxSame
<1>2. u' = ShiftedOut(v) /\ "send_break" \in u.now
  BY DEF uart_send_break
<1> HIDE DEF v
<1>3. IntsOK(v)
  BY <1>1, IntsKept DEF IndInv, Good
<1>4. RxOK(v, channel) /\ RestOK(v)
  BY <1>1 DEF IndInv, Good, RxOK, RxTypes, RxFits, RxReady, RxJobs, RxTimeout, RestOK,
              IntsSame, ModemSame, RxSame
<1>5. TxIdle(v)
  BY <1>1, <1>2 DEF IndInv, Good, TxOK, TxIdle, TxTypes, TxFits, TxJobs, TxSame, IntsSame
<1>6. Good(u', channel) /\ RxSame(v, u') /\ TxSeq(u') = v.txbuf
  BY <1>2, <1>3, <1>4, <1>5, ShiftedOutGood
<1>7. Hist(rx)' /\ RxStream'
  BY <1>1, <1>6, RxKept DEF IndInv, RxSame, uart_send_break
<1>8. Hist(tx)' /\ TxStream'
  BY TxAccounts DEF IndInv, Hist, uart_send_break
<1> QED BY <1>6, <1>7, <1>8 DEF IndInv, uart_send_break

(* The job that starts the transmitter.                                    *)
LEMMA TxSendStep ==
  ASSUME IndInv, tx_send_job
  PROVE  IndInv'
<1> DEFINE v == [u EXCEPT !.now = @ \ {"tx_send"}]
<1>1. /\ IntsSame(u, v) /\ ModemSame(u, v) /\ RxSame(u, v) /\ TxSame(u, v)
      /\ v.lsr = u.lsr /\ v.fifo_len = u.fifo_len
      /\ v.now = u.now \ {"tx_send"} /\ v.later = u.later
  BY DEF IndInv, Good, IntsOK, IntTypes, Shape, Fields, IntsSame, ModemSame, RxSame, TxSame
<1>2. u' = uart_tx_send(v) /\ "tx_send" \in u.now
  BY DEF tx_send_job
<1> HIDE DEF v
<1>3. IntsOK(v)
  BY <1>1, IntsKept DEF IndInv, Good
<1>4. RxOK(v, channel) /\ RestOK(v)
  BY <1>1 DEF IndInv, Good, RxOK, RxTypes, RxFits, RxReady, RxJobs, RxTimeout, RestOK,
              IntsSame, ModemSame, RxSame
<1>5. TxIdle(v) /\ v.txbuf # <<>>
  BY <1>1, <1>2 DEF IndInv, Good, TxOK, TxIdle, TxTypes, TxFits, TxJobs, TxSame, IntsSame
<1>6. Good(u', channel) /\ RxSame(v, u') /\ TxSeq(u') = v.txbuf
  BY <1>2, <1>3, <1>4, <1>5, TxSendGood
<1>7. Hist(rx)' /\ RxStream'
  BY <1>1, <1>6, RxKept DEF IndInv, RxSame, tx_send_job
<1>8. Hist(tx)' /\ TxStream'
  <2>1. observed = "tx" /\ tx.clean => TxSeq(u') = Run(tx.next, tx.count)
    BY <1>1, <1>2, <1>6 DEF IndInv, TxStream, Good, TxOK, TxJobs, TxSame
  <2> QED BY <2>1, TxAccounts DEF IndInv, Hist, tx_send_job
<1> QED BY <1>6, <1>7, <1>8 DEF IndInv, tx_send_job

-----------------------------------------------------------------------------
(* The receiver.                                                           *)

(* Interrupts of the receiver that have a reason disturb nothing.          *)
LEMMA RaiseRdi ==
  ASSUME NEW v, NEW ch, Good(v, ch), v.rxbuf # <<>>, NEW z, z = Raise(v, "RDI")
  PROVE  Good(z, ch) /\ RxSame(v, z) /\ TxSeq(z) = TxSeq(v)
<1>1. "RDI" \in Interrupts
  BY RankFacts
<1>2. IntsOK(z) /\ RestSame(v, z) /\ z.ints = v.ints \cup {"RDI"} /\ z.later = v.later
  BY <1>1, RaiseGood DEF Good
<1>3. RxOK(z, ch) /\ RestOK(z)
  BY <1>2 DEF Good, RxOK, RxTypes, RxFits, RxReady, RxJobs, RxTimeout, RestOK, RestSame
<1>4. TxOK(z)
  BY <1>2 DEF Good, TxOK, TxTypes, TxFits, TxJobs, RestSame
<1>5. RxSame(v, z) /\ TxSeq(z) = TxSeq(v)
  BY <1>2 DEF RestSame, RxSame, TxSeq
<1> QED BY <1>2, <1>3, <1>4, <1>5 DEF Good

(* uart_check_rdi raises RDI only for a FIFO that holds something.         *)
LEMMA CheckRdiGood ==
  ASSUME NEW v, NEW ch, Good(v, ch), NEW z, z = uart_check_rdi(v)
  PROVE  Good(z, ch) /\ RxSame(v, z) /\ TxSeq(z) = TxSeq(v)
<1>1. CASE Len(v.rxbuf) >= v.trigger
  <2>1. v.trigger \in Nat \ {0}
    BY UartConstants DEF Good, RxOK, RxTypes, RxFits
  <2>2. v.rxbuf # <<>>
    BY <1>1, <2>1
  <2>3. z = Raise(v, "RDI")
    BY <1>1 DEF uart_check_rdi
  <2> QED BY <2>2, <2>3, RaiseRdi
<1>2. CASE ~ (Len(v.rxbuf) >= v.trigger)
  BY <1>2 DEF uart_check_rdi, RxSame
<1> QED BY <1>1, <1>2

(* uart_check_rlsi raises RLSI only after an overrun.                      *)
LEMMA CheckRlsiGood ==
  ASSUME NEW v, NEW ch, Good(v, ch), NEW z, z = uart_check_rlsi(v)
  PROVE  Good(z, ch) /\ RxSame(v, z) /\ TxSeq(z) = TxSeq(v)
<1>1. CASE "OVRRUN" \in v.lsr
  <2>1. "RLSI" \in Interrupts /\ z = Raise(v, "RLSI")
    BY <1>1, RankFacts DEF uart_check_rlsi
  <2>2. IntsOK(z) /\ RestSame(v, z) /\ z.ints = v.ints \cup {"RLSI"} /\ z.later = v.later
    BY <2>1, RaiseGood DEF Good
  <2>3. RxOK(z, ch) /\ RestOK(z)
    BY <1>1, <2>2 DEF Good, RxOK, RxTypes, RxFits, RxReady, RxJobs, RxTimeout, RestOK, RestSame
  <2>4. TxOK(z)
    BY <2>2 DEF Good, TxOK, TxTypes, TxFits, TxJobs, RestSame
  <2>5. RxSame(v, z) /\ TxSeq(z) = TxSeq(v)
    BY <2>2 DEF RestSame, RxSame, TxSeq
  <2> QED BY <2>2, <2>3, <2>4, <2>5 DEF Good
<1>2. CASE "OVRRUN" \notin v.lsr
  BY <1>2 DEF uart_check_rlsi, RxSame
<1> QED BY <1>1, <1>2

(* A character arrives, in a FIFO that has room for it or not.             *)
LEMMA AddCharGood ==
  ASSUME NEW v, NEW ch, Good(v, ch), NEW c \in Chars, NEW z, z = uart_add_char(v, c)
  PROVE  /\ Good(z, ch) /\ TxSeq(z) = TxSeq(v)
         /\ z.receiveing = v.receiveing /\ z.rxser = v.rxser
         /\ Len(v.rxbuf) < v.fifo_len => z.rxbuf = Append(v.rxbuf, c)
         /\ Len(v.rxbuf) = v.fifo_len => z.rxbuf = v.rxbuf
<1> DEFINE a == [v EXCEPT !.lsr = @ \cup {"RDRDY"}]
           w == uart_clear_int(a, "CTI")
           x == SchedLater(w, "int_cti")
           full == [x EXCEPT !.lsr = @ \cup {"OVRRUN"}]
           first == [x EXCEPT !.rxbuf = << c >>]
           more == [x EXCEPT !.rxbuf = Append(@, c)]
           y == CASE Len(x.rxbuf) + 1 > x.fifo_len -> Raise(full, "RLSI")
                  [] x.rxbuf = <<>> -> uart_check_rlsi(first)
                  [] OTHER -> more
<1>1. z = uart_check_rdi(y)
  BY DEF uart_add_char
<1>2. /\ IntsSame(v, a) /\ ModemSame(v, a) /\ RxSame(v, a) /\ TxSame(v, a)
      /\ a.lsr = v.lsr \cup {"RDRDY"} /\ a.fifo_len = v.fifo_len
      /\ a.now = v.now /\ a.later = v.later
  BY DEF Good, IntsOK, IntTypes, Shape, Fields, IntsSame, ModemSame, RxSame, TxSame
<1> HIDE DEF a
<1>3. IntsOK(a) /\ "CTI" \in Interrupts
  BY <1>2, IntsKept, RankFacts DEF Good
<1>4. /\ IntsOK(w) /\ RestSame(a, w) /\ w.ints = a.ints \ {"CTI"}
      /\ w.later = a.later \ {"int_cti"}
  BY <1>3, ClearGood
<1> HIDE DEF w
<1>5. /\ IntsSame(w, x) /\ ModemSame(w, x) /\ RxSame(w, x) /\ TxSame(w, x)
      /\ x.lsr = w.lsr /\ x.fifo_len = w.fifo_len
      /\ x.now = w.now /\ x.later = w.later \cup {"int_cti"}
  BY <1>4, LaterFacts DEF IntsOK
<1>6. IntsOK(x)
  BY <1>4, <1>5, IntsKept
<1> HIDE DEF x
<1>7. /\ ModemSame(v, x) /\ RxSame(v, x) /\ TxSame(v, x)
      /\ x.lsr = v.lsr \cup {"RDRDY"} /\ x.fifo_len = v.fifo_len
      /\ x.now = v.now /\ x.later = v.later \cup {"int_cti"} /\ x.ints = v.ints \ {"CTI"}
  BY <1>2, <1>4, <1>5 DEF RestSame, IntsSame, ModemSame, RxSame, TxSame
<1>8. RestOK(x) /\ TxOK(x) /\ RxTypes(x) /\ RxFits(x) /\ RxJobs(x, ch)
  BY <1>7 DEF Good, RestOK, TxOK, TxTypes, TxFits, TxJobs, RxOK, RxTypes, RxFits, RxJobs,
              ModemSame, TxSame, RxSame
<1>9. x.fifo_len \in Nat /\ x.fifo_len > 0 /\ x.rxbuf \in Seq(Chars) /\ Len(x.rxbuf) \in Nat
  BY <1>8, UartConstants DEF RestOK, RxTypes, RxFits
<1>10. /\ Good(y, ch) /\ TxSeq(y) = TxSeq(x) /\ y.receiveing = x.receiveing /\ y.rxser = x.rxser
       /\ Len(x.rxbuf) < x.fifo_len => y.rxbuf = Append(x.rxbuf, c)
       /\ Len(x.rxbuf) = x.fifo_len => y.rxbuf = x.rxbuf
  <2>1. CASE Len(x.rxbuf) + 1 > x.fifo_len
    <3>1. x.rxbuf # <<>>
      BY <1>9, <2>1
    <3>2. "RLSI" \in Interrupts
      BY RankFacts
    <3>3. /\ IntsSame(x, full) /\ ModemSame(x, full) /\ RxSame(x, full) /\ TxSame(x, full)
          /\ full.lsr = x.lsr \cup {"OVRRUN"} /\ full.fifo_len = x.fifo_len
          /\ full.now = x.now /\ full.later = x.later
      BY <1>6 DEF IntsOK, IntTypes, Shape, Fields, IntsSame, ModemSame, RxSame, TxSame
    <3> HIDE DEF full
    <3>4. y = Raise(full, "RLSI")
      BY <2>1, <3>1
    <3> HIDE DEF y
    <3>5. IntsOK(full)
      BY <1>6, <3>3, IntsKept
    <3>6. IntsOK(y) /\ RestSame(full, y) /\ y.ints = full.ints \cup {"RLSI"} /\ y.later = full.later
      BY <3>2, <3>4, <3>5, RaiseGood
    <3>7. RestOK(y) /\ TxOK(y)
      BY <1>8, <3>3, <3>6 DEF RestOK, TxOK, TxTypes, TxFits, TxJobs, RestSame, IntsSame, ModemSame, TxSame
    <3>8. RxOK(y, ch)
      BY <1>7, <1>8, <3>3, <3>6, <3>1
         DEF RxOK, RxTypes, RxFits, RxReady, RxJobs, RxTimeout, RestSame, IntsSame, RxSame
    <3>9. /\ y.receiveing = x.receiveing /\ y.rxser = x.rxser /\ y.rxbuf = x.rxbuf
          /\ ~ (Len(x.rxbuf) < x.fifo_len)
      BY <1>9, <2>1, <3>3, <3>6 DEF RestSame, RxSame
    <3>10. TxSeq(y) = TxSeq(x)
      BY <3>3, <3>6 DEF RestSame, TxSame, TxSeq
    <3> QED BY <3>6, <3>7, <3>8, <3>9, <3>10 DEF Good
  <2>2. CASE ~ (Len(x.rxbuf) + 1 > x.fifo_len) /\ x.rxbuf = <<>>
    <3>1. y = uart_check_rlsi(first)
      BY <2>2
    <3>2. /\ IntsSame(x, first) /\ ModemSame(x, first) /\ TxSame(x, first)
          /\ first.lsr = x.lsr /\ first.fifo_len = x.fifo_len
          /\ first.now = x.now /\ first.later = x.later /\ first.rxbuf = << c >>
          /\ first.trigger = x.trigger /\ first.rxser = x.rxser
          /\ first.receiveing = x.receiveing
      BY <1>6 DEF IntsOK, IntTypes, Shape, Fields, IntsSame, ModemSame, TxSame
    <3> HIDE DEF first, y
    <3>3. IntsOK(first)
      BY <1>6, <3>2, IntsKept
    <3>4. RestOK(first) /\ TxOK(first)
      BY <1>8, <3>2 DEF RestOK, TxOK, TxTypes, TxFits, TxJobs, IntsSame, ModemSame, TxSame
    <3>5. first.rxbuf \in Seq(Chars) /\ Len(first.rxbuf) <= first.fifo_len /\ first.rxbuf # <<>>
      BY <1>9, <3>2
    <3>6. RxOK(first, ch)
      BY <1>7, <1>8, <3>2, <3>5 DEF RxOK, RxTypes, RxFits, RxReady, RxJobs, RxTimeout, IntsSame
    <3>7. Good(y, ch) /\ RxSame(first, y) /\ TxSeq(y) = TxSeq(first)
      BY <3>1, <3>3, <3>4, <3>6, CheckRlsiGood DEF Good
    <3>8. << c >> = Append(x.rxbuf, c)
      BY <2>2
    <3>9. TxSeq(first) = TxSeq(x)
      BY <3>2 DEF TxSame, TxSeq
    <3>10. Len(x.rxbuf) # x.fifo_len
      BY <1>9, <2>2
    <3> QED BY <3>2, <3>7, <3>8, <3>9, <3>10 DEF RxSame
  <2>3. CASE ~ (Len(x.rxbuf) + 1 > x.fifo_len) /\ x.rxbuf # <<>>
    <3>1. y = more
      BY <2>3
    <3>2. /\ IntsSame(x, more) /\ ModemSame(x, more) /\ TxSame(x, more)
          /\ more.lsr = x.lsr /\ more.fifo_len = x.fifo_len
          /\ more.now = x.now /\ more.later = x.later /\ more.rxbuf = Append(x.rxbuf, c)
          /\ more.trigger = x.trigger /\ more.rxser = x.rxser
          /\ more.receiveing = x.receiveing
      BY <1>6 DEF IntsOK, IntTypes, Shape, Fields, IntsSame, ModemSame, TxSame
    <3> HIDE DEF more, y
    <3>3. IntsOK(more)
      BY <1>6, <3>2, IntsKept
    <3>4. RestOK(more) /\ TxOK(more)
      BY <1>8, <3>2 DEF RestOK, TxOK, TxTypes, TxFits, TxJobs, IntsSame, ModemSame, TxSame
    <3>5. more.rxbuf \in Seq(Chars) /\ Len(more.rxbuf) <= more.fifo_len /\ more.rxbuf # <<>>
      BY <1>9, <2>3, <3>2
    <3>6. RxOK(more, ch)
      BY <1>7, <1>8, <3>2, <3>5 DEF RxOK, RxTypes, RxFits, RxReady, RxJobs, RxTimeout, IntsSame
    <3>7. TxSeq(more) = TxSeq(x)
      BY <3>2 DEF TxSame, TxSeq
    <3>8. Len(x.rxbuf) # x.fifo_len
      BY <1>9, <2>3
    <3> QED BY <3>1, <3>2, <3>3, <3>4, <3>6, <3>7, <3>8 DEF Good
  <2> QED BY <2>1, <2>2, <2>3
<1> HIDE DEF y
<1>11. Good(z, ch) /\ RxSame(y, z) /\ TxSeq(z) = TxSeq(y)
  BY <1>1, <1>10, CheckRdiGood
<1>12. TxSeq(x) = TxSeq(v)
  BY <1>7 DEF TxSame, TxSeq
<1> QED BY <1>7, <1>10, <1>11, <1>12 DEF RxSame

(* The jobs of the receiver.                                               *)
LEMMA IntCtiStep ==
  ASSUME IndInv, uart_int_cti
  PROVE  IndInv'
<1> DEFINE v == [u EXCEPT !.later = @ \ {"int_cti"}]
<1>1. /\ IntsSame(u, v) /\ ModemSame(u, v) /\ RxSame(u, v) /\ TxSame(u, v)
      /\ v.lsr = u.lsr /\ v.fifo_len = u.fifo_len
      /\ v.now = u.now /\ v.later = u.later \ {"int_cti"}
  BY DEF IndInv, Good, IntsOK, IntTypes, Shape, Fields, IntsSame, ModemSame, RxSame, TxSame
<1>2. u' = Raise(v, "CTI") /\ "int_cti" \in u.later
  BY DEF uart_int_cti
<1> HIDE DEF v
<1>3. IntsOK(v) /\ "CTI" \in Interrupts
  BY <1>1, IntsKept, RankFacts DEF IndInv, Good
<1>4. IntsOK(u') /\ RestSame(v, u') /\ u'.ints = v.ints \cup {"CTI"} /\ u'.later = v.later
  BY <1>2, <1>3, RaiseGood
<1>5. RestOK(u') /\ TxOK(u')
  BY <1>1, <1>4 DEF IndInv, Good, RestOK, TxOK, TxTypes, TxFits, TxJobs,
                    RestSame, IntsSame, ModemSame, TxSame
<1>6. RxOK(u', channel)
  BY <1>1, <1>2, <1>4 DEF IndInv, Good, RxOK, RxTypes, RxFits, RxReady, RxJobs, RxTimeout,
                          RestSame, IntsSame, RxSame
<1>7. RxSame(u, u') /\ TxSeq(u') = TxSeq(u)
  BY <1>1, <1>4 DEF RestSame, RxSame, TxSame, TxSeq
<1>8. Hist(rx)' /\ RxStream' /\ Hist(tx)' /\ TxStream'
  BY <1>7, RxKept, TxKept DEF IndInv, uart_int_cti
<1> QED BY <1>4, <1>5, <1>6, <1>8 DEF IndInv, Good, uart_int_cti

(* A character has arrived, or is looped back once more.                   *)
LEMMA RecvCharStep ==
  ASSUME IndInv, uart_recv_char
  PROVE  IndInv'
<1>1. PICK v : /\ u' = uart_add_char(v, u.rxser)
               /\ v = IF u.loop
                      THEN SchedLater([[u EXCEPT !.later = @ \ {"recv_char"}]
                                         EXCEPT !.rxser = IF observed = "rx" THEN Looped ELSE 0],
                                      "recv_char")
                      ELSE SchedLater([[u EXCEPT !.later = @ \ {"recv_char"}]
                                         EXCEPT !.receiveing = FALSE], "check_char")
  BY DEF uart_recv_char
<1>2. "recv_char" \in u.later /\ u.rxser \in Chars /\ "check_char" \notin u.later
  BY DEF uart_recv_char, IndInv, Good, RxOK, RxTypes, RxJobs
<1>3. /\ Good(v, channel) /\ TxSeq(v) = TxSeq(u) /\ v.rxbuf = u.rxbuf /\ v.fifo_len = u.fifo_len
      /\ ~u.loop => v.receiveing = FALSE /\ u.receiveing = TRUE
  <2>1. CASE u.loop
    <3>0. PICK c \in Chars : c = IF observed = "rx" THEN Looped ELSE 0
      BY NumberFacts
    <3>1. PICK b : b = [[u EXCEPT !.later = @ \ {"recv_char"}] EXCEPT !.rxser = c]
      OBVIOUS
    <3>a. v = SchedLater(b, "recv_char")
      BY <1>1, <2>1, <3>0, <3>1
    <3>b. /\ IntsSame(u, b) /\ ModemSame(u, b) /\ TxSame(u, b)
          /\ b.lsr = u.lsr /\ b.fifo_len = u.fifo_len /\ b.now = u.now
          /\ b.later = u.later \ {"recv_char"}
          /\ b.trigger = u.trigger /\ b.rxbuf = u.rxbuf /\ b.receiveing = u.receiveing
          /\ b.rxser = c
      BY <3>1 DEF IndInv, Good, IntsOK, IntTypes, Shape, Fields, IntsSame, ModemSame, TxSame
    <3>c. IntTypes(b) /\ "recv_char" \notin b.later
      BY <3>b, IntsKept DEF IndInv, Good, IntsOK
    <3>d. /\ IntsSame(b, v) /\ ModemSame(b, v) /\ RxSame(b, v) /\ TxSame(b, v)
          /\ v.lsr = b.lsr /\ v.fifo_len = b.fifo_len
          /\ v.now = b.now /\ v.later = b.later \cup {"recv_char"}
      BY <3>a, <3>c, LaterFacts
    <3>2. /\ IntsSame(u, v) /\ ModemSame(u, v) /\ TxSame(u, v)
          /\ v.lsr = u.lsr /\ v.fifo_len = u.fifo_len /\ v.now = u.now /\ v.later = u.later
          /\ v.trigger = u.trigger /\ v.rxbuf = u.rxbuf /\ v.receiveing = u.receiveing
          /\ v.rxser = c
      BY <1>2, <3>b, <3>d DEF IntsSame, ModemSame, TxSame, RxSame
    <3>3. IntsOK(v)
      BY <3>2, IntsKept DEF IndInv, Good
    <3>4. RestOK(v) /\ TxOK(v)
      BY <3>2 DEF IndInv, Good, RestOK, TxOK, TxTypes, TxFits, TxJobs, IntsSame, ModemSame, TxSame
    <3>5. RxOK(v, channel)
      BY <3>2 DEF IndInv, Good, RxOK, RxTypes, RxFits, RxReady, RxJobs, RxTimeout, IntsSame
    <3>6. TxSeq(v) = TxSeq(u)
      BY <3>2 DEF TxSame, TxSeq
    <3> QED BY <2>1, <3>2, <3>3, <3>4, <3>5, <3>6 DEF Good
  <2>2. CASE ~u.loop
    <3>1. PICK b : b = [[u EXCEPT !.later = @ \ {"recv_char"}] EXCEPT !.receiveing = FALSE]
      OBVIOUS
    <3>a. v = SchedLater(b, "check_char")
      BY <1>1, <2>2, <3>1
    <3>b. /\ IntsSame(u, b) /\ ModemSame(u, b) /\ TxSame(u, b)
          /\ b.lsr = u.lsr /\ b.fifo_len = u.fifo_len /\ b.now = u.now
          /\ b.later = u.later \ {"recv_char"}
          /\ b.trigger = u.trigger /\ b.rxbuf = u.rxbuf /\ b.receiveing = FALSE
          /\ b.rxser = u.rxser
      BY <3>1 DEF IndInv, Good, IntsOK, IntTypes, Shape, Fields, IntsSame, ModemSame, TxSame
    <3>c. IntTypes(b) /\ "check_char" \notin b.later
      BY <1>2, <3>b, IntsKept DEF IndInv, Good, IntsOK
    <3>d. /\ IntsSame(b, v) /\ ModemSame(b, v) /\ RxSame(b, v) /\ TxSame(b, v)
          /\ v.lsr = b.lsr /\ v.fifo_len = b.fifo_len
          /\ v.now = b.now /\ v.later = b.later \cup {"check_char"}
      BY <3>a, <3>c, LaterFacts
    <3>2. /\ IntsSame(u, v) /\ ModemSame(u, v) /\ TxSame(u, v)
          /\ v.lsr = u.lsr /\ v.fifo_len = u.fifo_len /\ v.now = u.now
          /\ v.later = (u.later \ {"recv_char"}) \cup {"check_char"}
          /\ v.trigger = u.trigger /\ v.rxbuf = u.rxbuf /\ v.receiveing = FALSE
          /\ v.rxser = u.rxser
      BY <3>b, <3>d DEF IntsSame, ModemSame, TxSame, RxSame
    <3>3. IntsOK(v)
      BY <3>2, IntsKept DEF IndInv, Good
    <3>4. RestOK(v) /\ TxOK(v)
      BY <3>2 DEF IndInv, Good, RestOK, TxOK, TxTypes, TxFits, TxJobs, IntsSame, ModemSame, TxSame
    <3>5. RxOK(v, channel)
      BY <1>2, <3>2 DEF IndInv, Good, RxOK, RxTypes, RxFits, RxReady, RxJobs, RxTimeout, IntsSame
    <3>6. TxSeq(v) = TxSeq(u)
      BY <3>2 DEF TxSame, TxSeq
    <3>7. u.receiveing = TRUE
      BY <1>2 DEF IndInv, Good, RxOK, RxTypes, RxJobs
    <3> QED BY <3>2, <3>3, <3>4, <3>5, <3>6, <3>7 DEF Good
  <2> QED BY <2>1, <2>2
<1>4. /\ Good(u', channel) /\ TxSeq(u') = TxSeq(v) /\ u'.receiveing = v.receiveing
      /\ Len(v.rxbuf) < v.fifo_len => u'.rxbuf = Append(v.rxbuf, u.rxser)
      /\ Len(v.rxbuf) = v.fifo_len => u'.rxbuf = v.rxbuf
  <2>1. u' = uart_add_char(v, u.rxser)
    BY <1>1
  <2>2. Good(v, channel) /\ u.rxser \in Chars
    BY <1>2, <1>3
  <2> QED BY <2>1, <2>2, AddCharGood
<1>5. Hist(tx)' /\ TxStream'
  BY <1>3, <1>4, TxKept DEF IndInv, uart_recv_char
<1>6. Hist(rx)' /\ RxStream'
  <2> DEFINE c == IF Overrun THEN u.rxser ELSE rx.count
  <2>1. ASSUME observed = "rx", rx.clean, ~u.loop
        PROVE  c \in Numbers /\ rx.next \in Numbers /\ RxSeq(u') = Run(rx.next, c)
    <3>1. Append(u.rxbuf, u.rxser) = Run(rx.next, rx.count)
      BY <1>3, <2>1 DEF IndInv, RxStream
    <3>2. Len(u.rxbuf) \in Nat /\ u.fifo_len \in Nat /\ Len(u.rxbuf) <= u.fifo_len
          /\ u.rxbuf \in Seq(Chars) /\ u.rxser \in Chars
      BY UartConstants DEF IndInv, Good, RestOK, RxOK, RxTypes, RxFits
    <3>3. rx.next \in Numbers /\ rx.count \in Numbers
      BY <2>1 DEF IndInv, Hist
    <3>4. CASE Len(u.rxbuf) = u.fifo_len
      <4>1. c = u.rxser
        BY <2>1, <3>4 DEF Overrun
      <4>2. u.rxser \in Numbers /\ u.rxbuf = Run(rx.next, u.rxser)
        BY <3>1, <3>2, <3>3, RunButLast
      <4>3. u'.rxbuf = u.rxbuf /\ ~ u'.receiveing
        BY <1>3, <1>4, <2>1, <3>4
      <4> QED BY <3>3, <4>1, <4>2, <4>3 DEF RxSeq
    <3>5. CASE Len(u.rxbuf) # u.fifo_len
      <4>1. c = rx.count
        BY <3>5 DEF Overrun
      <4>2. u'.rxbuf = Append(u.rxbuf, u.rxser) /\ ~ u'.receiveing
        BY <1>3, <1>4, <2>1, <3>2, <3>5
      <4> QED BY <3>1, <3>3, <4>1, <4>2 DEF RxSeq
    <3> QED BY <3>4, <3>5
  <2>2. RxHistory(u', c, rx.next, u.loop)
    BY DEF uart_recv_char
  <2>3. c \in Numbers
    <3>1. CASE ~Overrun
      BY <3>1 DEF IndInv, Hist
    <3>2. CASE Overrun
      BY <2>1, <3>2 DEF Overrun
    <3> QED BY <3>1, <3>2
  <2> HIDE DEF c
  <2> QED BY <2>1, <2>2, <2>3, RxAccounts DEF IndInv, uart_recv_char
<1> QED BY <1>4, <1>5, <1>6 DEF IndInv, uart_recv_char

(* The channel is polled.                                                  *)
LEMMA CheckCharStep ==
  ASSUME IndInv, uart_check_char
  PROVE  IndInv'
<1>1. "check_char" \in u.later /\ UNCHANGED <<tx, observed>>
  BY DEF uart_check_char
<1>2. CASE /\ u' = SchedLater([u EXCEPT !.rxser = rx.count, !.receiveing = TRUE,
                                        !.later = @ \ {"check_char"}],
                              "recv_char")
           /\ RxHistory(u', Inc(rx.count), rx.next, FALSE)
           /\ UNCHANGED channel
  <2>1. /\ IntsSame(u, u') /\ ModemSame(u, u') /\ TxSame(u, u')
        /\ u'.lsr = u.lsr /\ u'.fifo_len = u.fifo_len /\ u'.now = u.now
        /\ u'.later = (u.later \ {"check_char"}) \cup {"recv_char"}
        /\ u'.trigger = u.trigger /\ u'.rxbuf = u.rxbuf /\ u'.receiveing = TRUE
        /\ u'.rxser = rx.count
    <3>1. PICK b : b = [u EXCEPT !.rxser = rx.count, !.receiveing = TRUE,
                                 !.later = @ \ {"check_char"}]
      OBVIOUS
    <3>2. /\ IntsSame(u, b) /\ ModemSame(u, b) /\ TxSame(u, b)
          /\ b.lsr = u.lsr /\ b.fifo_len = u.fifo_len /\ b.now = u.now
          /\ b.later = u.later \ {"check_char"}
          /\ b.trigger = u.trigger /\ b.rxbuf = u.rxbuf /\ b.receiveing = TRUE
          /\ b.rxser = rx.count
      BY <3>1 DEF IndInv, Good, IntsOK, IntTypes, Shape, Fields, IntsSame, ModemSame, TxSame
    <3>3. IntTypes(b) /\ "recv_char" \notin b.later
      BY <1>1, <3>2, IntsKept DEF IndInv, Good, IntsOK, RxOK, RxJobs
    <3>4. PICK v : v = u' /\ v = SchedLater(b, "recv_char")
      BY <1>2, <3>1
    <3>5. /\ IntsSame(b, v) /\ ModemSame(b, v) /\ RxSame(b, v) /\ TxSame(b, v)
          /\ v.lsr = b.lsr /\ v.fifo_len = b.fifo_len
          /\ v.now = b.now /\ v.later = b.later \cup {"recv_char"}
      BY <3>3, <3>4, LaterFacts
    <3> QED BY <3>2, <3>4, <3>5 DEF IntsSame, ModemSame, TxSame, RxSame
  <2>2. IntsOK(u')
    BY <2>1, IntsKept DEF IndInv, Good
  <2>3. RestOK(u') /\ TxOK(u')
    BY <2>1 DEF IndInv, Good, RestOK, TxOK, TxTypes, TxFits, TxJobs, IntsSame, ModemSame, TxSame
  <2>4. rx.count \in Chars /\ Inc(rx.count) \in Numbers
    BY NumberFacts DEF IndInv, Hist
  <2>5. RxOK(u', channel)
    BY <1>1, <2>1, <2>4 DEF IndInv, Good, RxOK, RxTypes, RxFits, RxReady, RxJobs, RxTimeout, IntsSame
  <2>6. Hist(rx)' /\ RxStream'
    <3>1. ASSUME observed = "rx", rx.clean
          PROVE  rx.next \in Numbers /\ RxSeq(u') = Run(rx.next, Inc(rx.count))
      <4>1. ~ u.receiveing
        BY <1>1 DEF IndInv, Good, RxOK, RxTypes, RxJobs
      <4>2. u.rxbuf = Run(rx.next, rx.count)
        BY <3>1, <4>1 DEF IndInv, RxStream
      <4>3. Len(u.rxbuf) < CharMod - 1
        BY UartConstants DEF IndInv, Good, RestOK, RxOK, RxTypes, RxFits
      <4>4. Append(u.rxbuf, rx.count) = Run(rx.next, Inc(rx.count))
        BY <4>2, <4>3, RunAppend DEF IndInv, Hist
      <4> QED BY <2>1, <4>4 DEF IndInv, Hist, RxSeq
    <3> QED BY <1>1, <1>2, <2>4, <3>1, RxAccounts DEF IndInv
  <2>7. Hist(tx)' /\ TxStream'
    <3>1. TxSeq(u') = TxSeq(u)
      BY <2>1 DEF TxSame, TxSeq
    <3> QED BY <1>1, <3>1, TxKept DEF IndInv
  <2> QED BY <1>1, <1>2, <2>2, <2>3, <2>5, <2>6, <2>7 DEF IndInv, Good
<1>3. CASE UNCHANGED <<u, channel, rx>>
  BY <1>1, <1>3 DEF IndInv, RxStream, TxStream
<1>4. CASE /\ u' = [u EXCEPT !.later = @ \ {"check_char"}]
           /\ channel' = FALSE
           /\ UNCHANGED rx
  <2>1. /\ IntsSame(u, u') /\ ModemSame(u, u') /\ TxSame(u, u') /\ RxSame(u, u')
        /\ u'.lsr = u.lsr /\ u'.fifo_len = u.fifo_len /\ u'.now = u.now
        /\ u'.later = u.later \ {"check_char"}
    BY <1>4 DEF IndInv, Good, IntsOK, IntTypes, Shape, Fields, IntsSame, ModemSame, TxSame, RxSame
  <2>2. IntsOK(u')
    BY <2>1, IntsKept DEF IndInv, Good
  <2>3. RestOK(u') /\ TxOK(u')
    BY <2>1 DEF IndInv, Good, RestOK, TxOK, TxTypes, TxFits, TxJobs, IntsSame, ModemSame, TxSame
  <2>4. RxOK(u', FALSE)
    BY <1>1, <2>1 DEF IndInv, Good, RxOK, RxTypes, RxFits, RxReady, RxJobs, RxTimeout,
                      IntsSame, RxSame
  <2>5. TxSeq(u') = TxSeq(u)
    BY <2>1 DEF TxSame, TxSeq
  <2>6. Hist(rx)' /\ RxStream' /\ Hist(tx)' /\ TxStream'
    BY <1>1, <1>4, <2>1, <2>5, RxKept, TxKept DEF IndInv
  <2> QED BY <1>1, <1>4, <2>2, <2>3, <2>4, <2>6 DEF IndInv, Good
<1> QED BY <1>2, <1>3, <1>4 DEF uart_check_char

-----------------------------------------------------------------------------
(* Register accesses.                                                      *)

(* The FIFO after a write: it holds something, and not too much.           *)
LEMMA WrittenFacts ==
  ASSUME NEW s \in Seq(Chars), NEW n \in Nat \ {0}, Len(s) <= n, NEW c \in Chars,
         NEW r, r = IF Len(s) < n THEN Append(s, c) ELSE [s EXCEPT ![1] = c]
  PROVE  r \in Seq(Chars) /\ Len(r) <= n /\ r # <<>>
<1>1. CASE Len(s) < n
  <2>1. r = Append(s, c)
    BY <1>1
  <2> QED BY <1>1, <2>1
<1>2. CASE ~ (Len(s) < n)
  <2>1. r = [s EXCEPT ![1] = c]
    BY <1>2
  <2>2. Len(s) = n /\ Len(s) \in Nat /\ Len(s) > 0
    BY <1>2
  <2>3. r \in Seq(Chars) /\ Len(r) = Len(s)
    BY <2>1, <2>2
  <2> QED BY <2>2, <2>3
<1> QED BY <1>1, <1>2

(* A character before and one behind, in either order.                     *)
LEMMA ConsAppend ==
  ASSUME NEW S, NEW x \in S, NEW y \in S, NEW s \in Seq(S)
  PROVE  << x >> \o Append(s, y) = Append(<< x >> \o s, y)
<1> DEFINE l == << x >> \o Append(s, y)
           r == Append(<< x >> \o s, y)
<1>1. l \in Seq(S) /\ r \in Seq(S) /\ Len(l) = Len(r)
  OBVIOUS
<1>2. \A i \in 1 .. Len(l) : l[i] = r[i]
  OBVIOUS
<1> QED BY <1>1, <1>2, SeqsEqual

(* A write to TXBUF withdraws THRI and starts an idle transmitter.         *)
LEMMA WriteTxbufStep ==
  ASSUME IndInv, write_TXBUF
  PROVE  IndInv'
<1> DEFINE buf == IF Len(u.txbuf) < u.fifo_len THEN Append(u.txbuf, tx.count)
                                              ELSE [u.txbuf EXCEPT ![1] = tx.count]
           b == [u EXCEPT !.lsr = @ \ {"TXBUFE"}, !.txbuf = buf]
           v == IF u.txbuf = <<>> /\ "TXSERE" \in u.lsr THEN SchedNow(b, "tx_send") ELSE b
<1>1. u' = uart_clear_int(v, "THRI") /\ u.now = {}
  BY DEF write_TXBUF, Insn
<1>2. buf \in Seq(Chars) /\ Len(buf) <= u.fifo_len /\ buf # <<>>
  <2>1. u.fifo_len \in Nat \ {0}
    BY UartConstants DEF IndInv, Good, RestOK
  <2>2. u.txbuf \in Seq(Chars) /\ Len(u.txbuf) <= u.fifo_len /\ tx.count \in Chars
    BY NumberFacts DEF IndInv, Hist, Good, TxOK, TxTypes, TxFits
  <2> QED BY <2>1, <2>2, WrittenFacts
<1>3. Len(u.txbuf) # u.fifo_len => buf = Append(u.txbuf, tx.count)
  <2>1. u.fifo_len \in Nat /\ Len(u.txbuf) \in Nat /\ Len(u.txbuf) <= u.fifo_len
    BY UartConstants DEF IndInv, Good, RestOK, TxOK, TxTypes, TxFits
  <2> QED BY <2>1
<1> HIDE DEF buf
<1>4. /\ IntsSame(u, v) /\ ModemSame(u, v) /\ RxSame(u, v)
      /\ v.lsr = u.lsr \ {"TXBUFE"} /\ v.fifo_len = u.fifo_len /\ v.later = u.later
      /\ v.txbuf = buf /\ v.txser = u.txser /\ v.sbc = u.sbc
      /\ v.now = (IF u.txbuf = <<>> /\ "TXSERE" \in u.lsr
                  THEN u.now \cup {"tx_send"} ELSE u.now)
  <2>1. /\ IntsSame(u, b) /\ ModemSame(u, b) /\ RxSame(u, b)
        /\ b.lsr = u.lsr \ {"TXBUFE"} /\ b.fifo_len = u.fifo_len /\ b.later = u.later
        /\ b.txbuf = buf /\ b.txser = u.txser /\ b.sbc = u.sbc /\ b.now = u.now
    BY DEF IndInv, Good, IntsOK, IntTypes, Shape, Fields, IntsSame, ModemSame, RxSame
  <2> HIDE DEF b
  <2>2. IntTypes(b) /\ "tx_send" \notin b.now
    BY <1>1, <2>1, IntsKept DEF IndInv, Good, IntsOK
  <2>3. CASE u.txbuf = <<>> /\ "TXSERE" \in u.lsr
    <3>1. v = SchedNow(b, "tx_send")
      BY <2>3
    <3> HIDE DEF v
    <3>2. /\ IntsSame(b, v) /\ ModemSame(b, v) /\ RxSame(b, v) /\ TxSame(b, v)
          /\ v.lsr = b.lsr /\ v.fifo_len = b.fifo_len
          /\ v.now = b.now \cup {"tx_send"} /\ v.later = b.later
      BY <2>2, <3>1, NowFacts
    <3> QED BY <2>1, <2>3, <3>2 DEF IntsSame, ModemSame, RxSame, TxSame
  <2>4. CASE ~ (u.txbuf = <<>> /\ "TXSERE" \in u.lsr)
    <3>1. v = b
      BY <2>4
    <3> HIDE DEF v
    <3> QED BY <2>1, <2>4, <3>1
  <2> QED BY <2>3, <2>4
<1> HIDE DEF v
<1>5. IntsOK(v) /\ "THRI" \in Interrupts
  BY <1>4, IntsKept, RankFacts DEF IndInv, Good
<1>6. IntsOK(u') /\ RestSame(v, u') /\ u'.ints = v.ints \ {"THRI"} /\ u'.later = v.later
  BY <1>1, <1>5, ClearGood
<1>7. RestOK(u')
  BY <1>4, <1>6 DEF IndInv, Good, RestOK, RestSame, ModemSame
<1>8. TxTypes(u') /\ TxFits(u')
  BY <1>2, <1>4, <1>6 DEF IndInv, Good, TxOK, TxTypes, TxFits, RestSame
<1>9. TxJobs(u')
  BY <1>1, <1>2, <1>4, <1>6 DEF IndInv, Good, TxOK, TxTypes, TxJobs, RestSame
<1>10. RxOK(u', channel)
  BY <1>4, <1>6 DEF IndInv, Good, RxOK, RxTypes, RxFits, RxReady, RxJobs, RxTimeout,
                    RestSame, IntsSame, RxSame
<1>11. Hist(rx)' /\ RxStream'
  <2>1. RxSame(u, u')
    BY <1>4, <1>6 DEF RestSame, RxSame
  <2> QED BY <2>1, RxKept DEF IndInv, write_TXBUF
<1>12. Hist(tx)' /\ TxStream'
  <2>1. tx.count \in Chars /\ Inc(tx.count) \in Numbers
    BY NumberFacts DEF IndInv, Hist
  <2>2. ASSUME observed = "tx", tx.clean, Len(u.txbuf) # u.fifo_len
        PROVE  tx.next \in Numbers /\ TxSeq(u') = Run(tx.next, Inc(tx.count))
    <3>1. TxSeq(u) = Run(tx.next, tx.count)
      BY <2>2 DEF IndInv, TxStream, TxSeq
    <3>2. /\ u.txbuf \in Seq(Chars) /\ u.txser \in Chars /\ Len(u.txbuf) \in Nat
          /\ Len(u.txbuf) < u.fifo_len /\ u.fifo_len \in Nat /\ u.fifo_len <= FIFO_LEN
      BY <2>2, UartConstants DEF IndInv, Good, RestOK, TxOK, TxTypes, TxFits
    <3>3. Len(TxSeq(u)) < CharMod - 1
      BY <3>2, UartConstants DEF TxSeq
    <3>4. Append(TxSeq(u), tx.count) = Run(tx.next, Inc(tx.count))
      BY <3>1, <3>3, RunAppend DEF IndInv, Hist
    <3>5. u'.txbuf = Append(u.txbuf, tx.count) /\ u'.txser = u.txser
      BY <1>4, <1>6, <1>3, <2>2 DEF RestSame
    <3>6. "TXSERE" \in u'.lsr <=> "TXSERE" \in u.lsr
      BY <1>4, <1>6 DEF RestSame
    <3>7. << u.txser >> \o Append(u.txbuf, tx.count) = Append(<< u.txser >> \o u.txbuf, tx.count)
      BY <2>1, <3>2, ConsAppend
    <3> QED BY <3>4, <3>5, <3>6, <3>7 DEF IndInv, Hist, TxSeq
  <2> QED BY <2>1, <2>2, TxAccounts DEF IndInv, write_TXBUF
<1> QED BY <1>6, <1>7, <1>8, <1>9, <1>10, <1>11, <1>12 DEF IndInv, Good, TxOK, write_TXBUF

(* What holds of the device while a FIFO may be longer than its new mode   *)
(* allows.                                                                 *)
Loose(v, ch) ==
  /\ IntsOK(v) /\ RestOK(v) /\ TxTypes(v) /\ TxJobs(v)
  /\ RxTypes(v) /\ RxReady(v) /\ RxJobs(v, ch) /\ RxTimeout(v)

(* The transmit FIFO is emptied.                                           *)
LEMMA ResetTxLoose ==
  ASSUME NEW v, NEW ch, Loose(v, ch), NEW z, z = ResetTx(v)
  PROVE  Loose(z, ch) /\ TxFits(z) /\ (RxFits(v) => RxFits(z)) /\ RxSame(v, z)
<1> DEFINE w == [v EXCEPT !.txbuf = <<>>, !.lsr = @ \cup {"TXBUFE"}]
<1>1. PICK x : /\ x = IF w.fifo_len = FIFO_LEN THEN Raise(w, "THRI") ELSE w
               /\ z = [x EXCEPT !.now = @ \ {"tx_send"}]
  BY DEF ResetTx
<1>2. /\ IntsSame(v, w) /\ ModemSame(v, w) /\ RxSame(v, w)
      /\ w.lsr = v.lsr \cup {"TXBUFE"} /\ w.fifo_len = v.fifo_len
      /\ w.now = v.now /\ w.later = v.later
      /\ w.sbc = v.sbc /\ w.txbuf = <<>> /\ w.txser = v.txser
  BY DEF Loose, IntsOK, IntTypes, Shape, Fields, IntsSame, ModemSame, RxSame
<1> HIDE DEF w
<1>3. IntsOK(w) /\ "THRI" \in Interrupts
  BY <1>2, IntsKept, RankFacts DEF Loose
<1>4. /\ IntsOK(x) /\ ModemSame(w, x) /\ RxSame(w, x) /\ TxSame(w, x)
      /\ x.lsr = w.lsr /\ x.fifo_len = w.fifo_len /\ x.now = w.now /\ x.later = w.later
      /\ x.ints \in {w.ints, w.ints \cup {"THRI"}}
  <2>1. CASE x = Raise(w, "THRI")
    <3>1. IntsOK(x) /\ RestSame(w, x) /\ x.ints = w.ints \cup {"THRI"} /\ x.later = w.later
      BY <1>3, <2>1, RaiseGood
    <3> QED BY <3>1 DEF RestSame, ModemSame, RxSame, TxSame
  <2>2. CASE x = w
    BY <1>3, <2>2 DEF ModemSame, RxSame, TxSame
  <2> QED BY <1>1, <2>1, <2>2
<1>5. /\ IntsSame(x, z) /\ ModemSame(x, z) /\ RxSame(x, z) /\ TxSame(x, z)
      /\ z.lsr = x.lsr /\ z.fifo_len = x.fifo_len
      /\ z.now = x.now \ {"tx_send"} /\ z.later = x.later
  BY <1>1, <1>4 DEF IntsOK, IntTypes, Shape, Fields, IntsSame, ModemSame, RxSame, TxSame
<1>6. IntsOK(z)
  BY <1>4, <1>5, IntsKept
<1>7. z.ints \in {v.ints, v.ints \cup {"THRI"}}
  BY <1>2, <1>4, <1>5 DEF IntsSame
<1>8. RestOK(z)
  BY <1>2, <1>4, <1>5 DEF Loose, RestOK, ModemSame
<1>9. v.fifo_len \in Nat
  BY UartConstants DEF Loose, RestOK
<1>10. z.txbuf = <<>> /\ z.fifo_len = v.fifo_len
  BY <1>2, <1>4, <1>5 DEF TxSame
<1>11. TxFits(z)
  BY <1>9, <1>10 DEF TxFits
<1>12. TxTypes(z) /\ TxJobs(z)
  BY <1>2, <1>4, <1>5, <1>10 DEF Loose, TxTypes, TxJobs, TxSame
<1>13. RxTypes(z) /\ RxReady(z) /\ RxJobs(z, ch) /\ RxTimeout(z) /\ (RxFits(v) => RxFits(z))
  BY <1>2, <1>4, <1>5, <1>7 DEF Loose, RxTypes, RxReady, RxJobs, RxTimeout, RxFits, RxSame
<1>14. RxSame(v, z)
  BY <1>2, <1>4, <1>5 DEF RxSame
<1> QED BY <1>6, <1>8, <1>11, <1>12, <1>13, <1>14 DEF Loose

(* The receive FIFO is emptied, and its timeout with it.                   *)
LEMMA ResetRxLoose ==
  ASSUME NEW v, NEW ch, Loose(v, ch), NEW z, z = ResetRx(v)
  PROVE  /\ Loose(z, ch) /\ RxFits(z) /\ (TxFits(v) => TxFits(z)) /\ TxSeq(z) = TxSeq(v)
         /\ z.rxbuf = <<>> /\ z.rxser = v.rxser /\ z.receiveing = v.receiveing
<1> DEFINE a == [v EXCEPT !.rxbuf = <<>>, !.lsr = @ \ {"RDRDY"}]
           w == uart_clear_int(a, "RDI")
<1>1. z = uart_clear_int(w, "CTI")
  BY DEF ResetRx
<1>2. /\ IntsSame(v, a) /\ ModemSame(v, a) /\ TxSame(v, a)
      /\ a.lsr = v.lsr \ {"RDRDY"} /\ a.fifo_len = v.fifo_len
      /\ a.now = v.now /\ a.later = v.later
      /\ a.rxbuf = <<>> /\ a.trigger = v.trigger /\ a.rxser = v.rxser
      /\ a.receiveing = v.receiveing
  BY DEF Loose, IntsOK, IntTypes, Shape, Fields, IntsSame, ModemSame, TxSame
<1> HIDE DEF a
<1>3. IntsOK(a) /\ "CTI" \in Interrupts /\ "RDI" \in Interrupts /\ "RDI" # "CTI"
  BY <1>2, IntsKept, RankFacts DEF Loose
<1>4. IntsOK(w) /\ RestSame(a, w) /\ w.ints = a.ints \ {"RDI"} /\ w.later = a.later
  BY <1>3, ClearGood
<1> HIDE DEF w
<1>5. IntsOK(z) /\ RestSame(w, z) /\ z.ints = w.ints \ {"CTI"} /\ z.later = w.later \ {"int_cti"}
  BY <1>1, <1>3, <1>4, ClearGood
<1>6. v.fifo_len \in Nat
  BY UartConstants DEF Loose, RestOK
<1>7. /\ ModemSame(v, z) /\ TxSame(v, z)
      /\ z.lsr = v.lsr \ {"RDRDY"} /\ z.fifo_len = v.fifo_len
      /\ z.now = v.now /\ z.later = v.later \ {"int_cti"}
      /\ z.rxbuf = <<>> /\ z.trigger = v.trigger /\ z.rxser = v.rxser
      /\ z.receiveing = v.receiveing /\ z.ints = (v.ints \ {"RDI"}) \ {"CTI"}
  BY <1>2, <1>4, <1>5 DEF RestSame, IntsSame, ModemSame, TxSame
<1>8. RestOK(z) /\ TxTypes(z) /\ TxJobs(z) /\ (TxFits(v) => TxFits(z))
  BY <1>7 DEF Loose, RestOK, TxTypes, TxJobs, TxFits, ModemSame, TxSame
<1>9. RxTypes(z) /\ RxReady(z) /\ RxJobs(z, ch) /\ RxTimeout(z)
  BY <1>7 DEF Loose, RxTypes, RxReady, RxJobs, RxTimeout
<1>10. RxFits(z)
  BY <1>6, <1>7 DEF RxFits
<1>11. TxSeq(z) = TxSeq(v)
  BY <1>7 DEF TxSame, TxSeq
<1> QED BY <1>5, <1>7, <1>8, <1>9, <1>10, <1>11 DEF Loose

(* A write to FCR, with or without a change of mode.                       *)
LEMMA WriteFcrStep ==
  ASSUME IndInv, NEW fie \in BOOLEAN, NEW rrxfi \in BOOLEAN, NEW rtxfi \in BOOLEAN,
         NEW t \in Triggers, write_FCR(fie, rrxfi, rtxfi, t)
  PROVE  IndInv'
<1> DEFINE len == IF fie THEN FIFO_LEN ELSE 1
           both == len # u.fifo_len
           v == [u EXCEPT !.trigger = t, !.fifo_len = len]
           w == IF rtxfi \/ both THEN ResetTx(v) ELSE v
<1>1. u' = (IF rrxfi \/ both THEN ResetRx(w) ELSE w)
  BY DEF write_FCR
<1>2. /\ UNCHANGED <<channel, observed>>
      /\ RxHistory(u', rx.count,
                   IF u'.rxbuf = <<>> /\ u.receiveing THEN u.rxser ELSE rx.next, FALSE)
      /\ TxHistory(u', tx.count, tx.next, rtxfi \/ both)
  BY DEF write_FCR
<1>3. /\ IntsSame(u, v) /\ ModemSame(u, v) /\ TxSame(u, v)
      /\ v.lsr = u.lsr /\ v.fifo_len = len /\ v.now = u.now /\ v.later = u.later
      /\ v.rxbuf = u.rxbuf /\ v.trigger = t /\ v.rxser = u.rxser /\ v.receiveing = u.receiveing
  BY DEF IndInv, Good, IntsOK, IntTypes, Shape, Fields, IntsSame, ModemSame, TxSame
<1>4. len \in {1, FIFO_LEN}
  OBVIOUS
<1> HIDE DEF len, v
<1>5. IntsOK(v)
  BY <1>3, IntsKept DEF IndInv, Good
<1>6. RestOK(v) /\ TxTypes(v) /\ TxJobs(v)
  BY <1>3, <1>4 DEF IndInv, Good, RestOK, TxOK, TxTypes, TxJobs, IntsSame, ModemSame, TxSame
<1>7. RxTypes(v) /\ RxReady(v) /\ RxJobs(v, channel) /\ RxTimeout(v)
  BY <1>3 DEF IndInv, Good, RxOK, RxTypes, RxReady, RxJobs, RxTimeout, IntsSame
<1>8. Loose(v, channel)
  BY <1>5, <1>6, <1>7 DEF Loose
<1>9. ~both => TxFits(v) /\ RxFits(v)
  BY <1>3 DEF IndInv, Good, TxOK, TxFits, RxOK, RxFits, TxSame
<1>10. /\ Loose(w, channel) /\ TxFits(w) /\ (~both => RxFits(w)) /\ RxSame(v, w)
       /\ ~ (rtxfi \/ both) => TxSeq(w) = TxSeq(v)
  <2>1. CASE rtxfi \/ both
    BY <1>8, <1>9, <2>1, ResetTxLoose
  <2>2. CASE ~ (rtxfi \/ both)
    BY <1>8, <1>9, <2>2 DEF RxSame
  <2> QED BY <2>1, <2>2
<1> HIDE DEF w
<1>11. /\ Loose(u', channel) /\ TxFits(u') /\ RxFits(u') /\ TxSeq(u') = TxSeq(w)
       /\ u'.rxser = w.rxser /\ u'.receiveing = w.receiveing
       /\ u'.rxbuf = <<>> \/ u'.rxbuf = w.rxbuf
  <2>1. CASE rrxfi \/ both
    BY <1>1, <1>10, <2>1, ResetRxLoose
  <2>2. CASE ~ (rrxfi \/ both)
    BY <1>1, <1>10, <2>2
  <2> QED BY <2>1, <2>2
<1>12. Good(u', channel)
  BY <1>11 DEF Loose, Good, TxOK, RxOK
<1>13. Hist(tx)' /\ TxStream'
  <2>1. observed = "tx" /\ tx.clean /\ ~ (rtxfi \/ both)
          => tx.next \in Numbers /\ TxSeq(u') = Run(tx.next, tx.count)
    BY <1>3, <1>10, <1>11 DEF IndInv, Hist, TxStream, TxSeq, TxSame
  <2> HIDE DEF both
  <2> QED BY <1>2, <2>1, TxAccounts DEF IndInv, Hist
<1>14. Hist(rx)' /\ RxStream'
  <2> DEFINE n == IF u'.rxbuf = <<>> /\ u.receiveing THEN u.rxser ELSE rx.next
  <2>1. /\ u'.rxser = u.rxser /\ u'.receiveing = u.receiveing
        /\ u'.rxbuf = <<>> \/ u'.rxbuf = u.rxbuf
    BY <1>3, <1>10, <1>11 DEF RxSame
  <2>2. ASSUME observed = "rx", rx.clean
        PROVE  u.receiveing => u.rxser \in Numbers /\ << u.rxser >> = Run(u.rxser, rx.count)
    <3> SUFFICES ASSUME u.receiveing
                 PROVE  u.rxser \in Numbers /\ << u.rxser >> = Run(u.rxser, rx.count)
      OBVIOUS
    <3> DEFINE r == Run(rx.next, rx.count)
    <3>1. Append(u.rxbuf, u.rxser) = r
      BY <2>2 DEF IndInv, RxStream
    <3>2. u.rxbuf \in Seq(Chars) /\ u.rxser \in Chars
      BY DEF IndInv, Good, RxOK, RxTypes
    <3>3. r # <<>> /\ r[Len(r)] = u.rxser
      BY <3>1, <3>2
    <3>4. u.rxser \in Numbers /\ Inc(u.rxser) = rx.count
      BY <3>3, RunLast DEF IndInv, Hist
    <3>5. Run(u.rxser, u.rxser) = <<>>
      BY <3>4, RunEmpty
    <3>6. Append(<<>>, u.rxser) = Run(u.rxser, rx.count)
      <4>1. Len(<<>>) < CharMod - 1
        BY UartConstants
      <4> QED BY <3>4, <3>5, <4>1, RunAppend
    <3> QED BY <3>4, <3>6
  <2>3. observed = "rx" /\ rx.clean /\ (u'.rxbuf # <<>> \/ u'.receiveing)
          => n \in Numbers /\ RxSeq(u') = Run(n, rx.count)
    <3>1. CASE u'.rxbuf = <<>> /\ u.receiveing
      <4>1. n = u.rxser /\ RxSeq(u') = << u.rxser >>
        BY <2>1, <3>1 DEF RxSeq
      <4> QED BY <2>2, <3>1, <4>1
    <3>2. CASE u'.rxbuf # <<>>
      BY <2>1, <3>2 DEF IndInv, Hist, RxStream, RxSeq
    <3>3. CASE u'.rxbuf = <<>> /\ ~u.receiveing
      BY <2>1, <3>3
    <3> QED BY <3>1, <3>2, <3>3
  <2> HIDE DEF n
  <2> QED BY <1>2, <2>3, RxAccounts DEF IndInv, Hist, n
<1> QED BY <1>2, <1>12, <1>13, <1>14 DEF IndInv

(* A write to IER identifies the interrupts anew.                          *)
LEMMA WriteIerStep ==
  ASSUME IndInv, NEW ier \in IERs, write_IER(ier)
  PROVE  IndInv'
<1> DEFINE v == [u EXCEPT !.ier = ier]
<1>1. u' = uart_next_int(v) /\ UNCHANGED <<channel, rx, tx, observed>>
  BY DEF write_IER
<1>2. /\ Shape(v) /\ v.ints = u.ints /\ v.ier = ier /\ v.iir = u.iir /\ v.line = u.line
      /\ v.stale = u.stale /\ v.twice = u.twice
      /\ ModemSame(u, v) /\ TxSame(u, v) /\ RxSame(u, v)
      /\ v.lsr = u.lsr /\ v.fifo_len = u.fifo_len /\ v.now = u.now /\ v.later = u.later
  BY DEF IndInv, Good, IntsOK, IntTypes, Shape, Fields, ModemSame, TxSame, RxSame
<1> HIDE DEF v
<1>3. ier \subseteq Interrupts \ {"CTI"}
  BY UartConstants, RankFacts
<1>4. IntTypes(v) /\ LineIsIir(v)
  BY <1>2, <1>3 DEF IndInv, Good, IntsOK, IntTypes, Shown, LineIsIir
<1>5. IntsOK(u') /\ RestSame(v, u') /\ u'.ints = v.ints /\ u'.later = v.later
  BY <1>1, <1>4, NextIntFacts DEF IntsOK
<1>6. RestOK(u') /\ TxOK(u')
  BY <1>2, <1>5 DEF IndInv, Good, RestOK, TxOK, TxTypes, TxFits, TxJobs,
                    RestSame, ModemSame, TxSame
<1>7. RxOK(u', channel)
  BY <1>2, <1>5 DEF IndInv, Good, RxOK, RxTypes, RxFits, RxReady, RxJobs, RxTimeout,
                    RestSame, RxSame
<1>8. RxSame(u, u') /\ TxSeq(u') = TxSeq(u)
  BY <1>2, <1>5 DEF RestSame, RxSame, TxSame, TxSeq
<1>9. Hist(rx)' /\ RxStream' /\ Hist(tx)' /\ TxStream'
  BY <1>1, <1>8, RxKept, TxKept DEF IndInv
<1> QED BY <1>1, <1>5, <1>6, <1>7, <1>9 DEF IndInv, Good

(* LCR[SBC] changes while no job is due: a busy transmitter changes from   *)
(* the one of its jobs to the other.                                       *)
LEMMA WriteLcrStep ==
  ASSUME IndInv, NEW sbc \in BOOLEAN, write_LCR(sbc)
  PROVE  IndInv'
<1> DEFINE busy == "TXSERE" \notin u.lsr
<1>1. /\ u.now = {} /\ sbc # u.sbc
      /\ u' = IF "TXSERE" \in u.lsr THEN [u EXCEPT !.sbc = sbc]
              ELSE SchedNow([[u EXCEPT !.sbc = sbc] EXCEPT !.later = @ \ {"char_clock"}],
                            IF sbc THEN "send_break" ELSE "tx_send")
      /\ TxHistory(u', tx.count, tx.next, TRUE)
      /\ UNCHANGED <<channel, rx, observed>>
  BY DEF write_LCR, Insn
<1>2. busy => "char_clock" \in u.later /\ sbc
  BY <1>1 DEF IndInv, Good, TxOK, TxTypes, TxJobs
<1>3. /\ IntsSame(u, u') /\ ModemSame(u, u') /\ RxSame(u, u')
      /\ u'.lsr = u.lsr /\ u'.fifo_len = u.fifo_len
      /\ u'.txbuf = u.txbuf /\ u'.txser = u.txser /\ u'.sbc = sbc
      /\ u'.now = (IF busy THEN {"send_break"} ELSE {})
      /\ u'.later = (IF busy THEN u.later \ {"char_clock"} ELSE u.later)
  <2>1. CASE busy
    <3>1. PICK b : b = [[u EXCEPT !.sbc = sbc] EXCEPT !.later = @ \ {"char_clock"}]
      OBVIOUS
    <3>2. PICK v : v = u' /\ v = SchedNow(b, "send_break")
      BY <1>1, <1>2, <2>1, <3>1
    <3>3. /\ IntsSame(u, b) /\ ModemSame(u, b) /\ RxSame(u, b)
          /\ b.lsr = u.lsr /\ b.fifo_len = u.fifo_len
          /\ b.txbuf = u.txbuf /\ b.txser = u.txser /\ b.sbc = sbc
          /\ b.now = u.now /\ b.later = u.later \ {"char_clock"}
      BY <3>1 DEF IndInv, Good, IntsOK, IntTypes, Shape, Fields, IntsSame, ModemSame, RxSame
    <3>4. IntTypes(b) /\ "send_break" \notin b.now
      BY <1>1, <3>3, IntsKept DEF IndInv, Good, IntsOK
    <3>5. /\ IntsSame(b, v) /\ ModemSame(b, v) /\ RxSame(b, v) /\ TxSame(b, v)
          /\ v.lsr = b.lsr /\ v.fifo_len = b.fifo_len
          /\ v.now = b.now \cup {"send_break"} /\ v.later = b.later
      BY <3>2, <3>4, NowFacts
    <3> QED BY <1>1, <2>1, <3>2, <3>3, <3>5 DEF IntsSame, ModemSame, RxSame, TxSame
  <2>2. CASE ~busy
    <3>1. u' = [u EXCEPT !.sbc = sbc]
      BY <1>1, <2>2
    <3> QED BY <1>1, <2>2, <3>1
            DEF IndInv, Good, IntsOK, IntTypes, Shape, Fields, IntsSame, ModemSame, RxSame
  <2> QED BY <2>1, <2>2
<1>4. IntsOK(u')
  BY <1>3, IntsKept DEF IndInv, Good
<1>5. RestOK(u')
  BY <1>3 DEF IndInv, Good, RestOK, ModemSame
<1>6. TxTypes(u') /\ TxFits(u')
  BY <1>3 DEF IndInv, Good, TxOK, TxTypes, TxFits, IntsSame
<1>7. TxJobs(u')
  BY <1>1, <1>2, <1>3 DEF IndInv, Good, TxOK, TxTypes, TxJobs
<1>8. RxOK(u', channel)
  BY <1>3 DEF IndInv, Good, RxOK, RxTypes, RxFits, RxReady, RxJobs, RxTimeout, IntsSame, RxSame
<1>9. Hist(rx)' /\ RxStream'
  BY <1>1, <1>3, RxKept DEF IndInv
<1>10. Hist(tx)' /\ TxStream'
  BY <1>1, TxAccounts DEF IndInv, Hist
<1> QED BY <1>1, <1>4, <1>5, <1>6, <1>7, <1>8, <1>9, <1>10 DEF IndInv, Good, TxOK

(* The modem lines.                                                        *)
LEMMA LoopbackGood ==
  ASSUME NEW v, NEW ch, Good(v, ch), NEW z, z = uart_loopback(v)
  PROVE  Good(z, ch) /\ RxSame(v, z) /\ TxSeq(z) = TxSeq(v)
<1> DEFINE moved == {l \in ModemLines : \/ l \in v.msr \ v.mcr
                                        \/ l \in v.mcr \ v.msr /\ l # "AUX1"}
           w == [v EXCEPT !.delta = @ \cup moved, !.msr = v.mcr]
<1>1. z = (CASE ~v.loop -> v [] w.delta = {} -> w [] OTHER -> Raise(w, "MSI"))
  BY DEF uart_loopback
<1>2. moved \subseteq ModemLines
  OBVIOUS
<1> HIDE DEF moved
<1>3. /\ IntsSame(v, w) /\ RxSame(v, w) /\ TxSame(v, w)
      /\ w.lsr = v.lsr /\ w.fifo_len = v.fifo_len /\ w.now = v.now /\ w.later = v.later
      /\ w.loop = v.loop /\ w.mcr = v.mcr /\ w.msr = v.mcr /\ w.delta = v.delta \cup moved
  BY DEF Good, IntsOK, IntTypes, Shape, Fields, IntsSame, RxSame, TxSame
<1> HIDE DEF w
<1>4. IntsOK(w)
  BY <1>3, IntsKept DEF Good
<1>5. RestOK(w) /\ TxOK(w)
  BY <1>2, <1>3 DEF Good, RestOK, TxOK, TxTypes, TxFits, TxJobs, IntsSame, TxSame
<1>6. RxOK(w, ch)
  BY <1>3 DEF Good, RxOK, RxTypes, RxFits, RxReady, RxJobs, RxTimeout, IntsSame, RxSame
<1>7. v.loop \in BOOLEAN
  BY DEF Good, RestOK
<1>8. CASE z = v \/ z = w
  <2>1. RxSame(v, z) /\ TxSeq(z) = TxSeq(v)
    BY <1>3, <1>8 DEF RxSame, TxSame, TxSeq
  <2> QED BY <1>4, <1>5, <1>6, <1>8, <2>1 DEF Good
<1>9. CASE z = Raise(w, "MSI")
  <2>1. "MSI" \in Interrupts
    BY RankFacts
  <2>2. IntsOK(z) /\ RestSame(w, z) /\ z.ints = w.ints \cup {"MSI"} /\ z.later = w.later
    BY <1>4, <1>9, <2>1, RaiseGood
  <2>3. RestOK(z) /\ TxOK(z)
    BY <1>5, <2>2 DEF RestOK, TxOK, TxTypes, TxFits, TxJobs, RestSame
  <2>4. RxOK(z, ch)
    BY <1>6, <2>2 DEF RxOK, RxTypes, RxFits, RxReady, RxJobs, RxTimeout, RestSame
  <2>5. RxSame(v, z) /\ TxSeq(z) = TxSeq(v)
    BY <1>3, <2>2 DEF RestSame, RxSame, TxSame, TxSeq
  <2> QED BY <2>2, <2>3, <2>4, <2>5 DEF Good
<1> QED BY <1>1, <1>7, <1>8, <1>9

(* A write to MCR, which MSR follows in loopback mode.                     *)
LEMMA WriteMcrStep ==
  ASSUME IndInv, NEW loop \in BOOLEAN, NEW out \in SUBSET ModemLines, write_MCR(loop, out)
  PROVE  IndInv'
<1> DEFINE v == [u EXCEPT !.loop = loop, !.mcr = out]
<1>1. u' = uart_loopback(v) /\ UNCHANGED <<channel, rx, tx, observed>>
  BY DEF write_MCR
<1>2. /\ IntsSame(u, v) /\ RxSame(u, v) /\ TxSame(u, v)
      /\ v.lsr = u.lsr /\ v.fifo_len = u.fifo_len /\ v.now = u.now /\ v.later = u.later
      /\ v.loop = loop /\ v.mcr = out /\ v.msr = u.msr /\ v.delta = u.delta
  BY DEF IndInv, Good, IntsOK, IntTypes, Shape, Fields, IntsSame, RxSame, TxSame
<1> HIDE DEF v
<1>3. IntsOK(v)
  BY <1>2, IntsKept DEF IndInv, Good
<1>4. RestOK(v) /\ TxOK(v)
  BY <1>2 DEF IndInv, Good, RestOK, TxOK, TxTypes, TxFits, TxJobs, IntsSame, TxSame
<1>5. RxOK(v, channel)
  BY <1>2 DEF IndInv, Good, RxOK, RxTypes, RxFits, RxReady, RxJobs, RxTimeout, IntsSame, RxSame
<1>6. Good(u', channel) /\ RxSame(v, u') /\ TxSeq(u') = TxSeq(v)
  BY <1>1, <1>3, <1>4, <1>5, LoopbackGood DEF Good
<1>7. RxSame(u, u') /\ TxSeq(u') = TxSeq(u)
  BY <1>2, <1>6 DEF RxSame, TxSame, TxSeq
<1>8. Hist(rx)' /\ RxStream' /\ Hist(tx)' /\ TxStream'
  BY <1>1, <1>7, RxKept, TxKept DEF IndInv
<1> QED BY <1>1, <1>6, <1>8 DEF IndInv

(* A read of MSR withdraws MSI; in loopback mode it may come again.        *)
LEMMA ReadMsrStep ==
  ASSUME IndInv, read_MSR
  PROVE  IndInv'
<1> DEFINE v == [u EXCEPT !.msr = {}, !.delta = {}]
           w == uart_clear_int(v, "MSI")
<1>1. u' = uart_loopback(w) /\ UNCHANGED <<channel, rx, tx, observed>>
  BY DEF read_MSR
<1>2. /\ IntsSame(u, v) /\ RxSame(u, v) /\ TxSame(u, v)
      /\ v.lsr = u.lsr /\ v.fifo_len = u.fifo_len /\ v.now = u.now /\ v.later = u.later
      /\ v.loop = u.loop /\ v.mcr = u.mcr /\ v.msr = {} /\ v.delta = {}
  BY DEF IndInv, Good, IntsOK, IntTypes, Shape, Fields, IntsSame, RxSame, TxSame
<1> HIDE DEF v
<1>3. IntsOK(v) /\ "MSI" \in Interrupts
  BY <1>2, IntsKept, RankFacts DEF IndInv, Good
<1>4. IntsOK(w) /\ RestSame(v, w) /\ w.ints = v.ints \ {"MSI"} /\ w.later = v.later
  BY <1>3, ClearGood
<1> HIDE DEF w
<1>5. RestOK(w) /\ TxOK(w)
  BY <1>2, <1>4 DEF IndInv, Good, RestOK, TxOK, TxTypes, TxFits, TxJobs, RestSame, IntsSame, TxSame
<1>6. RxOK(w, channel)
  BY <1>2, <1>4 DEF IndInv, Good, RxOK, RxTypes, RxFits, RxReady, RxJobs, RxTimeout,
                    RestSame, IntsSame, RxSame
<1>7. Good(u', channel) /\ RxSame(w, u') /\ TxSeq(u') = TxSeq(w)
  BY <1>1, <1>4, <1>5, <1>6, LoopbackGood DEF Good
<1>8. RxSame(u, w) /\ TxSeq(w) = TxSeq(u)
  BY <1>2, <1>4 DEF RestSame, RxSame, TxSame, TxSeq
<1>9. RxSame(u, u') /\ TxSeq(u') = TxSeq(u)
  BY <1>7, <1>8 DEF RxSame
<1>10. Hist(rx)' /\ RxStream' /\ Hist(tx)' /\ TxStream'
  BY <1>1, <1>9, RxKept, TxKept DEF IndInv
<1> QED BY <1>1, <1>7, <1>10 DEF IndInv

(* A read of IIR withdraws THRI if it is what IIR names.                   *)
LEMMA ReadIirStep ==
  ASSUME IndInv, read_IIR
  PROVE  IndInv'
<1>1. UNCHANGED <<channel, rx, tx, observed>>
  BY DEF read_IIR
<1>2. CASE u' = u
  <2>1. RxSame(u, u') /\ TxSeq(u') = TxSeq(u)
    BY <1>2 DEF RxSame
  <2>2. Hist(rx)' /\ RxStream' /\ Hist(tx)' /\ TxStream'
    BY <1>1, <2>1, RxKept, TxKept DEF IndInv
  <2> QED BY <1>1, <1>2, <2>2 DEF IndInv
<1>3. CASE u' = uart_clear_int(u, "THRI")
  <2>1. "THRI" \in Interrupts
    BY RankFacts
  <2>2. IntsOK(u') /\ RestSame(u, u') /\ u'.ints = u.ints \ {"THRI"} /\ u'.later = u.later
    BY <1>3, <2>1, ClearGood DEF IndInv, Good
  <2>3. RestOK(u') /\ TxOK(u')
    BY <2>2 DEF IndInv, Good, RestOK, TxOK, TxTypes, TxFits, TxJobs, RestSame
  <2>4. RxOK(u', channel)
    BY <2>2 DEF IndInv, Good, RxOK, RxTypes, RxFits, RxReady, RxJobs, RxTimeout, RestSame
  <2>5. RxSame(u, u') /\ TxSeq(u') = TxSeq(u)
    BY <2>2 DEF RestSame, RxSame, TxSeq
  <2>6. Hist(rx)' /\ RxStream' /\ Hist(tx)' /\ TxStream'
    BY <1>1, <2>5, RxKept, TxKept DEF IndInv
  <2> QED BY <1>1, <2>2, <2>3, <2>4, <2>6 DEF IndInv, Good
<1> QED BY <1>2, <1>3 DEF read_IIR

(* A read of LSR withdraws the overrun.                                    *)
LEMMA ReadLsrStep ==
  ASSUME IndInv, read_LSR
  PROVE  IndInv'
<1> DEFINE v == [u EXCEPT !.lsr = @ \ {"OVRRUN"}]
<1>1. u' = uart_clear_int(v, "RLSI") /\ UNCHANGED <<channel, rx, tx, observed>>
  BY DEF read_LSR
<1>2. /\ IntsSame(u, v) /\ ModemSame(u, v) /\ RxSame(u, v) /\ TxSame(u, v)
      /\ v.lsr = u.lsr \ {"OVRRUN"} /\ v.fifo_len = u.fifo_len
      /\ v.now = u.now /\ v.later = u.later
  BY DEF IndInv, Good, IntsOK, IntTypes, Shape, Fields, IntsSame, ModemSame, RxSame, TxSame
<1> HIDE DEF v
<1>3. IntsOK(v) /\ "RLSI" \in Interrupts
  BY <1>2, IntsKept, RankFacts DEF IndInv, Good
<1>4. IntsOK(u') /\ RestSame(v, u') /\ u'.ints = v.ints \ {"RLSI"} /\ u'.later = v.later
  BY <1>1, <1>3, ClearGood
<1>5. RestOK(u') /\ TxOK(u')
  BY <1>2, <1>4 DEF IndInv, Good, RestOK, TxOK, TxTypes, TxFits, TxJobs,
                    RestSame, IntsSame, ModemSame, TxSame
<1>6. RxOK(u', channel)
  BY <1>2, <1>4 DEF IndInv, Good, RxOK, RxTypes, RxFits, RxReady, RxJobs, RxTimeout,
                    RestSame, IntsSame, RxSame
<1>7. RxSame(u, u') /\ TxSeq(u') = TxSeq(u)
  BY <1>2, <1>4 DEF RestSame, RxSame, TxSame, TxSeq
<1>8. Hist(rx)' /\ RxStream' /\ Hist(tx)' /\ TxStream'
  BY <1>1, <1>7, RxKept, TxKept DEF IndInv
<1> QED BY <1>1, <1>4, <1>5, <1>6, <1>8 DEF IndInv, Good

(* What is taken from the front does not meet what comes at the end.       *)
LEMMA TailAppend ==
  ASSUME NEW S, NEW s \in Seq(S), s # <<>>, NEW e \in S
  PROVE  Tail(Append(s, e)) = Append(Tail(s), e)
<1> DEFINE x == Tail(Append(s, e))
           y == Append(Tail(s), e)
<1>1. Len(s) \in Nat /\ Len(s) > 0
  OBVIOUS
<1>2. Append(s, e) \in Seq(S) /\ Len(Append(s, e)) = Len(s) + 1
  OBVIOUS
<1>3. x \in Seq(S) /\ Len(x) = Len(s) /\ \A i \in 1 .. Len(s) : x[i] = Append(s, e)[i + 1]
  BY <1>1, <1>2
<1>4. y \in Seq(S) /\ Len(y) = Len(s)
  BY <1>1
<1>5. ASSUME NEW i \in 1 .. Len(s) PROVE x[i] = y[i]
  <2>1. CASE i = Len(s)
    BY <1>1, <1>3, <2>1
  <2>2. CASE i # Len(s)
    BY <1>1, <1>3, <2>2
  <2> QED BY <2>1, <2>2
<1> QED BY <1>3, <1>4, <1>5, SeqsEqual

(* A read of the receive FIFO restarts the timeout of what is left.        *)
LEMMA ReadRxbufStep ==
  ASSUME IndInv, read_RXBUF
  PROVE  IndInv'
<1> DEFINE left == IF u.rxbuf = <<>> THEN u.rxbuf ELSE Tail(u.rxbuf)
           next == IF u.rxbuf = <<>> THEN rx.next ELSE Inc(u.rxbuf[1])
           a == [u EXCEPT !.rxbuf = left]
           w == uart_clear_int(a, "RDI")
           v == uart_clear_int(w, "CTI")
           ready == [v EXCEPT !.lsr = @ \cup {"RDRDY"}]
           again == SchedLater(ready, "int_cti")
<1>1. /\ u' = IF v.rxbuf # <<>>
              THEN uart_check_rdi(uart_check_rlsi(again))
              ELSE [v EXCEPT !.lsr = @ \ {"RDRDY"}]
      /\ UNCHANGED <<channel, tx, observed>>
      /\ RxHistory(u', rx.count, next, FALSE)
  BY DEF read_RXBUF
<1>2. left \in Seq(Chars) /\ Len(left) <= u.fifo_len
  <2>1. u.rxbuf \in Seq(Chars) /\ Len(u.rxbuf) <= u.fifo_len /\ u.fifo_len \in Nat
    BY UartConstants DEF IndInv, Good, RestOK, RxOK, RxTypes, RxFits
  <2> QED BY <2>1
<1> HIDE DEF left, next
<1>3. /\ IntsSame(u, a) /\ ModemSame(u, a) /\ TxSame(u, a)
      /\ a.lsr = u.lsr /\ a.fifo_len = u.fifo_len /\ a.now = u.now /\ a.later = u.later
      /\ a.trigger = u.trigger /\ a.rxbuf = left /\ a.rxser = u.rxser
      /\ a.receiveing = u.receiveing
  BY DEF IndInv, Good, IntsOK, IntTypes, Shape, Fields, IntsSame, ModemSame, TxSame
<1> HIDE DEF a
<1>4. IntsOK(a) /\ "CTI" \in Interrupts /\ "RDI" \in Interrupts /\ "RDI" # "CTI"
  BY <1>3, IntsKept, RankFacts DEF IndInv, Good
<1>5. IntsOK(w) /\ RestSame(a, w) /\ w.ints = a.ints \ {"RDI"} /\ w.later = a.later
  BY <1>4, ClearGood
<1> HIDE DEF w
<1>6. IntsOK(v) /\ RestSame(w, v) /\ v.ints = w.ints \ {"CTI"} /\ v.later = w.later \ {"int_cti"}
  BY <1>4, <1>5, ClearGood
<1> HIDE DEF v
<1>7. /\ Shape(v) /\ ModemSame(u, v) /\ TxSame(u, v)
      /\ v.lsr = u.lsr /\ v.fifo_len = u.fifo_len /\ v.now = u.now
      /\ v.later = u.later \ {"int_cti"} /\ v.ints = (u.ints \ {"RDI"}) \ {"CTI"}
      /\ v.trigger = u.trigger /\ v.rxbuf = left /\ v.rxser = u.rxser
      /\ v.receiveing = u.receiveing
  BY <1>3, <1>5, <1>6 DEF RestSame, IntsSame, ModemSame, TxSame
<1>8. Good(u', channel) /\ RxSame(v, u') /\ TxSeq(u') = TxSeq(v)
  <2>1. CASE v.rxbuf # <<>>
    <3>1. /\ IntsSame(v, again) /\ ModemSame(v, again) /\ TxSame(v, again) /\ RxSame(v, again)
          /\ again.lsr = v.lsr \cup {"RDRDY"} /\ again.fifo_len = v.fifo_len
          /\ again.now = v.now /\ again.later = v.later \cup {"int_cti"}
      <4>1. /\ IntsSame(v, ready) /\ ModemSame(v, ready) /\ TxSame(v, ready) /\ RxSame(v, ready)
            /\ ready.lsr = v.lsr \cup {"RDRDY"} /\ ready.fifo_len = v.fifo_len
            /\ ready.now = v.now /\ ready.later = v.later
        BY <1>7 DEF Shape, Fields, IntsSame, ModemSame, TxSame, RxSame
      <4> HIDE DEF ready
      <4>2. IntTypes(ready) /\ "int_cti" \notin ready.later
        BY <1>6, <4>1, IntsKept DEF IntsOK
      <4>3. PICK x : x = again
        OBVIOUS
      <4>4. /\ IntsSame(ready, x) /\ ModemSame(ready, x) /\ RxSame(ready, x) /\ TxSame(ready, x)
            /\ x.lsr = ready.lsr /\ x.fifo_len = ready.fifo_len
            /\ x.now = ready.now /\ x.later = ready.later \cup {"int_cti"}
        BY <4>2, <4>3, LaterFacts
      <4> HIDE DEF again
      <4> QED BY <4>1, <4>3, <4>4 DEF IntsSame, ModemSame, TxSame, RxSame
    <3> HIDE DEF again
    <3>2. IntsOK(again)
      BY <1>6, <3>1, IntsKept
    <3>3. RestOK(again) /\ TxOK(again)
      BY <1>7, <3>1 DEF IndInv, Good, RestOK, TxOK, TxTypes, TxFits, TxJobs,
                        IntsSame, ModemSame, TxSame
    <3>4. RxOK(again, channel)
      BY <1>2, <1>7, <2>1, <3>1
         DEF IndInv, Good, RxOK, RxTypes, RxFits, RxReady, RxJobs, RxTimeout, IntsSame, RxSame
    <3>5. PICK y : y = uart_check_rlsi(again)
      OBVIOUS
    <3>6. Good(y, channel) /\ RxSame(again, y) /\ TxSeq(y) = TxSeq(again)
      BY <3>2, <3>3, <3>4, <3>5, CheckRlsiGood DEF Good
    <3>7. Good(u', channel) /\ RxSame(y, u') /\ TxSeq(u') = TxSeq(y)
      BY <1>1, <2>1, <3>5, <3>6, CheckRdiGood
    <3>8. TxSeq(again) = TxSeq(v)
      BY <3>1 DEF TxSame, TxSeq
    <3> QED BY <3>1, <3>6, <3>7, <3>8 DEF RxSame
  <2>2. CASE v.rxbuf = <<>>
    <3>1. u' = [v EXCEPT !.lsr = @ \ {"RDRDY"}]
      BY <1>1, <2>2
    <3>2. /\ IntsSame(v, u') /\ ModemSame(v, u') /\ TxSame(v, u') /\ RxSame(v, u')
          /\ u'.lsr = v.lsr \ {"RDRDY"} /\ u'.fifo_len = v.fifo_len
          /\ u'.now = v.now /\ u'.later = v.later
      BY <1>7, <3>1 DEF Shape, Fields, IntsSame, ModemSame, TxSame, RxSame
    <3>3. IntsOK(u')
      BY <1>6, <3>2, IntsKept
    <3>4. RestOK(u') /\ TxOK(u')
      BY <1>7, <3>2 DEF IndInv, Good, RestOK, TxOK, TxTypes, TxFits, TxJobs,
                        IntsSame, ModemSame, TxSame
    <3>5. RxOK(u', channel)
      BY <1>2, <1>7, <2>2, <3>2
         DEF IndInv, Good, RxOK, RxTypes, RxFits, RxReady, RxJobs, RxTimeout, IntsSame, RxSame
    <3>6. TxSeq(u') = TxSeq(v)
      BY <3>2 DEF TxSame, TxSeq
    <3> QED BY <3>2, <3>3, <3>4, <3>5, <3>6 DEF Good
  <2> QED BY <2>1, <2>2
<1>9. Hist(tx)' /\ TxStream'
  <2>1. TxSeq(u') = TxSeq(u)
    BY <1>7, <1>8 DEF TxSame, TxSeq
  <2> QED BY <1>1, <2>1, TxKept DEF IndInv
<1>10. Hist(rx)' /\ RxStream'
  <2>1. /\ u'.rxbuf = left /\ u'.rxser = u.rxser /\ u'.receiveing = u.receiveing
        /\ u.rxbuf \in Seq(Chars) /\ u.rxser \in Chars /\ u.receiveing \in BOOLEAN
    BY <1>7, <1>8 DEF RxSame, IndInv, Good, RxOK, RxTypes
  <2>2. ASSUME observed = "rx", rx.clean
        PROVE  next \in Numbers /\ RxSeq(u') = Run(next, rx.count)
    <3>1. RxSeq(u) = Run(rx.next, rx.count) /\ rx.next \in Numbers /\ rx.count \in Numbers
      BY <2>2 DEF IndInv, Hist, RxStream, RxSeq
    <3>2. CASE u.rxbuf = <<>>
      <4>1. left = u.rxbuf /\ next = rx.next
        BY <3>2 DEF left, next
      <4> QED BY <2>1, <3>1, <4>1 DEF RxSeq
    <3>3. CASE u.rxbuf # <<>>
      <4>1. left = Tail(u.rxbuf) /\ next = Inc(u.rxbuf[1])
        BY <3>3 DEF left, next
      <4>2. RxSeq(u) # <<>> /\ RxSeq(u)[1] = u.rxbuf[1]
        BY <2>1, <3>3 DEF RxSeq
      <4>3. Tail(RxSeq(u)) = Run(next, rx.count) /\ next \in Numbers
        BY <3>1, <4>1, <4>2, RunHead, IncIs
      <4>4. Tail(RxSeq(u)) = RxSeq(u')
        BY <2>1, <3>3, <4>1, TailAppend DEF RxSeq
      <4> QED BY <4>3, <4>4
    <3> QED BY <3>2, <3>3
  <2> QED BY <1>1, <2>2, RxAccounts DEF IndInv, Hist
<1> QED BY <1>1, <1>8, <1>9, <1>10 DEF IndInv

-----------------------------------------------------------------------------
(* The device after a reset.                                               *)
LEMMA ResetGood ==
  Good(uart_reset, TRUE) /\ RxSeq(uart_reset) = <<>> /\ TxSeq(uart_reset) = <<>>
<1> DEFINE v == uart_reset
<1>1. /\ Shape(v) /\ v.ints = {} /\ v.ier = {} /\ v.iir = "NO_INT" /\ v.line = FALSE
      /\ v.lsr = {"TXBUFE", "TXSERE"} /\ v.sbc = FALSE /\ v.loop = FALSE
      /\ v.mcr = {} /\ v.msr = {} /\ v.delta = {} /\ v.trigger = 1
      /\ v.fifo_len = (IF uart16550 THEN FIFO_LEN ELSE 1)
      /\ v.txbuf = <<>> /\ v.txser = 0 /\ v.rxbuf = <<>> /\ v.rxser = 0
      /\ v.receiveing = FALSE /\ v.now = {} /\ v.later = {"check_char"}
      /\ v.stale = FALSE /\ v.twice = FALSE
  BY DEF uart_reset, Shape, Fields
<1> HIDE DEF v
<1>2. IntsOK(v)
  BY <1>1, RankFacts DEF IntsOK, IntTypes, Shown, LineIsIir, Apt, Signalled
<1>3. RestOK(v)
  BY <1>1, UartConstants DEF RestOK
<1>4. v.fifo_len \in Nat /\ v.txser \in Chars /\ v.rxser \in Chars
  <2>1. v.fifo_len \in Nat
    BY <1>1, UartConstants
  <2>2. v.txser \in Chars /\ v.rxser \in Chars
    BY <1>1, NumberFacts, Zenon
  <2> QED BY <2>1, <2>2
<1>5. v.trigger \in Triggers
  BY <1>1, UartConstants, Zenon
<1>6. TxOK(v)
  <2>1. TxTypes(v)
    <3>1. v.sbc \in BOOLEAN
      BY <1>1
    <3>2. v.txbuf \in Seq(Chars)
      BY <1>1
    <3>3. v.now \subseteq {"tx_send", "send_break"}
      BY <1>1
    <3>4. "THRI" \notin v.ints
      BY <1>1
    <3>5. "TXBUFE" \in v.lsr /\ v.txbuf = <<>>
      BY <1>1
    <3> QED BY <1>4, <3>1, <3>2, <3>3, <3>4, <3>5 DEF TxTypes
  <2>2. TxFits(v)
    BY <1>1, <1>4 DEF TxFits
  <2>3. TxJobs(v)
    BY <1>1 DEF TxJobs
  <2> QED BY <2>1, <2>2, <2>3 DEF TxOK
<1>7. RxOK(v, TRUE)
  <2>1. RxTypes(v)
    <3>1. v.receiveing \in BOOLEAN
      BY <1>1
    <3>2. v.rxbuf \in Seq(Chars)
      BY <1>1
    <3>3. "RLSI" \notin v.ints /\ "OVRRUN" \notin v.lsr /\ "RDI" \notin v.ints
      BY <1>1
    <3> QED BY <1>4, <1>5, <3>1, <3>2, <3>3 DEF RxTypes
  <2>2. RxFits(v)
    BY <1>1, <1>4 DEF RxFits
  <2>3. RxReady(v) /\ RxJobs(v, TRUE) /\ RxTimeout(v)
    BY <1>1 DEF RxReady, RxJobs, RxTimeout
  <2> QED BY <2>1, <2>2, <2>3 DEF RxOK
<1>8. RxSeq(v) = <<>> /\ TxSeq(v) = <<>>
  BY <1>1 DEF RxSeq, TxSeq
<1> QED BY <1>2, <1>3, <1>6, <1>7, <1>8 DEF Good, v

(* The invariant holds initially.                                          *)
LEMMA InitIndInv == Init => IndInv
BY ResetGood, FreshFacts DEF Init, IndInv, RxStream, TxStream, RxSeq, TxSeq

(* It holds after a reset, whatever was before.                            *)
LEMMA SimResetStep ==
  ASSUME sim_reset
  PROVE  IndInv'
BY ResetGood, FreshFacts DEF sim_reset, IndInv, Hist, RxStream, TxStream, RxSeq, TxSeq

(* Every step preserves it.                                                *)
LEMMA NextIndInv == IndInv /\ [Next]_vars => IndInv'
<1> SUFFICES ASSUME IndInv, [Next]_vars PROVE IndInv'
  OBVIOUS
<1>1. CASE Jobs
  BY <1>1, CharClockStep, SendBreakStep, TxSendStep, IntCtiStep, RecvCharStep, CheckCharStep DEF Jobs
<1>2. CASE Program
  BY <1>2, WriteTxbufStep, ReadRxbufStep, ReadIirStep, ReadLsrStep, ReadMsrStep, WriteFcrStep,
     WriteIerStep, WriteLcrStep, WriteMcrStep DEF Program
<1>3. CASE sim_reset
  BY <1>3, SimResetStep
<1>4. CASE UNCHANGED vars
  BY <1>4 DEF vars, IndInv, Hist, RxStream, TxStream
<1> QED BY <1>1, <1>2, <1>3, <1>4 DEF Next

(* The inductive invariant holds of every behaviour.                       *)
LEMMA IndInvHolds == Spec => []IndInv
BY InitIndInv, NextIndInv, PTL DEF Spec

(* It implies what the runs check.                                         *)
LEMMA Conclude == IndInv => InterruptsExact /\ JobsExact /\ StreamsExact
<1> SUFFICES ASSUME IndInv PROVE InterruptsExact /\ JobsExact /\ StreamsExact
  OBVIOUS
<1>1. TypeOK
  BY DEF IndInv, Good, IntsOK, IntTypes, RestOK, TxOK, TxTypes, TxFits, RxOK, RxTypes, RxFits, TypeOK
<1>2. Identified
  BY DEF IndInv, Good, IntsOK, Shown, LineIsIir, Apt, Identified
<1>3. PendingIsReal
  BY DEF IndInv, Good, TxOK, TxTypes, RxOK, RxTypes, RxReady, PendingIsReal
<1>4. ShiftJobs
  <2>1. "TXSERE" \notin u.lsr <=> ("char_clock" \in u.later) # ("send_break" \in u.now)
    BY DEF IndInv, Good, TxOK, TxTypes, TxJobs
  <2>2. channel <=> ("recv_char" \in u.later) # ("check_char" \in u.later)
    BY DEF IndInv, Good, RxOK, RxJobs
  <2> QED BY <2>1, <2>2 DEF IndInv, Good, TxOK, TxJobs, RxOK, RxJobs, ShiftJobs
<1>5. TimeoutExact
  BY DEF IndInv, Good, RxOK, RxTimeout, TimeoutExact
<1>6. ~u.twice
  BY DEF IndInv, Good, IntsOK, IntTypes
<1> QED BY <1>1, <1>2, <1>3, <1>4, <1>5, <1>6 DEF IndInv, InterruptsExact, JobsExact, StreamsExact

(* The line to the PIC is asserted exactly while IIR names an interrupt,   *)
(* no enabled pending interrupt is hidden behind a lower one, IIR names a  *)
(* pending one unless clearing or disabling a higher one left it stale,    *)
(* and the pending bits agree with the FIFOs and LSR, in whatever order    *)
(* characters arrive and leave and programs read and write the registers.  *)
THEOREM InterruptsAreExact == Spec => []InterruptsExact
BY IndInvHolds, Conclude, PTL

(* The queue holds exactly the jobs that the device needs: the one that    *)
(* empties a busy shift register, the one that fills an idle one, the one  *)
(* that polls or receives, and the timeout of unread characters; and no    *)
(* job was ever queued while it still was.                                 *)
THEOREM JobsAreExact == Spec => []JobsExact
BY IndInvHolds, Conclude, PTL

(* Both directions deliver what was put into them, in order, each once and *)
(* with nothing left out: the FIFO and the shift register hold the numbers *)
(* between the last character that left them and the last that came,       *)
(* unless the receiver overran or the program itself threw characters away.*)
THEOREM StreamsAreExact == Spec => []StreamsExact
BY IndInvHolds, Conclude, PTL

-----------------------------------------------------------------------------
(* Rings.  The i-th place after s in a ring of n places from b on, how far *)
(* a place is behind s, and the i-th number after a.                       *)
After(b, n, s, i) == IF s + i < b + n THEN s + i ELSE s + i - n
Behind(b, n, s, i) == IF i >= s THEN i - s ELSE i - s + n
Number(a, i) == IF a + i < PacketMod THEN a + i ELSE a + i - PacketMod

(* The places in S are the k places from s on, and hold the numbers from   *)
(* a on.                                                                   *)
Holds(S, bd, b, n, s, k, a) ==
  \A i \in b .. b + n - 1 :
    /\ i \in S <=> Behind(b, n, s, i) < k
    /\ Behind(b, n, s, i) < k => bd[i].pkt = Number(a, Behind(b, n, s, i))

(* A ring, the part of it that is in use, and the first number in it.      *)
Ring(b, n, s, k, a) ==
  /\ b \in Nat /\ n \in Nat /\ n > 0 /\ s \in b .. b + n - 1 /\ k \in 0 .. n
  /\ PacketMod \in Nat /\ n < PacketMod /\ a \in 0 .. PacketMod - 1

(* Its first place is emptied.                                             *)
Pops(S, T, bd, bd2, b, n, s, k, a) ==
  /\ Ring(b, n, s, k, a) /\ Holds(S, bd, b, n, s, k, a) /\ s \in S
  /\ \A i \in b .. b + n - 1 : i \in T <=> i \in S /\ i # s
  /\ \A i \in b .. b + n - 1 : i # s => bd2[i].pkt = bd[i].pkt
Popped(T, bd, bd2, b, n, s, k, a) ==
  /\ k - 1 \in 0 .. n /\ bd[s].pkt = a
  /\ Ring(b, n, After(b, n, s, 1), k - 1, Number(a, 1))
  /\ Holds(T, bd2, b, n, After(b, n, s, 1), k - 1, Number(a, 1))
  /\ Number(Number(a, 1), k - 1) = Number(a, k)
  /\ After(b, n, After(b, n, s, 1), k - 1) = After(b, n, s, k)
(* Taking the first element leaves a ring that begins at the next place.   *)
LEMMA RingPop ==
  ASSUME NEW S, NEW T, NEW bd, NEW bd2, NEW b, NEW n, NEW s, NEW k, NEW a,
         Pops(S, T, bd, bd2, b, n, s, k, a)
  PROVE  Popped(T, bd, bd2, b, n, s, k, a)
<1> USE DEF Pops
<1>1. Behind(b, n, s, s) = 0
  BY DEF Behind, Ring
<1>2. k > 0 /\ bd[s].pkt = a
  BY <1>1 DEF Holds, Ring, Number
<1>3. Ring(b, n, After(b, n, s, 1), k - 1, Number(a, 1))
  BY <1>2 DEF Ring, After, Number
<1>4. ASSUME NEW i \in b .. b + n - 1
      PROVE  /\ i # s => Behind(b, n, After(b, n, s, 1), i) = Behind(b, n, s, i) - 1
             /\ i = s => Behind(b, n, After(b, n, s, 1), i) = n - 1
             /\ i # s => /\ Behind(b, n, s, i) \in 1 .. n - 1
                         /\ Number(Number(a, 1), Behind(b, n, s, i) - 1) = Number(a, Behind(b, n, s, i))
  BY DEF Ring, After, Number, Behind
<1>5. Holds(T, bd2, b, n, After(b, n, s, 1), k - 1, Number(a, 1))
  <2> SUFFICES ASSUME NEW i \in b .. b + n - 1
               PROVE  /\ i \in T <=> Behind(b, n, After(b, n, s, 1), i) < k - 1
                      /\ Behind(b, n, After(b, n, s, 1), i) < k - 1 =>
                           bd2[i].pkt = Number(Number(a, 1), Behind(b, n, After(b, n, s, 1), i))
    BY DEF Holds
  <2>1. CASE i = s
    BY <1>4, <2>1 DEF Ring
  <2>2. CASE i # s
    BY <1>4, <2>2 DEF Ring, Holds
  <2> QED BY <2>1, <2>2
<1>6. /\ Number(Number(a, 1), k - 1) = Number(a, k)
      /\ After(b, n, After(b, n, s, 1), k - 1) = After(b, n, s, k)
  BY <1>2 DEF Ring, After, Number
<1> QED BY <1>2, <1>3, <1>5, <1>6 DEF Ring, Popped

(* The first place behind it is filled.                                    *)
Pushes(S, T, bd, bd2, b, n, s, k, a, p) ==
  /\ Ring(b, n, s, k, a) /\ Holds(S, bd, b, n, s, k, a)
  /\ p = After(b, n, s, k) /\ p \notin S
  /\ \A i \in b .. b + n - 1 : i \in T <=> i \in S \/ i = p
  /\ \A i \in b .. b + n - 1 : i # p => bd2[i].pkt = bd[i].pkt
  /\ bd2[p].pkt = Number(a, k)
Pushed(T, bd2, b, n, s, k, a, p) ==
  /\ Ring(b, n, s, k + 1, a) /\ p \in b .. b + n - 1
  /\ Holds(T, bd2, b, n, s, k + 1, a)
  /\ Number(Number(a, k), 1) = Number(a, k + 1)
  /\ After(b, n, p, 1) = After(b, n, s, k + 1)
(* Adding behind the last element leaves a ring with one element more.     *)
LEMMA RingPush ==
  ASSUME NEW S, NEW T, NEW bd, NEW bd2, NEW b, NEW n, NEW s, NEW k, NEW a, NEW p,
         Pushes(S, T, bd, bd2, b, n, s, k, a, p)
  PROVE  Pushed(T, bd2, b, n, s, k, a, p)
<1> USE DEF Pushes
<1>1. p \in b .. b + n - 1 /\ Behind(b, n, s, p) = IF k = n THEN 0 ELSE k
  BY DEF Ring, After, Behind
<1>2. k # n
  BY <1>1 DEF Ring, Holds
<1>3. ASSUME NEW i \in b .. b + n - 1, i # p
      PROVE  Behind(b, n, s, i) # k /\ Behind(b, n, s, i) \in Int
  BY <1>3 DEF Ring, After, Behind
<1>4. Holds(T, bd2, b, n, s, k + 1, a)
  <2> SUFFICES ASSUME NEW i \in b .. b + n - 1
               PROVE  /\ i \in T <=> Behind(b, n, s, i) < k + 1
                      /\ Behind(b, n, s, i) < k + 1 => bd2[i].pkt = Number(a, Behind(b, n, s, i))
    BY DEF Holds
  <2>1. CASE i = p
    BY <1>1, <1>2, <2>1 DEF Ring
  <2>2. CASE i # p
    BY <1>3, <2>2 DEF Ring, Holds
  <2> QED BY <2>1, <2>2
<1>5. Ring(b, n, s, k, a) /\ p = After(b, n, s, k)
  OBVIOUS
<1> HIDE DEF Pushes
<1>6. /\ Number(Number(a, k), 1) = Number(a, k + 1)
      /\ After(b, n, p, 1) = After(b, n, s, k + 1)
  BY <1>2, <1>5 DEF Ring, Number, After
<1> QED BY <1>1, <1>2, <1>4, <1>5, <1>6 DEF Ring, Pushed

(* An empty ring.                                                          *)
LEMMA RingEmpty ==
  ASSUME NEW S, NEW bd, NEW b, NEW n, NEW s, NEW a, Ring(b, n, s, 0, a),
         \A i \in b .. b + n - 1 : i \notin S
  PROVE  /\ Holds(S, bd, b, n, s, 0, a) /\ Number(a, 0) = a /\ After(b, n, s, 0) = s
BY DEF Ring, Holds, Behind, Number, After

(* A ring depends on what is in it.                                        *)
LEMMA RingSame ==
  ASSUME NEW S, NEW T, NEW bd, NEW bd2, NEW b, NEW n, NEW s, NEW k, NEW a,
         Holds(S, bd, b, n, s, k, a),
         \A i \in b .. b + n - 1 : i \in T <=> i \in S,
         \A i \in b .. b + n - 1 : bd2[i].pkt = bd[i].pkt
  PROVE  Holds(T, bd2, b, n, s, k, a)
BY DEF Holds

(* As many places are in use as the ring says, in the order of the ring.   *)
Counts(S, bd, b, n, s, k, a) ==
  Ring(b, n, s, k, a) /\ Holds(S, bd, b, n, s, k, a) /\ S \subseteq b .. b + n - 1
Counted(S, bd, b, n, s, k, a) ==
  /\ Cardinality(S) = k
  /\ \A j \in 1 .. k : /\ After(b, n, s, j - 1) \in S
                       /\ bd[After(b, n, s, j - 1)].pkt = Number(a, j - 1)
(* The places in use are as many as counted, and hold consecutive numbers. *)
LEMMA RingCount ==
  ASSUME NEW S, NEW bd, NEW b, NEW n, NEW s, NEW k, NEW a, Counts(S, bd, b, n, s, k, a)
  PROVE  Counted(S, bd, b, n, s, k, a)
<1> USE DEF Counts
<1>1. ASSUME NEW j \in 1 .. k
      PROVE  /\ After(b, n, s, j - 1) \in b .. b + n - 1
             /\ Behind(b, n, s, After(b, n, s, j - 1)) = j - 1
             /\ j - 1 < k
  BY DEF Ring, After, Behind
<1>2. \A j \in 1 .. k : /\ After(b, n, s, j - 1) \in S
                        /\ bd[After(b, n, s, j - 1)].pkt = Number(a, j - 1)
  BY <1>1 DEF Holds
<1>3. ASSUME NEW i \in S
      PROVE  /\ Behind(b, n, s, i) + 1 \in 1 .. k
             /\ After(b, n, s, (Behind(b, n, s, i) + 1) - 1) = i
  <2>1. i \in b .. b + n - 1 /\ Behind(b, n, s, i) < k
    BY DEF Holds
  <2> QED BY <2>1 DEF Ring, After, Behind
<1> DEFINE f == [j \in 1 .. k |-> After(b, n, s, j - 1)]
<1>4. f \in [1 .. k -> S]
  BY <1>2
<1>5. ASSUME NEW j1 \in 1 .. k, NEW j2 \in 1 .. k, f[j1] = f[j2]
      PROVE  j1 = j2
  <2>1. j1 - 1 = j2 - 1
    BY <1>1, <1>5
  <2> QED BY <2>1
<1>6. ASSUME NEW i \in S
      PROVE  \E j \in 1 .. k : f[j] = i
  BY <1>3
<1> HIDE DEF f
<1>7. f \in Bijection(1 .. k, S)
  BY <1>4, <1>5, <1>6 DEF Bijection, Injection, Surjection, IsInjective
<1>8. ExistsBijection(1 .. k, S)
  BY <1>7 DEF ExistsBijection
<1>9. IsFiniteSet(1 .. k) /\ Cardinality(1 .. k) = k
  BY FS_Interval DEF Ring
<1>10. Cardinality(S) = k
  BY <1>8, <1>9, FS_Bijection
<1> QED BY <1>2, <1>10 DEF Counted

(* The rest of a division, for the sums that occur.                        *)
LEMMA RestIs ==
  ASSUME NEW m \in Nat, m > 0, NEW x \in Int, 0 <= x, x < m + m
  PROVE  x % m = IF x < m THEN x ELSE x - m
<1>1. CASE x < m
  BY <1>1
<1>2. CASE ~ (x < m)
  BY <1>2
<1> QED BY <1>1, <1>2

-----------------------------------------------------------------------------
(* Ethernet.                                                               *)

(* EthConstants, of the instance.                                          *)
EthSizes ==
  /\ NBD \in Nat /\ PacketMod \in Nat /\ PacketMod >= NBD
  /\ TxBdNums \subseteq 1 .. NBD - 1 /\ TxBdReset \in 1 .. NBD - 1
  /\ MaxWaiting \in Nat

JobCounts == [rx_clock : Nat, tx_clock : Nat]
EthRecord ==
  [moder : SUBSET {"RXEN", "TXEN"}, int_source : SUBSET E!Sources, int_mask : SUBSET E!Sources,
   int_line_stat : BOOLEAN, tx_bd_num : 1 .. NBD - 1, tx_bd_index : Nat, rx_bd_index : Nat,
   bd : [0 .. NBD - 1 -> E!BDs], jobs : JobCounts]
DrvRecord == [pos : Nat, count : E!Packets, next : E!Packets, clean : BOOLEAN]

(* What is owed is active, and the shadow of the line is its state.  The   *)
(* line may be high without its shadow: a reset of the device does not     *)
(* take it back.                                                           *)
LineOK(e, line, owed) ==
  /\ line \in BOOLEAN
  /\ e.int_line_stat => line
  /\ owed # {} => e.int_line_stat
  /\ owed \subseteq e.int_source \cap e.int_mask
JobsOK(e) ==
  /\ e.jobs.rx_clock = IF "RXEN" \in e.moder THEN 1 ELSE 0
  /\ e.jobs.tx_clock = IF "TXEN" \in e.moder THEN 1 ELSE 0
IndexOK(e) ==
  /\ "TXEN" \in e.moder => e.tx_bd_index \in 0 .. e.tx_bd_num - 1
  /\ e.rx_bd_index \in e.tx_bd_num .. NBD - 1

(* The two rings, while they are enabled and their descriptors were clean  *)
(* when they were.  A descriptor that is ready for reception is empty.     *)
EthTxOK(e, d) ==
  "TXEN" \in e.moder /\ d.clean =>
    \E k \in 0 .. e.tx_bd_num :
      /\ Holds({i \in E!TxRing(e) : e.bd[i].ready}, e.bd, 0, e.tx_bd_num, e.tx_bd_index, k, d.next)
      /\ d.count = Number(d.next, k)
      /\ d.pos = After(0, e.tx_bd_num, e.tx_bd_index, k)
EthRxOK(e, d) ==
  "RXEN" \in e.moder /\ d.clean =>
    /\ d.pos \in E!RxRing(e)
    /\ \A i \in E!RxRing(e) : e.bd[i].ready => e.bd[i].pkt = E!None
    /\ \E k \in 0 .. NBD - e.tx_bd_num :
         /\ Holds({i \in E!RxRing(e) : e.bd[i].pkt # E!None}, e.bd,
                  e.tx_bd_num, NBD - e.tx_bd_num, d.pos, k, d.next)
         /\ d.count = Number(d.next, k)
         /\ e.rx_bd_index = After(e.tx_bd_num, NBD - e.tx_bd_num, d.pos, k)
StreamOK(e, d, seen) ==
  /\ seen = "tx" => EthTxOK(e, d)
  /\ seen = "rx" => EthRxOK(e, d)

EthInv ==
  /\ eth \in EthRecord /\ drv \in DrvRecord /\ waiting \in 0 .. MaxWaiting
  /\ LineOK(eth, eth_line, eth_owed) /\ JobsOK(eth) /\ IndexOK(eth)
  /\ StreamOK(eth, drv, eth_observed)

(* Only interrupts differ.                                                 *)
SameRings(e, f) ==
  /\ f.moder = e.moder /\ f.tx_bd_num = e.tx_bd_num /\ f.tx_bd_index = e.tx_bd_index
  /\ f.rx_bd_index = e.rx_bd_index /\ f.bd = e.bd /\ f.jobs = e.jobs

(* What is said of the rings depends only on what is in them.              *)
LEMMA SameRingsOK ==
  ASSUME NEW e, NEW f, NEW d, NEW seen, SameRings(e, f)
  PROVE  /\ JobsOK(e) => JobsOK(f)
         /\ IndexOK(e) => IndexOK(f)
         /\ StreamOK(e, d, seen) => StreamOK(f, d, seen)
<1>1. (JobsOK(e) => JobsOK(f)) /\ (IndexOK(e) => IndexOK(f))
  BY DEF SameRings, JobsOK, IndexOK
<1>2. E!TxRing(f) = E!TxRing(e) /\ E!RxRing(f) = E!RxRing(e)
  BY DEF SameRings, E!TxRing, E!RxRing
<1>3. EthTxOK(e, d) => EthTxOK(f, d)
  BY <1>2 DEF SameRings, EthTxOK
<1>4. EthRxOK(e, d) => EthRxOK(f, d)
  BY <1>2 DEF SameRings, EthRxOK
<1> QED BY <1>1, <1>3, <1>4 DEF StreamOK

(* The interrupt of a descriptor: at most the line goes up, and it does    *)
(* when the source is owed.                                                *)
LEMMA RaisedOK ==
  ASSUME NEW e \in EthRecord, NEW source \in E!Sources, NEW irq \in BOOLEAN,
         LineOK(e, eth_line, eth_owed),
         NEW f, f = E!Raised(e, source, irq),
         NEW l, l = (eth_line \/ E!Reports(e, source, irq)),
         NEW o, o = E!Owing(e, source, irq)
  PROVE  f \in EthRecord /\ SameRings(e, f) /\ LineOK(f, l, o)
<1> DEFINE report == source \in e.int_mask /\ irq /\ ~e.int_line_stat
<1>1. /\ f = [e EXCEPT !.int_source = e.int_source \cup {source},
                       !.int_line_stat = e.int_line_stat \/ report]
      /\ l = (eth_line \/ report)
      /\ o = IF source \in e.int_mask /\ irq THEN eth_owed \cup {source} ELSE eth_owed
  BY DEF E!Raised, E!Reports, E!Owing
<1>2. /\ f.int_line_stat = (e.int_line_stat \/ report) /\ SameRings(e, f)
      /\ f.int_source = e.int_source \cup {source} /\ f.int_mask = e.int_mask
  BY <1>1 DEF EthRecord, SameRings
<1>3. LineOK(f, l, o)
  BY <1>1, <1>2 DEF LineOK, EthRecord
<1>4. PICK b \in BOOLEAN : b = (e.int_line_stat \/ report)
  OBVIOUS
<1>5. PICK s \in SUBSET E!Sources : s = e.int_source \cup {source}
  BY DEF EthRecord
<1>6. f = [e EXCEPT !.int_source = s, !.int_line_stat = b]
  BY <1>1, <1>4, <1>5
<1>7. f \in EthRecord
  BY <1>6 DEF EthRecord
<1> QED BY <1>2, <1>3, <1>7

LEMMA SignalOK ==
  ASSUME NEW e \in EthRecord, NEW source \in E!Sources, NEW irq \in BOOLEAN,
         E!Signal(e, source, irq), LineOK(e, eth_line, eth_owed)
  PROVE  /\ eth' \in EthRecord /\ SameRings(e, eth')
         /\ LineOK(eth', eth_line', eth_owed')
<1>1. PICK f, l, o : f = eth' /\ l = eth_line' /\ o = eth_owed'
  OBVIOUS
<1>2. /\ f = E!Raised(e, source, irq) /\ l = (eth_line \/ E!Reports(e, source, irq))
      /\ o = E!Owing(e, source, irq)
  BY <1>1 DEF E!Signal
<1>3. f \in EthRecord /\ SameRings(e, f) /\ LineOK(f, l, o)
  BY <1>2, RaisedOK
<1> QED BY <1>1, <1>3

(* Types of what the rings are made of.                                    *)
LEMMA EthFacts ==
  ASSUME EthSizes, NEW e \in EthRecord
  PROVE  /\ NBD \in Nat /\ PacketMod \in Nat /\ PacketMod > 0
         /\ e.tx_bd_num \in Nat /\ e.tx_bd_num > 0 /\ e.tx_bd_num < NBD
         /\ E!TxRing(e) = 0 .. 0 + e.tx_bd_num - 1
         /\ E!RxRing(e) = e.tx_bd_num .. e.tx_bd_num + (NBD - e.tx_bd_num) - 1
         /\ NBD - e.tx_bd_num \in Nat /\ NBD - e.tx_bd_num > 0
         /\ \A i \in 0 .. NBD - 1 : /\ e.bd[i] \in E!BDs /\ e.bd[i].ready \in BOOLEAN
                                    /\ e.bd[i].irq \in BOOLEAN
                                    /\ e.bd[i].pkt \in 0 .. PacketMod
         /\ E!TxRing(e) \cup E!RxRing(e) = 0 .. NBD - 1
         /\ E!TxRing(e) \cap E!RxRing(e) = {}
BY DEF EthSizes, EthRecord, E!BDs, E!TxRing, E!RxRing, E!Packets, E!None

(* Packet numbers.                                                         *)
LEMMA IncOK ==
  ASSUME EthSizes, NEW p \in 0 .. PacketMod
  PROVE  /\ E!Inc(p) \in E!Packets
         /\ p \in E!Packets => E!Inc(p) = Number(p, 1)
<1>1. PacketMod \in Nat /\ PacketMod > 0
  BY DEF EthSizes
<1>2. PICK x \in Int : x = p + 1
  BY <1>1
<1>3. x % PacketMod \in 0 .. PacketMod - 1
  BY <1>1, <1>2
<1>4. p < PacketMod => x % PacketMod = IF x < PacketMod THEN x ELSE x - PacketMod
  BY <1>1, <1>2, RestIs
<1> QED BY <1>1, <1>2, <1>3, <1>4 DEF E!Inc, E!Packets, Number

(* A descriptor is written.                                                *)
LEMMA BdWritten ==
  ASSUME NEW bd \in [0 .. NBD - 1 -> E!BDs], NEW i \in 0 .. NBD - 1, NEW v \in E!BDs, NEW bd2,
         bd2 = [bd EXCEPT ![i] = v]
  PROVE  /\ bd2 \in [0 .. NBD - 1 -> E!BDs] /\ bd2[i] = v
         /\ \A j \in 0 .. NBD - 1 : j # i => bd2[j] = bd[j]
OBVIOUS

(* A ring whose registers and descriptors stay the same.                   *)
LEMMA EthTxSame ==
  ASSUME EthSizes, NEW e \in EthRecord, NEW f, NEW d, EthTxOK(e, d),
         "TXEN" \in f.moder => "TXEN" \in e.moder,
         f.tx_bd_num = e.tx_bd_num, f.tx_bd_index = e.tx_bd_index,
         \A i \in E!TxRing(e) : f.bd[i] = e.bd[i]
  PROVE  EthTxOK(f, d)
<1> SUFFICES ASSUME "TXEN" \in e.moder, d.clean
             PROVE  EthTxOK(f, d)
  BY DEF EthTxOK
<1> DEFINE S == {i \in E!TxRing(e) : e.bd[i].ready}
<1>1. E!TxRing(f) = E!TxRing(e) /\ S = {i \in E!TxRing(f) : f.bd[i].ready}
  BY DEF E!TxRing
<1>2. PICK k \in 0 .. e.tx_bd_num :
        /\ Holds(S, e.bd, 0, e.tx_bd_num, e.tx_bd_index, k, d.next)
        /\ d.count = Number(d.next, k) /\ d.pos = After(0, e.tx_bd_num, e.tx_bd_index, k)
  BY DEF EthTxOK
<1> HIDE DEF S
<1>3. \A i \in 0 .. 0 + e.tx_bd_num - 1 : f.bd[i].pkt = e.bd[i].pkt
  BY EthFacts
<1>4. Holds(S, f.bd, 0, e.tx_bd_num, e.tx_bd_index, k, d.next)
  BY <1>2, <1>3, RingSame
<1> QED BY <1>1, <1>2, <1>4 DEF EthTxOK

(* What is said of reception does not depend on the transmit descriptors.  *)
LEMMA EthRxSame ==
  ASSUME EthSizes, NEW e \in EthRecord, NEW f, NEW d, EthRxOK(e, d),
         "RXEN" \in f.moder => "RXEN" \in e.moder,
         f.tx_bd_num = e.tx_bd_num, f.rx_bd_index = e.rx_bd_index,
         \A i \in E!RxRing(e) : f.bd[i] = e.bd[i]
  PROVE  EthRxOK(f, d)
<1> SUFFICES ASSUME "RXEN" \in e.moder, d.clean
             PROVE  EthRxOK(f, d)
  BY DEF EthRxOK
<1> DEFINE S == {i \in E!RxRing(e) : e.bd[i].pkt # E!None}
           b == e.tx_bd_num
           n == NBD - e.tx_bd_num
<1>1. E!RxRing(f) = E!RxRing(e) /\ S = {i \in E!RxRing(f) : f.bd[i].pkt # E!None}
  BY DEF E!RxRing
<1>2. PICK k \in 0 .. n :
        /\ Holds(S, e.bd, b, n, d.pos, k, d.next)
        /\ d.count = Number(d.next, k) /\ e.rx_bd_index = After(b, n, d.pos, k)
  BY DEF EthRxOK
<1>3. /\ d.pos \in E!RxRing(f)
      /\ \A i \in E!RxRing(f) : f.bd[i].ready => f.bd[i].pkt = E!None
  BY <1>1 DEF EthRxOK
<1> HIDE DEF S
<1>4. \A i \in b .. b + n - 1 : f.bd[i].pkt = e.bd[i].pkt
  BY EthFacts
<1> HIDE DEF n, b
<1>5. Holds(S, f.bd, b, n, d.pos, k, d.next)
  BY <1>2, <1>4, RingSame
<1> QED BY <1>1, <1>2, <1>3, <1>5 DEF EthRxOK, n, b

(* The first descriptor of the transmit ring is given back.                *)
LEMMA FlushOK ==
  ASSUME EthSizes, EthInv, "TXEN" \in eth.moder, NEW written \in BOOLEAN,
         eth.bd[eth.tx_bd_index].ready, E!eth_flush_bd(written)
  PROVE  /\ eth' \in EthRecord /\ drv' \in DrvRecord
         /\ LineOK(eth', eth_line', eth_owed') /\ JobsOK(eth') /\ IndexOK(eth')
         /\ StreamOK(eth', drv', eth_observed)
<1> DEFINE i == eth.tx_bd_index
           x == IF E!Wrap(i) \/ i >= eth.tx_bd_num - 1 THEN 0 ELSE i + 1
           b2 == [eth.bd EXCEPT ![i] = [eth.bd[i] EXCEPT !.ready = FALSE]]
           e == [eth EXCEPT !.bd = b2, !.tx_bd_index = x]
           n == eth.tx_bd_num
<1>1. /\ E!Signal(e, IF written THEN "TXB" ELSE "TXE", eth.bd[i].irq)
      /\ drv' = IF eth_observed = "tx" THEN [drv EXCEPT !.next = E!Inc(eth.bd[i].pkt)] ELSE drv
  BY DEF E!eth_flush_bd
<1>2. /\ eth \in EthRecord /\ drv \in DrvRecord /\ LineOK(eth, eth_line, eth_owed)
      /\ JobsOK(eth) /\ i \in 0 .. n - 1 /\ eth.rx_bd_index \in n .. NBD - 1
      /\ StreamOK(eth, drv, eth_observed)
  BY DEF EthInv, IndexOK
<1>3. i \in 0 .. NBD - 1 /\ eth.bd[i].irq \in BOOLEAN /\ eth.bd[i].pkt \in 0 .. PacketMod
  BY <1>2, EthFacts
<1>4. x = After(0, n, i, 1) /\ x \in 0 .. n - 1
  <2>1. n \in Nat /\ n > 0 /\ n < NBD /\ NBD \in Nat
    BY <1>2, EthFacts
  <2> QED BY <1>2, <2>1 DEF After, E!Wrap
<1>5. b2 \in [0 .. NBD - 1 -> E!BDs] /\ b2[i].pkt = eth.bd[i].pkt /\ b2[i].ready = FALSE
      /\ \A j \in 0 .. NBD - 1 : j # i => b2[j] = eth.bd[j]
  <2> DEFINE v == [eth.bd[i] EXCEPT !.ready = FALSE]
  <2>1. eth.bd \in [0 .. NBD - 1 -> E!BDs] /\ eth.bd[i] \in E!BDs
    BY <1>2, <1>3, EthFacts DEF EthRecord
  <2>2. v \in E!BDs /\ v.pkt = eth.bd[i].pkt /\ v.ready = FALSE
    BY <2>1 DEF E!BDs
  <2> HIDE DEF v
  <2>3. b2 = [eth.bd EXCEPT ![i] = v]
    BY DEF v
  <2> QED BY <1>3, <2>1, <2>2, <2>3, BdWritten
<1> HIDE DEF x, b2
<1>6. /\ e \in EthRecord /\ e.bd = b2 /\ e.tx_bd_index = x /\ e.moder = eth.moder
      /\ e.tx_bd_num = n /\ e.rx_bd_index = eth.rx_bd_index /\ e.jobs = eth.jobs
      /\ e.int_line_stat = eth.int_line_stat
      /\ e.int_source = eth.int_source /\ e.int_mask = eth.int_mask
  <2>1. x \in Nat
    BY <1>2, <1>4, EthFacts
  <2>2. e \in EthRecord
    BY <1>2, <1>5, <2>1 DEF EthRecord
  <2> QED BY <1>2, <2>2 DEF EthRecord
<1> HIDE DEF e
<1>7. LineOK(e, eth_line, eth_owed) /\ JobsOK(e) /\ IndexOK(e)
  BY <1>2, <1>4, <1>6 DEF LineOK, JobsOK, IndexOK
<1>8. PICK src \in E!Sources : src = IF written THEN "TXB" ELSE "TXE"
  BY DEF E!Sources
<1>9. eth' \in EthRecord /\ SameRings(e, eth') /\ LineOK(eth', eth_line', eth_owed')
  BY <1>1, <1>3, <1>6, <1>7, <1>8, SignalOK
<1>10. drv' \in DrvRecord
  BY <1>1, <1>2, <1>3, IncOK DEF DrvRecord
<1>11. ASSUME eth_observed = "tx", drv.clean
       PROVE  EthTxOK(e, drv')
  <2>1. /\ drv'.next = E!Inc(eth.bd[i].pkt) /\ drv'.pos = drv.pos /\ drv'.count = drv.count
    BY <1>1, <1>2, <1>11 DEF DrvRecord
  <2> DEFINE S == {j \in E!TxRing(eth) : eth.bd[j].ready}
             T == {j \in E!TxRing(e) : e.bd[j].ready}
  <2>2. PICK k \in 0 .. n : /\ Holds(S, eth.bd, 0, n, i, k, drv.next)
                            /\ drv.count = Number(drv.next, k) /\ drv.pos = After(0, n, i, k)
    BY <1>2, <1>11 DEF StreamOK, EthTxOK
  <2>3. Ring(0, n, i, k, drv.next)
    BY <1>2, <2>2, EthFacts DEF Ring, EthSizes, DrvRecord, E!Packets
  <2>4. i \in S
    BY <1>2, EthFacts
  <2>5. \A j \in 0 .. 0 + n - 1 : /\ j \in T <=> j \in S /\ j # i
                                  /\ j # i => b2[j].pkt = eth.bd[j].pkt
    BY <1>2, <1>5, <1>6, EthFacts
  <2> HIDE DEF S, T
  <2>6. /\ k - 1 \in 0 .. n /\ eth.bd[i].pkt = drv.next
        /\ Holds(T, b2, 0, n, After(0, n, i, 1), k - 1, Number(drv.next, 1))
        /\ Number(Number(drv.next, 1), k - 1) = Number(drv.next, k)
        /\ After(0, n, After(0, n, i, 1), k - 1) = After(0, n, i, k)
    <3>1. Pops(S, T, eth.bd, b2, 0, n, i, k, drv.next)
      BY <2>2, <2>3, <2>4, <2>5 DEF Pops
    <3>2. Popped(T, eth.bd, b2, 0, n, i, k, drv.next)
      BY <3>1, RingPop
    <3> QED BY <3>2 DEF Popped
  <2>7. drv'.next = Number(drv.next, 1)
    BY <1>2, <1>3, <2>1, <2>6, IncOK DEF DrvRecord
  <2> QED BY <1>4, <1>6, <2>1, <2>2, <2>6, <2>7 DEF EthTxOK, T
<1>12. eth_observed = "tx" => EthTxOK(e, drv')
  <2>1. eth_observed = "tx" => drv'.clean = drv.clean
    BY <1>1, <1>2 DEF DrvRecord
  <2> QED BY <1>11, <2>1 DEF EthTxOK
<1>13. eth_observed = "rx" => EthRxOK(e, drv')
  <2> SUFFICES ASSUME eth_observed = "rx" PROVE EthRxOK(e, drv')
    OBVIOUS
  <2>1. drv' = drv /\ EthRxOK(eth, drv)
    BY <1>1, <1>2 DEF StreamOK
  <2>2. \A j \in E!RxRing(eth) : e.bd[j] = eth.bd[j]
    BY <1>2, <1>5, <1>6, EthFacts
  <2> QED BY <1>2, <1>6, <2>1, <2>2, EthRxSame
<1>14. StreamOK(e, drv', eth_observed)
  BY <1>12, <1>13 DEF StreamOK
<1> QED BY <1>7, <1>9, <1>10, <1>14, SameRingsOK

(* A packet is put into the next descriptor of the receive ring.           *)
LEMMA FillOK ==
  ASSUME EthSizes, EthInv, "RXEN" \in eth.moder, eth.bd[eth.rx_bd_index].ready, E!Fill
  PROVE  /\ eth' \in EthRecord /\ drv' \in DrvRecord
         /\ LineOK(eth', eth_line', eth_owed') /\ JobsOK(eth') /\ IndexOK(eth')
         /\ StreamOK(eth', drv', eth_observed)
<1> DEFINE i == eth.rx_bd_index
           p == IF eth_observed = "rx" THEN drv.count ELSE 0
           x == IF E!Wrap(i) THEN eth.tx_bd_num ELSE i + 1
           v == [eth.bd[i] EXCEPT !.ready = FALSE, !.pkt = p]
           b2 == [eth.bd EXCEPT ![i] = v]
           e == [eth EXCEPT !.bd = b2, !.rx_bd_index = x]
           b == eth.tx_bd_num
           n == NBD - eth.tx_bd_num
<1>1. /\ E!Signal(e, "RXB", eth.bd[i].irq)
      /\ drv' = IF eth_observed = "rx" THEN [drv EXCEPT !.count = E!Inc(drv.count)] ELSE drv
  BY DEF E!Fill
<1>2. /\ eth \in EthRecord /\ drv \in DrvRecord /\ LineOK(eth, eth_line, eth_owed)
      /\ JobsOK(eth) /\ i \in b .. NBD - 1
      /\ "TXEN" \in eth.moder => eth.tx_bd_index \in 0 .. b - 1
      /\ StreamOK(eth, drv, eth_observed)
  BY DEF EthInv, IndexOK
<1>3. /\ i \in 0 .. NBD - 1 /\ eth.bd[i].irq \in BOOLEAN /\ i \in E!RxRing(eth) /\ i \notin E!TxRing(eth)
      /\ b \in Nat /\ b > 0 /\ b < NBD /\ NBD \in Nat /\ eth.bd[i] \in E!BDs
  BY <1>2, EthFacts DEF E!RxRing
<1>4. x = After(b, n, i, 1) /\ x \in b .. NBD - 1 /\ x \in Nat
  BY <1>2, <1>3 DEF After, E!Wrap
<1>5. p \in E!Packets
  BY <1>2 DEF DrvRecord, EthSizes, E!Packets
<1>6. v \in E!BDs /\ v.pkt = p /\ v.ready = FALSE
  BY <1>3, <1>5 DEF E!BDs
<1> HIDE DEF v, p, x
<1>7. b2 \in [0 .. NBD - 1 -> E!BDs] /\ b2[i] = v
      /\ \A j \in 0 .. NBD - 1 : j # i => b2[j] = eth.bd[j]
  <2>1. eth.bd \in [0 .. NBD - 1 -> E!BDs]
    BY <1>2 DEF EthRecord
  <2> QED BY <1>3, <1>6, <2>1, BdWritten
<1> HIDE DEF b2
<1>8. /\ e \in EthRecord /\ e.bd = b2 /\ e.rx_bd_index = x /\ e.moder = eth.moder
      /\ e.tx_bd_num = b /\ e.tx_bd_index = eth.tx_bd_index /\ e.jobs = eth.jobs
      /\ e.int_line_stat = eth.int_line_stat
      /\ e.int_source = eth.int_source /\ e.int_mask = eth.int_mask
  <2>1. e \in EthRecord
    BY <1>2, <1>4, <1>7 DEF EthRecord
  <2> QED BY <1>2, <2>1 DEF EthRecord
<1> HIDE DEF e
<1>9. LineOK(e, eth_line, eth_owed) /\ JobsOK(e) /\ IndexOK(e)
  BY <1>2, <1>4, <1>8 DEF LineOK, JobsOK, IndexOK
<1>10. PICK src \in E!Sources : src = "RXB"
  BY DEF E!Sources
<1>11. eth' \in EthRecord /\ SameRings(e, eth') /\ LineOK(eth', eth_line', eth_owed')
  BY <1>1, <1>3, <1>8, <1>9, <1>10, SignalOK
<1>12. drv' \in DrvRecord
  <2>1. E!Inc(drv.count) \in E!Packets
    BY <1>2, IncOK, EthFacts DEF DrvRecord, E!Packets
  <2> QED BY <1>1, <1>2, <2>1 DEF DrvRecord
<1>13. ASSUME eth_observed = "rx", drv.clean
       PROVE  EthRxOK(e, drv')
  <2>1. /\ drv'.count = E!Inc(drv.count) /\ drv'.pos = drv.pos /\ drv'.next = drv.next
        /\ p = drv.count /\ drv.next \in E!Packets
    BY <1>1, <1>2, <1>13 DEF DrvRecord, p
  <2> DEFINE S == {j \in E!RxRing(eth) : eth.bd[j].pkt # E!None}
             T == {j \in E!RxRing(e) : e.bd[j].pkt # E!None}
  <2>2. /\ drv.pos \in E!RxRing(eth)
        /\ \A j \in E!RxRing(eth) : eth.bd[j].ready => eth.bd[j].pkt = E!None
    BY <1>2, <1>13 DEF StreamOK, EthRxOK
  <2>3. PICK k \in 0 .. n : /\ Holds(S, eth.bd, b, n, drv.pos, k, drv.next)
                            /\ drv.count = Number(drv.next, k) /\ i = After(b, n, drv.pos, k)
    BY <1>2, <1>13 DEF StreamOK, EthRxOK
  <2>4. E!RxRing(e) = E!RxRing(eth) /\ E!RxRing(eth) = b .. b + n - 1
    BY <1>2, <1>8, EthFacts DEF E!RxRing
  <2>5. Ring(b, n, drv.pos, k, drv.next)
    BY <1>3, <2>1, <2>2, <2>3, <2>4 DEF Ring, EthSizes, E!Packets
  <2>6. p # E!None
    BY <1>5 DEF E!Packets, E!None, EthSizes
  <2>7. i \notin S
    BY <1>3, <2>2
  <2>8. \A j \in b .. b + n - 1 : /\ j \in T <=> j \in S \/ j = i
                                  /\ j # i => b2[j].pkt = eth.bd[j].pkt
    BY <1>3, <1>6, <1>7, <1>8, <2>4, <2>6
  <2>9. \A j \in E!RxRing(e) : e.bd[j].ready => e.bd[j].pkt = E!None
    BY <1>3, <1>6, <1>7, <1>8, <2>2, <2>4
  <2> HIDE DEF S, T
  <2>10. Pushes(S, T, eth.bd, b2, b, n, drv.pos, k, drv.next, i)
    BY <1>6, <1>7, <2>1, <2>3, <2>5, <2>7, <2>8 DEF Pushes
  <2>11. Pushed(T, b2, b, n, drv.pos, k, drv.next, i)
    BY <2>10, RingPush
  <2>12. k + 1 \in 0 .. n /\ Holds(T, b2, b, n, drv.pos, k + 1, drv.next)
         /\ Number(drv.count, 1) = Number(drv.next, k + 1) /\ x = After(b, n, drv.pos, k + 1)
    BY <1>4, <2>3, <2>11 DEF Pushed, Ring
  <2>13. drv'.count = Number(drv.count, 1)
    BY <1>2, <2>1, IncOK DEF DrvRecord, E!Packets, EthSizes
  <2> QED BY <1>8, <2>1, <2>2, <2>4, <2>9, <2>12, <2>13 DEF EthRxOK, T
<1>14. eth_observed = "rx" => EthRxOK(e, drv')
  <2>1. eth_observed = "rx" => drv'.clean = drv.clean
    BY <1>1, <1>2 DEF DrvRecord
  <2> QED BY <1>13, <2>1 DEF EthRxOK
<1>15. eth_observed = "tx" => EthTxOK(e, drv')
  <2> SUFFICES ASSUME eth_observed = "tx" PROVE EthTxOK(e, drv')
    OBVIOUS
  <2>1. drv' = drv /\ EthTxOK(eth, drv)
    BY <1>1, <1>2 DEF StreamOK
  <2>2. \A j \in E!TxRing(eth) : e.bd[j] = eth.bd[j]
    BY <1>2, <1>3, <1>7, <1>8, EthFacts
  <2> QED BY <1>2, <1>8, <2>1, <2>2, EthTxSame
<1>16. StreamOK(e, drv', eth_observed)
  BY <1>14, <1>15 DEF StreamOK
<1> QED BY <1>9, <1>11, <1>12, <1>16, SameRingsOK

(* The driver writes one descriptor, and nothing else.                     *)
Writes(e, f, i, v) ==
  /\ e \in EthRecord /\ i \in 0 .. NBD - 1 /\ v \in E!BDs
  /\ f = [e EXCEPT !.bd = [e.bd EXCEPT ![i] = v]]
Written(e, f, i, v) ==
  /\ f \in EthRecord /\ f.moder = e.moder /\ f.tx_bd_num = e.tx_bd_num
  /\ f.tx_bd_index = e.tx_bd_index /\ f.rx_bd_index = e.rx_bd_index /\ f.jobs = e.jobs
  /\ f.int_line_stat = e.int_line_stat /\ f.bd[i] = v
  /\ \A j \in 0 .. NBD - 1 : j # i => f.bd[j] = e.bd[j]
(* A descriptor that is written keeps the record well formed.              *)
LEMMA WrittenOK ==
  ASSUME NEW e, NEW f, NEW i, NEW v, Writes(e, f, i, v)
  PROVE  /\ Written(e, f, i, v)
         /\ \A line, owed : LineOK(e, line, owed) => LineOK(f, line, owed)
         /\ JobsOK(e) => JobsOK(f)
         /\ IndexOK(e) => IndexOK(f)
<1> USE DEF Writes
<1> DEFINE b2 == [e.bd EXCEPT ![i] = v]
<1>1. e.bd \in [0 .. NBD - 1 -> E!BDs]
  BY DEF EthRecord
<1>2. /\ b2 \in [0 .. NBD - 1 -> E!BDs] /\ b2[i] = v
      /\ \A j \in 0 .. NBD - 1 : j # i => b2[j] = e.bd[j]
  BY <1>1, BdWritten
<1>3. f = [e EXCEPT !.bd = b2]
  OBVIOUS
<1> HIDE DEF b2
<1>4. f \in EthRecord
  BY <1>2, <1>3 DEF EthRecord
<1>5. /\ f.moder = e.moder /\ f.tx_bd_num = e.tx_bd_num
      /\ f.tx_bd_index = e.tx_bd_index /\ f.rx_bd_index = e.rx_bd_index /\ f.jobs = e.jobs
      /\ f.int_line_stat = e.int_line_stat /\ f.bd = b2
      /\ f.int_source = e.int_source /\ f.int_mask = e.int_mask
  BY <1>3, <1>4 DEF EthRecord
<1>6. /\ \A line, owed : LineOK(e, line, owed) => LineOK(f, line, owed)
      /\ JobsOK(e) => JobsOK(f)
      /\ IndexOK(e) => IndexOK(f)
  BY <1>5 DEF LineOK, JobsOK, IndexOK
<1> QED BY <1>2, <1>4, <1>5, <1>6 DEF Written

(* The driver fills the next transmit descriptor.                          *)
LEMMA SendOK ==
  ASSUME EthSizes, EthInv, NEW i \in 0 .. NBD - 1, NEW irq \in BOOLEAN, E!SendPacket(i, irq)
  PROVE  EthInv'
<1> DEFINE p == IF eth_observed = "tx" THEN drv.count ELSE 0
           v == [ready |-> TRUE, irq |-> irq, pkt |-> p]
           n == eth.tx_bd_num
<1>1. /\ "TXEN" \in eth.moder /\ i \in E!TxRing(eth) /\ ~eth.bd[i].ready
      /\ eth_observed = "tx" => i = drv.pos
      /\ eth' = [eth EXCEPT !.bd = [eth.bd EXCEPT ![i] = v]]
      /\ drv' = IF eth_observed = "tx"
                THEN [drv EXCEPT !.pos = E!TxAfter(eth, i, 1), !.count = E!Inc(drv.count)] ELSE drv
      /\ UNCHANGED <<rtx_type, waiting, eth_observed, eth_line, eth_owed>>
  BY DEF E!SendPacket, E!host
<1>2. /\ eth \in EthRecord /\ drv \in DrvRecord /\ LineOK(eth, eth_line, eth_owed)
      /\ JobsOK(eth) /\ IndexOK(eth) /\ eth.tx_bd_index \in 0 .. n - 1
      /\ StreamOK(eth, drv, eth_observed) /\ waiting \in 0 .. MaxWaiting
  BY <1>1 DEF EthInv, IndexOK
<1>3. p \in E!Packets /\ p # E!None /\ drv.count \in 0 .. PacketMod /\ drv.count \in E!Packets
  BY <1>2 DEF DrvRecord, EthSizes, E!Packets, E!None
<1>4. v \in E!BDs /\ v.pkt = p /\ v.ready = TRUE
  BY <1>3 DEF E!BDs
<1> HIDE DEF v, p
<1>5. /\ eth' \in EthRecord /\ eth'.moder = eth.moder /\ eth'.tx_bd_num = n
      /\ eth'.tx_bd_index = eth.tx_bd_index /\ eth'.rx_bd_index = eth.rx_bd_index
      /\ eth'.bd[i] = v /\ \A j \in 0 .. NBD - 1 : j # i => eth'.bd[j] = eth.bd[j]
      /\ LineOK(eth', eth_line, eth_owed) /\ JobsOK(eth') /\ IndexOK(eth')
  <2>1. Writes(eth, eth', i, v)
    BY <1>1, <1>2, <1>4 DEF Writes
  <2>2. Written(eth, eth', i, v)
    BY <2>1, WrittenOK
  <2>3. LineOK(eth', eth_line, eth_owed) /\ JobsOK(eth') /\ IndexOK(eth')
    BY <1>2, <2>1, WrittenOK
  <2> QED BY <2>2, <2>3 DEF Written
<1>6. n \in Nat /\ n > 0 /\ n < NBD /\ NBD \in Nat /\ E!TxRing(eth) = 0 .. 0 + n - 1
  BY <1>2, EthFacts
<1>7. E!TxAfter(eth, i, 1) = After(0, n, i, 1) /\ E!TxAfter(eth, i, 1) \in Nat
  <2>1. PICK y \in Int : y = i + 1
    OBVIOUS
  <2>2. y % n = IF y < n THEN y ELSE y - n
    <3>1. 0 <= y /\ y < n + n
      BY <1>1, <1>6, <2>1
    <3> QED BY <1>6, <3>1, RestIs
  <2> QED BY <1>1, <1>6, <2>1, <2>2 DEF E!TxAfter, After
<1>8. drv' \in DrvRecord
  <2>1. E!Inc(drv.count) \in E!Packets
    BY <1>3, IncOK
  <2> QED BY <1>1, <1>2, <1>7, <2>1 DEF DrvRecord
<1>9. ASSUME eth_observed = "tx", drv.clean
       PROVE  EthTxOK(eth', drv')
  <2>1. /\ drv'.count = E!Inc(drv.count) /\ drv'.pos = After(0, n, i, 1) /\ drv'.next = drv.next
        /\ p = drv.count /\ drv.next \in E!Packets /\ i = drv.pos
    BY <1>1, <1>2, <1>7, <1>9 DEF DrvRecord, p
  <2> DEFINE S == {j \in E!TxRing(eth) : eth.bd[j].ready}
             T == {j \in E!TxRing(eth') : eth'.bd[j].ready}
             s == eth.tx_bd_index
  <2>2. PICK k \in 0 .. n : /\ Holds(S, eth.bd, 0, n, s, k, drv.next)
                            /\ drv.count = Number(drv.next, k) /\ drv.pos = After(0, n, s, k)
    BY <1>1, <1>2, <1>9 DEF StreamOK, EthTxOK
  <2>3. E!TxRing(eth') = E!TxRing(eth)
    BY <1>5 DEF E!TxRing
  <2>4. Ring(0, n, s, k, drv.next)
    BY <1>2, <1>6, <2>1, <2>2 DEF Ring, EthSizes, E!Packets
  <2>5. i \notin S
    BY <1>1
  <2>6. \A j \in 0 .. 0 + n - 1 : /\ j \in T <=> j \in S \/ j = i
                                  /\ j # i => eth'.bd[j].pkt = eth.bd[j].pkt
    BY <1>1, <1>4, <1>5, <1>6, <2>3
  <2> HIDE DEF S, T
  <2>7. Pushes(S, T, eth.bd, eth'.bd, 0, n, s, k, drv.next, i)
    BY <1>4, <1>5, <2>1, <2>2, <2>4, <2>5, <2>6 DEF Pushes
  <2>8. Pushed(T, eth'.bd, 0, n, s, k, drv.next, i)
    BY <2>7, RingPush
  <2>9. k + 1 \in 0 .. n /\ Holds(T, eth'.bd, 0, n, s, k + 1, drv.next)
        /\ Number(drv.count, 1) = Number(drv.next, k + 1) /\ After(0, n, i, 1) = After(0, n, s, k + 1)
    BY <2>2, <2>8 DEF Pushed, Ring
  <2>10. drv'.count = Number(drv.count, 1)
    BY <1>3, <2>1, IncOK
  <2> QED BY <1>5, <2>1, <2>9, <2>10 DEF EthTxOK, T
<1>10. eth_observed = "tx" => EthTxOK(eth', drv')
  <2>1. eth_observed = "tx" => drv'.clean = drv.clean
    BY <1>1, <1>2 DEF DrvRecord
  <2> QED BY <1>9, <2>1 DEF EthTxOK
<1>11. eth_observed = "rx" => EthRxOK(eth', drv')
  <2> SUFFICES ASSUME eth_observed = "rx" PROVE EthRxOK(eth', drv')
    OBVIOUS
  <2>1. drv' = drv /\ EthRxOK(eth, drv)
    BY <1>1, <1>2 DEF StreamOK
  <2>2. \A j \in E!RxRing(eth) : eth'.bd[j] = eth.bd[j]
    BY <1>1, <1>2, <1>5, EthFacts
  <2> QED BY <1>2, <1>5, <2>1, <2>2, EthRxSame
<1>12. StreamOK(eth', drv', eth_observed)
  BY <1>10, <1>11 DEF StreamOK
<1> QED BY <1>1, <1>2, <1>5, <1>8, <1>12 DEF EthInv

(* The driver takes the next received packet.                              *)
LEMMA TakeOK ==
  ASSUME EthSizes, EthInv, NEW i \in 0 .. NBD - 1, NEW irq \in BOOLEAN, E!TakePacket(i, irq)
  PROVE  EthInv'
<1> DEFINE v == [ready |-> TRUE, irq |-> irq, pkt |-> E!None]
           b == eth.tx_bd_num
           n == NBD - eth.tx_bd_num
<1>1. /\ "RXEN" \in eth.moder /\ i \in E!RxRing(eth) /\ eth.bd[i].pkt # E!None
      /\ eth_observed = "rx" => i = drv.pos
      /\ eth' = [eth EXCEPT !.bd = [eth.bd EXCEPT ![i] = v]]
      /\ drv' = IF eth_observed = "rx"
                THEN [drv EXCEPT !.pos = E!RxAfter(eth, i, 1), !.next = E!Inc(eth.bd[i].pkt)] ELSE drv
      /\ UNCHANGED <<rtx_type, waiting, eth_observed, eth_line, eth_owed>>
  BY DEF E!TakePacket, E!host
<1>2. /\ eth \in EthRecord /\ drv \in DrvRecord /\ LineOK(eth, eth_line, eth_owed)
      /\ JobsOK(eth) /\ IndexOK(eth)
      /\ StreamOK(eth, drv, eth_observed) /\ waiting \in 0 .. MaxWaiting
  BY <1>1 DEF EthInv
<1>3. /\ b \in Nat /\ b > 0 /\ b < NBD /\ NBD \in Nat /\ n \in Nat /\ n > 0
      /\ E!RxRing(eth) = b .. b + n - 1 /\ eth.bd[i].pkt \in 0 .. PacketMod
      /\ i \notin E!TxRing(eth)
  BY <1>1, <1>2, EthFacts
<1>4. v \in E!BDs /\ v.pkt = E!None /\ v.ready = TRUE
  BY DEF E!BDs
<1> HIDE DEF v
<1>5. /\ eth' \in EthRecord /\ eth'.moder = eth.moder /\ eth'.tx_bd_num = b
      /\ eth'.tx_bd_index = eth.tx_bd_index /\ eth'.rx_bd_index = eth.rx_bd_index
      /\ eth'.bd[i] = v /\ \A j \in 0 .. NBD - 1 : j # i => eth'.bd[j] = eth.bd[j]
      /\ LineOK(eth', eth_line, eth_owed) /\ JobsOK(eth') /\ IndexOK(eth')
  <2>1. Writes(eth, eth', i, v)
    BY <1>1, <1>2, <1>4 DEF Writes
  <2>2. Written(eth, eth', i, v)
    BY <2>1, WrittenOK
  <2>3. LineOK(eth', eth_line, eth_owed) /\ JobsOK(eth') /\ IndexOK(eth')
    BY <1>2, <2>1, WrittenOK
  <2> QED BY <2>2, <2>3 DEF Written
<1>6. E!RxAfter(eth, i, 1) = After(b, n, i, 1) /\ E!RxAfter(eth, i, 1) \in Nat
      /\ E!RxAfter(eth, i, 1) \in b .. b + n - 1
  <2>1. PICK y \in Int : y = i - b + 1
    BY <1>3
  <2>2. y % n = IF y < n THEN y ELSE y - n
    <3>1. 0 <= y /\ y < n + n
      BY <1>1, <1>3, <2>1
    <3> HIDE DEF n
    <3> QED BY <1>3, <3>1, RestIs
  <2>3. E!RxAfter(eth, i, 1) = b + (y % n)
    BY <2>1 DEF E!RxAfter
  <2>4. i \in b .. b + n - 1 /\ b \in Nat /\ n \in Nat /\ n > 0
    BY <1>1, <1>3
  <2>5. E!RxAfter(eth, i, 1) = b + (IF y < n THEN y ELSE y - n)
    BY <2>2, <2>3
  <2> HIDE DEF b, n
  <2> QED BY <2>1, <2>4, <2>5 DEF After
<1>7. drv' \in DrvRecord
  <2>1. E!Inc(eth.bd[i].pkt) \in E!Packets
    BY <1>3, IncOK
  <2> QED BY <1>1, <1>2, <1>6, <2>1 DEF DrvRecord
<1>8. ASSUME eth_observed = "rx", drv.clean
       PROVE  EthRxOK(eth', drv')
  <2>1. /\ drv'.next = E!Inc(eth.bd[i].pkt) /\ drv'.pos = After(b, n, i, 1) /\ drv'.count = drv.count
        /\ drv.next \in E!Packets /\ i = drv.pos
    BY <1>1, <1>2, <1>6, <1>8 DEF DrvRecord
  <2> DEFINE S == {j \in E!RxRing(eth) : eth.bd[j].pkt # E!None}
             T == {j \in E!RxRing(eth') : eth'.bd[j].pkt # E!None}
  <2>2. \A j \in E!RxRing(eth) : eth.bd[j].ready => eth.bd[j].pkt = E!None
    BY <1>1, <1>2, <1>8 DEF StreamOK, EthRxOK
  <2>3. PICK k \in 0 .. n : /\ Holds(S, eth.bd, b, n, i, k, drv.next)
                            /\ drv.count = Number(drv.next, k)
                            /\ eth.rx_bd_index = After(b, n, i, k)
    BY <1>1, <1>2, <1>8, <2>1 DEF StreamOK, EthRxOK
  <2>4. E!RxRing(eth') = E!RxRing(eth)
    BY <1>5 DEF E!RxRing
  <2>5. Ring(b, n, i, k, drv.next)
    BY <1>1, <1>3, <2>1, <2>3 DEF Ring, EthSizes, E!Packets
  <2>6. i \in S
    BY <1>1
  <2>7. \A j \in b .. b + n - 1 : /\ j \in T <=> j \in S /\ j # i
                                  /\ j # i => eth'.bd[j].pkt = eth.bd[j].pkt
    BY <1>1, <1>3, <1>4, <1>5, <2>4
  <2>8. \A j \in E!RxRing(eth') : eth'.bd[j].ready => eth'.bd[j].pkt = E!None
    BY <1>3, <1>4, <1>5, <2>2, <2>4
  <2> HIDE DEF S, T
  <2>9. Pops(S, T, eth.bd, eth'.bd, b, n, i, k, drv.next)
    BY <2>3, <2>5, <2>6, <2>7 DEF Pops
  <2>10. Popped(T, eth.bd, eth'.bd, b, n, i, k, drv.next)
    BY <2>9, RingPop
  <2>11. /\ k - 1 \in 0 .. n /\ eth.bd[i].pkt = drv.next
         /\ Holds(T, eth'.bd, b, n, After(b, n, i, 1), k - 1, Number(drv.next, 1))
         /\ drv.count = Number(Number(drv.next, 1), k - 1)
         /\ eth.rx_bd_index = After(b, n, After(b, n, i, 1), k - 1)
    BY <2>3, <2>10 DEF Popped
  <2>12. drv'.next = Number(drv.next, 1)
    BY <1>3, <2>1, <2>11, IncOK
  <2>13. drv'.pos \in E!RxRing(eth')
    BY <1>3, <1>6, <2>1, <2>4
  <2> QED BY <1>5, <2>1, <2>8, <2>11, <2>12, <2>13 DEF EthRxOK, T
<1>9. eth_observed = "rx" => EthRxOK(eth', drv')
  <2>1. eth_observed = "rx" => drv'.clean = drv.clean
    BY <1>1, <1>2 DEF DrvRecord
  <2> QED BY <1>8, <2>1 DEF EthRxOK
<1>10. eth_observed = "tx" => EthTxOK(eth', drv')
  <2> SUFFICES ASSUME eth_observed = "tx" PROVE EthTxOK(eth', drv')
    OBVIOUS
  <2>1. drv' = drv /\ EthTxOK(eth, drv)
    BY <1>1, <1>2 DEF StreamOK
  <2>2. \A j \in E!TxRing(eth) : eth'.bd[j] = eth.bd[j]
    BY <1>1, <1>2, <1>3, <1>5, EthFacts
  <2> QED BY <1>2, <1>5, <2>1, <2>2, EthTxSame
<1>11. StreamOK(eth', drv', eth_observed)
  BY <1>9, <1>10 DEF StreamOK
<1> QED BY <1>1, <1>2, <1>5, <1>7, <1>11 DEF EthInv

(* A descriptor of a disabled ring is set up.                              *)
LEMMA WriteBdOK ==
  ASSUME EthSizes, EthInv, NEW i \in 0 .. NBD - 1, E!write_BD(i)
  PROVE  EthInv'
<1> DEFINE v == IF i \in E!TxRing(eth) THEN E!EmptyBD
                ELSE [E!EmptyBD EXCEPT !.ready = TRUE, !.irq = TRUE]
<1>1. /\ i \in E!TxRing(eth) => "TXEN" \notin eth.moder
      /\ i \notin E!TxRing(eth) => "RXEN" \notin eth.moder
      /\ eth' = [eth EXCEPT !.bd = [eth.bd EXCEPT ![i] = v]]
      /\ UNCHANGED <<rtx_type, waiting, eth_observed, eth_line, drv, eth_owed>>
  BY DEF E!write_BD, E!host
<1>2. /\ eth \in EthRecord /\ drv \in DrvRecord /\ LineOK(eth, eth_line, eth_owed)
      /\ JobsOK(eth) /\ IndexOK(eth)
      /\ StreamOK(eth, drv, eth_observed) /\ waiting \in 0 .. MaxWaiting
  BY <1>1 DEF EthInv
<1>3. v \in E!BDs
  BY DEF E!BDs, E!EmptyBD
<1> HIDE DEF v
<1>4. Writes(eth, eth', i, v)
  BY <1>1, <1>2, <1>3 DEF Writes
<1>5. Written(eth, eth', i, v)
  BY <1>4, WrittenOK
<1>6. LineOK(eth', eth_line, eth_owed) /\ JobsOK(eth') /\ IndexOK(eth')
  BY <1>2, <1>4, WrittenOK
<1>7. EthTxOK(eth, drv) => EthTxOK(eth', drv)
  <2>1. CASE "TXEN" \in eth.moder
    <3>1. \A j \in E!TxRing(eth) : eth'.bd[j] = eth.bd[j]
      BY <1>1, <1>2, <1>5, <2>1, EthFacts DEF Written
    <3> QED BY <1>2, <1>5, <3>1, EthTxSame DEF Written
  <2>2. CASE "TXEN" \notin eth.moder
    BY <1>5, <2>2 DEF Written, EthTxOK
  <2> QED BY <2>1, <2>2
<1>8. EthRxOK(eth, drv) => EthRxOK(eth', drv)
  <2>1. CASE "RXEN" \in eth.moder
    <3>1. \A j \in E!RxRing(eth) : eth'.bd[j] = eth.bd[j]
      BY <1>1, <1>2, <1>5, <2>1, EthFacts DEF Written
    <3> QED BY <1>2, <1>5, <3>1, EthRxSame DEF Written
  <2>2. CASE "RXEN" \notin eth.moder
    BY <1>5, <2>2 DEF Written, EthRxOK
  <2> QED BY <2>1, <2>2
<1>9. StreamOK(eth', drv, eth_observed)
  BY <1>2, <1>7, <1>8 DEF StreamOK
<1> QED BY <1>1, <1>2, <1>5, <1>6, <1>9 DEF EthInv, Written

(* The registers after a reset, with whatever jobs.                        *)
LEMMA ResetFacts ==
  ASSUME EthSizes
  PROVE  /\ E!ResetRegs \in EthRecord
         /\ E!ResetRegs.moder = {} /\ E!ResetRegs.jobs = [rx_clock |-> 0, tx_clock |-> 0] /\ E!ResetRegs.int_line_stat = FALSE
         /\ E!ResetRegs.tx_bd_num = TxBdReset /\ E!ResetRegs.tx_bd_index = 0
         /\ E!ResetRegs.rx_bd_index = TxBdReset
         /\ \A i \in 0 .. NBD - 1 : /\ E!ResetRegs.bd[i].ready = FALSE
                                    /\ E!ResetRegs.bd[i].pkt = E!None
         /\ E!NoHistory \in DrvRecord /\ E!NoHistory.pos = 0 /\ E!NoHistory.count = 0
         /\ E!NoHistory.next = 0 /\ E!NoHistory.clean = FALSE
<1>1. E!EmptyBD \in E!BDs /\ E!EmptyBD.ready = FALSE /\ E!EmptyBD.pkt = E!None
  BY DEF E!EmptyBD, E!BDs
<1> DEFINE bd == [i \in 0 .. NBD - 1 |-> E!EmptyBD]
<1>2. bd \in [0 .. NBD - 1 -> E!BDs] /\ \A i \in 0 .. NBD - 1 : bd[i] = E!EmptyBD
  BY <1>1
<1> HIDE DEF bd
<1>3. E!ResetRegs =
        [moder |-> {}, int_source |-> {}, int_mask |-> {}, int_line_stat |-> FALSE,
         tx_bd_num |-> TxBdReset, tx_bd_index |-> 0, rx_bd_index |-> TxBdReset,
         bd |-> bd, jobs |-> [rx_clock |-> 0, tx_clock |-> 0]]
  BY DEF E!ResetRegs, bd
<1>4. TxBdReset \in Nat /\ TxBdReset \in 1 .. NBD - 1
  BY DEF EthSizes
<1>5. E!ResetRegs \in EthRecord
  BY <1>2, <1>3, <1>4 DEF EthRecord, JobCounts
<1>6. /\ E!NoHistory \in DrvRecord /\ E!NoHistory.pos = 0 /\ E!NoHistory.count = 0
      /\ E!NoHistory.next = 0 /\ E!NoHistory.clean = FALSE
  BY DEF E!NoHistory, DrvRecord, E!Packets, EthSizes
<1> QED BY <1>1, <1>2, <1>3, <1>5, <1>6

(* The invariant holds initially.                                          *)
LEMMA EthInit ==
  ASSUME EthSizes, E!Init
  PROVE  EthInv
<1>1. /\ eth = E!ResetRegs /\ eth_line = FALSE /\ waiting = 0 /\ drv = E!NoHistory /\ eth_owed = {}
  BY DEF E!Init
<1>2. eth \in EthRecord /\ drv \in DrvRecord /\ waiting \in 0 .. MaxWaiting
  <2>1. MaxWaiting \in Nat
    BY DEF EthSizes
  <2> QED BY <1>1, <2>1, ResetFacts
<1>3. LineOK(eth, eth_line, eth_owed) /\ JobsOK(eth)
  <2>1. eth.moder = {} /\ eth.jobs = [rx_clock |-> 0, tx_clock |-> 0]
    BY <1>1, ResetFacts
  <2>2. eth.jobs.rx_clock = 0 /\ eth.jobs.tx_clock = 0
    BY <2>1
  <2> QED BY <1>1, <2>1, <2>2, ResetFacts DEF LineOK, JobsOK
<1>4. IndexOK(eth)
  <2>1. eth.moder = {} /\ eth.tx_bd_num = TxBdReset /\ eth.rx_bd_index = TxBdReset
    BY <1>1, ResetFacts
  <2> QED BY <2>1 DEF IndexOK, EthSizes
<1>5. StreamOK(eth, drv, eth_observed)
  BY <1>1, ResetFacts DEF StreamOK, EthTxOK, EthRxOK
<1> QED BY <1>2, <1>3, <1>4, <1>5 DEF EthInv

(* A reset of the device keeps the invariant.                              *)
LEMMA EthResetStep ==
  ASSUME EthSizes, EthInv, E!sim_reset
  PROVE  EthInv'
<1>1. /\ eth' = E!ResetRegs /\ eth_line' = FALSE /\ waiting' = waiting /\ drv' = E!NoHistory
      /\ eth_owed' = {} /\ eth_observed' = eth_observed
  BY DEF E!sim_reset, E!host
<1>2. eth' \in EthRecord /\ drv' \in DrvRecord /\ waiting' \in 0 .. MaxWaiting
  BY <1>1, ResetFacts DEF EthInv
<1>3. LineOK(eth', eth_line', eth_owed') /\ JobsOK(eth')
  <2>1. eth'.moder = {} /\ eth'.jobs = [rx_clock |-> 0, tx_clock |-> 0]
    BY <1>1, ResetFacts
  <2>2. eth'.jobs.rx_clock = 0 /\ eth'.jobs.tx_clock = 0
    BY <2>1
  <2> QED BY <1>1, <2>1, <2>2, ResetFacts DEF LineOK, JobsOK
<1>4. IndexOK(eth')
  <2>1. eth'.moder = {} /\ eth'.tx_bd_num = TxBdReset /\ eth'.rx_bd_index = TxBdReset
    BY <1>1, ResetFacts
  <2> QED BY <2>1 DEF IndexOK, EthSizes
<1>5. StreamOK(eth', drv', eth_observed')
  BY <1>1, ResetFacts DEF StreamOK, EthTxOK, EthRxOK
<1> QED BY <1>2, <1>3, <1>4, <1>5 DEF EthInv

(* Interrupts are acknowledged and masked: what is owed keeps the line.    *)
LEMMA InterruptsOK ==
  ASSUME EthSizes, EthInv,
         \/ \E value : E!write_INT_SOURCE(value)
         \/ \E mask \in SUBSET E!Sources : E!write_INT_MASK(mask)
  PROVE  EthInv'
<1>1. /\ eth \in EthRecord /\ drv \in DrvRecord /\ LineOK(eth, eth_line, eth_owed)
      /\ JobsOK(eth) /\ IndexOK(eth)
      /\ StreamOK(eth, drv, eth_observed) /\ waiting \in 0 .. MaxWaiting
  BY DEF EthInv
<1>2. ASSUME NEW value, E!write_INT_SOURCE(value)
      PROVE  /\ eth' \in EthRecord /\ SameRings(eth, eth') /\ LineOK(eth', eth_line', eth_owed')
             /\ UNCHANGED <<drv, waiting, eth_observed>>
  <2> DEFINE clear == (eth.int_source \ value) \cap eth.int_mask = {} /\ eth.int_line_stat
  <2>1. /\ eth' = [eth EXCEPT !.int_source = eth.int_source \ value,
                              !.int_line_stat = eth.int_line_stat /\ ~clear]
        /\ eth_line' = (eth_line /\ ~clear) /\ eth_owed' = eth_owed \ value
        /\ UNCHANGED <<drv, waiting, eth_observed>>
    BY <1>2 DEF E!write_INT_SOURCE, E!host
  <2>2. (eth.int_line_stat /\ ~clear) \in BOOLEAN
    BY <1>1 DEF EthRecord
  <2>3. eth' \in EthRecord
    BY <1>1, <2>1, <2>2 DEF EthRecord
  <2>4. /\ eth'.int_source = eth.int_source \ value /\ eth'.int_mask = eth.int_mask
        /\ eth'.int_line_stat = (eth.int_line_stat /\ ~clear) /\ SameRings(eth, eth')
    BY <1>1, <2>1 DEF EthRecord, SameRings
  <2>5. eth_owed \ value \subseteq (eth.int_source \ value) \cap eth.int_mask
    BY <1>1 DEF LineOK
  <2>6. eth_owed' # {} => ~clear /\ eth.int_line_stat
    BY <1>1, <2>1, <2>5 DEF LineOK
  <2>7. LineOK(eth', eth_line', eth_owed')
    BY <1>1, <2>1, <2>4, <2>5, <2>6 DEF LineOK
  <2> QED BY <2>1, <2>3, <2>4, <2>7
<1>3. ASSUME NEW mask \in SUBSET E!Sources, E!write_INT_MASK(mask)
      PROVE  /\ eth' \in EthRecord /\ SameRings(eth, eth') /\ LineOK(eth', eth_line', eth_owed')
             /\ UNCHANGED <<drv, waiting, eth_observed>>
  <2>1. /\ eth' = [eth EXCEPT !.int_mask = mask, !.int_line_stat = FALSE]
        /\ eth_line' = (eth_line /\ ~eth.int_line_stat) /\ eth_owed' = {}
        /\ UNCHANGED <<drv, waiting, eth_observed>>
    BY <1>3 DEF E!write_INT_MASK, E!host
  <2>2. eth' \in EthRecord
    BY <1>1, <2>1 DEF EthRecord
  <2>3. eth'.int_line_stat = FALSE /\ SameRings(eth, eth')
    BY <1>1, <2>1 DEF EthRecord, SameRings
  <2>4. LineOK(eth', eth_line', eth_owed')
    BY <1>1, <2>1, <2>3 DEF LineOK
  <2> QED BY <2>1, <2>2, <2>3, <2>4
<1>4. /\ eth' \in EthRecord /\ SameRings(eth, eth') /\ LineOK(eth', eth_line', eth_owed')
      /\ UNCHANGED <<drv, waiting, eth_observed>>
  BY <1>2, <1>3
<1>5. JobsOK(eth') /\ IndexOK(eth') /\ StreamOK(eth', drv, eth_observed)
  BY <1>1, <1>4, SameRingsOK
<1> QED BY <1>1, <1>4, <1>5 DEF EthInv

(* A ring that is enabled is empty, if it was clean.                       *)
LEMMA TxFresh ==
  ASSUME EthSizes, NEW f \in EthRecord, NEW d, f.tx_bd_index = 0, d.pos = 0, d.count = 0, d.next = 0,
         d.clean => \A i \in E!TxRing(f) : ~f.bd[i].ready
  PROVE  EthTxOK(f, d)
<1> SUFFICES ASSUME d.clean PROVE EthTxOK(f, d)
  BY DEF EthTxOK
<1> DEFINE S == {i \in E!TxRing(f) : f.bd[i].ready}
           n == f.tx_bd_num
<1>1. n \in Nat /\ n > 0 /\ n < NBD /\ NBD \in Nat /\ E!TxRing(f) = 0 .. 0 + n - 1
  BY EthFacts
<1>2. \A i \in 0 .. 0 + n - 1 : i \notin S
  BY <1>1
<1> HIDE DEF S
<1>3. Ring(0, n, f.tx_bd_index, 0, d.next)
  BY <1>1 DEF Ring, EthSizes
<1>4. Holds(S, f.bd, 0, n, f.tx_bd_index, 0, d.next)
  BY <1>1, <1>2 DEF Holds, Behind
<1>5. Number(d.next, 0) = d.next /\ After(0, n, f.tx_bd_index, 0) = f.tx_bd_index
  BY <1>1, <1>3 DEF Number, After, Ring
<1>6. PICK k \in 0 .. n : k = 0
  BY <1>1
<1>7. /\ Holds(S, f.bd, 0, n, f.tx_bd_index, k, d.next) /\ d.count = Number(d.next, k)
      /\ d.pos = After(0, n, f.tx_bd_index, k)
  BY <1>4, <1>5, <1>6
<1> QED BY <1>7 DEF EthTxOK, S

(* A ring that was set up anew is empty.                                   *)
LEMMA RxFresh ==
  ASSUME EthSizes, NEW f \in EthRecord, NEW d, f.rx_bd_index = f.tx_bd_num, d.pos = f.tx_bd_num,
         d.count = 0, d.next = 0,
         d.clean => \A i \in E!RxRing(f) : f.bd[i].pkt = E!None
  PROVE  EthRxOK(f, d)
<1> SUFFICES ASSUME d.clean PROVE EthRxOK(f, d)
  BY DEF EthRxOK
<1> DEFINE S == {i \in E!RxRing(f) : f.bd[i].pkt # E!None}
           b == f.tx_bd_num
           n == NBD - f.tx_bd_num
<1>1. /\ b \in Nat /\ b > 0 /\ b < NBD /\ NBD \in Nat /\ n \in Nat /\ n > 0
      /\ E!RxRing(f) = b .. b + n - 1
  BY EthFacts
<1>2. \A i \in b .. b + n - 1 : i \notin S
  BY <1>1
<1>3. /\ d.pos \in E!RxRing(f)
      /\ \A i \in E!RxRing(f) : f.bd[i].ready => f.bd[i].pkt = E!None
  BY <1>1
<1> HIDE DEF S
<1>4. Ring(b, n, d.pos, 0, d.next)
  BY <1>1 DEF Ring, EthSizes
<1>5. Holds(S, f.bd, b, n, d.pos, 0, d.next)
  BY <1>1, <1>2 DEF Holds, Behind
<1>6. Number(d.next, 0) = d.next /\ After(b, n, d.pos, 0) = d.pos
  BY <1>1, <1>4 DEF Number, After, Ring
<1>7. PICK k \in 0 .. n : k = 0
  BY <1>1
<1>8. /\ Holds(S, f.bd, b, n, d.pos, k, d.next) /\ d.count = Number(d.next, k)
      /\ f.rx_bd_index = After(b, n, d.pos, k)
  BY <1>5, <1>6, <1>7
<1> QED BY <1>3, <1>8 DEF EthRxOK, S

(* The jobs follow the enable bits.                                        *)
LEMMA RescheduledOK ==
  ASSUME NEW m, JobsOK(eth), eth \in EthRecord
  PROVE  /\ E!Rescheduled(m) \in JobCounts
         /\ E!Rescheduled(m).rx_clock = IF "RXEN" \in m THEN 1 ELSE 0
         /\ E!Rescheduled(m).tx_clock = IF "TXEN" \in m THEN 1 ELSE 0
<1> DEFINE Count(n, bit) == CASE E!Enabled(m, bit) -> n + 1
                              [] bit \in eth.moder \ m /\ n > 0 -> n - 1
                              [] OTHER -> n
<1>1. ASSUME NEW n, NEW bit, n = IF bit \in eth.moder THEN 1 ELSE 0
      PROVE  Count(n, bit) = IF bit \in m THEN 1 ELSE 0
  <2>1. CASE bit \in eth.moder /\ bit \in m
    BY <1>1, <2>1 DEF E!Enabled
  <2>2. CASE bit \in eth.moder /\ bit \notin m
    BY <1>1, <2>2 DEF E!Enabled
  <2>3. CASE bit \notin eth.moder
    BY <1>1, <2>3 DEF E!Enabled
  <2> QED BY <2>1, <2>2, <2>3
<1>2. E!Rescheduled(m) = [rx_clock |-> Count(eth.jobs.rx_clock, "RXEN"),
                          tx_clock |-> Count(eth.jobs.tx_clock, "TXEN")]
  BY DEF E!Rescheduled
<1> HIDE DEF Count
<1>3. /\ Count(eth.jobs.rx_clock, "RXEN") = IF "RXEN" \in m THEN 1 ELSE 0
      /\ Count(eth.jobs.tx_clock, "TXEN") = IF "TXEN" \in m THEN 1 ELSE 0
  BY <1>1 DEF JobsOK
<1> QED BY <1>2, <1>3 DEF JobCounts

(* A write to MODER keeps the invariant.                                   *)
LEMMA WriteModerOK ==
  ASSUME EthSizes, EthInv, NEW m \in SUBSET {"RXEN", "TXEN"}, NEW rst \in BOOLEAN,
         NEW fails \in BOOLEAN, E!write_MODER(m, rst, fails)
  PROVE  EthInv'
<1> DEFINE c == IF fails THEN E!Raised(eth, "RXE", TRUE) ELSE eth
           e == [c EXCEPT !.jobs = E!Rescheduled(m),
                          !.rx_bd_index = IF E!Enabled(m, "RXEN") THEN eth.tx_bd_num
                                          ELSE c.rx_bd_index,
                          !.tx_bd_index = IF E!Enabled(m, "TXEN") THEN 0 ELSE c.tx_bd_index]
           f == IF rst THEN [E!ResetRegs EXCEPT !.jobs = e.jobs] ELSE e
           o == IF fails THEN E!Owing(eth, "RXE", TRUE) ELSE eth_owed
<1>1. /\ eth' = [f EXCEPT !.moder = m]
      /\ waiting' \in IF fails THEN 1 .. waiting
                     ELSE {IF E!Enabled(m, "RXEN") THEN 0 ELSE waiting}
      /\ eth_line' = (eth_line \/ (fails /\ E!Reports(eth, "RXE", TRUE)))
      /\ eth_owed' = IF rst THEN {} ELSE o
      /\ drv' = CASE eth_observed = "tx" /\ (E!Enabled(m, "TXEN") \/ rst) ->
                       [E!NoHistory EXCEPT !.clean = \A i \in E!TxRing(f) : ~f.bd[i].ready]
                  [] eth_observed = "rx" /\ (E!Enabled(m, "RXEN") \/ rst) ->
                       [E!NoHistory EXCEPT !.pos = f.tx_bd_num,
                                           !.clean = \A i \in E!RxRing(f) : f.bd[i].pkt = E!None]
                  [] OTHER -> drv
      /\ UNCHANGED <<rtx_type, eth_observed>>
  <2>1. eth_owed' = IF rst THEN {} ELSE o
    <3>1. eth_owed' = CASE rst -> {} [] fails /\ ~rst -> E!Owing(eth, "RXE", TRUE)
                       [] OTHER -> eth_owed
      BY DEF E!write_MODER
    <3> QED BY <3>1, Zenon
  <2> QED BY <2>1 DEF E!write_MODER
<1>2. /\ eth \in EthRecord /\ drv \in DrvRecord /\ LineOK(eth, eth_line, eth_owed)
      /\ JobsOK(eth) /\ IndexOK(eth)
      /\ StreamOK(eth, drv, eth_observed) /\ waiting \in 0 .. MaxWaiting
  BY DEF EthInv
<1>3. /\ E!Rescheduled(m) \in JobCounts
      /\ E!Rescheduled(m).rx_clock = IF "RXEN" \in m THEN 1 ELSE 0
      /\ E!Rescheduled(m).tx_clock = IF "TXEN" \in m THEN 1 ELSE 0
  BY <1>2, RescheduledOK
<1>c. c \in EthRecord /\ SameRings(eth, c) /\ LineOK(c, eth_line', o)
  <2>1. CASE fails
    <3>1. PICK src \in E!Sources : src = "RXE"
      BY DEF E!Sources
    <3>2. PICK irq \in BOOLEAN : irq = TRUE
      OBVIOUS
    <3>3. PICK l : l = eth_line'
      OBVIOUS
    <3>4. /\ c = E!Raised(eth, src, irq) /\ l = (eth_line \/ E!Reports(eth, src, irq))
          /\ o = E!Owing(eth, src, irq)
      BY <1>1, <2>1, <3>1, <3>2, <3>3
    <3> QED BY <1>2, <3>3, <3>4, RaisedOK
  <2>2. CASE ~fails
    BY <1>1, <1>2, <2>2 DEF SameRings, LineOK
  <2> QED BY <2>1, <2>2
<1> HIDE DEF c, o
<1>4. eth.tx_bd_num \in Nat /\ NBD \in Nat /\ eth.tx_bd_num < NBD /\ eth.tx_bd_num > 0
  BY <1>2, EthFacts
<1>5. /\ e \in EthRecord /\ e.jobs = E!Rescheduled(m) /\ e.bd = eth.bd /\ e.tx_bd_num = eth.tx_bd_num
      /\ e.rx_bd_index = IF E!Enabled(m, "RXEN") THEN eth.tx_bd_num ELSE eth.rx_bd_index
      /\ e.tx_bd_index = IF E!Enabled(m, "TXEN") THEN 0 ELSE eth.tx_bd_index
      /\ e.int_source = c.int_source /\ e.int_mask = c.int_mask
      /\ e.int_line_stat = c.int_line_stat
  <2>1. e \in EthRecord
    BY <1>2, <1>3, <1>4, <1>c DEF EthRecord
  <2> QED BY <1>c, <2>1 DEF EthRecord, SameRings
<1> HIDE DEF e
<1>6. /\ f \in EthRecord /\ f.jobs = E!Rescheduled(m)
      /\ ~rst => f = e
      /\ rst => /\ f.tx_bd_num = TxBdReset /\ f.tx_bd_index = 0 /\ f.rx_bd_index = TxBdReset
                /\ f.int_line_stat = FALSE
  <2>1. CASE rst
    <3>1. f = [E!ResetRegs EXCEPT !.jobs = E!Rescheduled(m)] /\ E!ResetRegs \in EthRecord
      BY <1>5, <2>1, ResetFacts
    <3>2. f \in EthRecord
      BY <1>3, <3>1 DEF EthRecord
    <3>3. /\ f.jobs = E!Rescheduled(m)
          /\ f.tx_bd_num = E!ResetRegs.tx_bd_num /\ f.tx_bd_index = E!ResetRegs.tx_bd_index
          /\ f.rx_bd_index = E!ResetRegs.rx_bd_index
          /\ f.int_line_stat = E!ResetRegs.int_line_stat
      BY <3>1, <3>2 DEF EthRecord
    <3> QED BY <2>1, <3>2, <3>3, ResetFacts
  <2>2. CASE ~rst
    BY <1>5, <2>2
  <2> QED BY <2>1, <2>2
<1> HIDE DEF f
<1>7. /\ eth' \in EthRecord /\ eth'.moder = m /\ eth'.jobs = f.jobs /\ eth'.bd = f.bd
      /\ eth'.tx_bd_num = f.tx_bd_num /\ eth'.tx_bd_index = f.tx_bd_index
      /\ eth'.rx_bd_index = f.rx_bd_index /\ eth'.int_line_stat = f.int_line_stat
      /\ eth'.int_source = f.int_source /\ eth'.int_mask = f.int_mask
  <2>1. eth' \in EthRecord
    BY <1>1, <1>6 DEF EthRecord
  <2> QED BY <1>1, <1>6, <2>1 DEF EthRecord
<1>8. JobsOK(eth')
  BY <1>3, <1>6, <1>7 DEF JobsOK
<1>9. LineOK(eth', eth_line', eth_owed')
  <2>1. CASE rst
    BY <1>1, <1>6, <1>7, <1>c, <2>1 DEF LineOK
  <2>2. CASE ~rst
    BY <1>1, <1>5, <1>6, <1>7, <1>c, <2>2 DEF LineOK
  <2> QED BY <2>1, <2>2
<1>10. IndexOK(eth')
  <2>1. CASE rst
    BY <1>6, <1>7, <2>1 DEF IndexOK, EthSizes
  <2>2. CASE ~rst
    BY <1>2, <1>4, <1>5, <1>6, <1>7, <2>2 DEF IndexOK, E!Enabled
  <2> QED BY <2>1, <2>2
<1>11. waiting' \in 0 .. MaxWaiting
  <2>1. MaxWaiting \in Nat
    BY DEF EthSizes
  <2> QED BY <1>1, <1>2, <2>1
<1>12. ASSUME eth_observed = "tx", E!Enabled(m, "TXEN") \/ rst
       PROVE  drv' \in DrvRecord /\ EthTxOK(eth', drv')
  <2> DEFINE fresh == \A i \in E!TxRing(f) : ~f.bd[i].ready
  <2>1. drv' = [E!NoHistory EXCEPT !.clean = fresh] /\ fresh \in BOOLEAN
    BY <1>1, <1>12
  <2> HIDE DEF fresh
  <2>2. /\ drv' \in DrvRecord /\ drv'.clean = fresh /\ drv'.pos = 0 /\ drv'.count = 0 /\ drv'.next = 0
    BY <2>1, ResetFacts DEF DrvRecord
  <2>3. E!TxRing(eth') = E!TxRing(f)
    BY <1>7 DEF E!TxRing
  <2>4. eth'.tx_bd_index = 0
    BY <1>5, <1>6, <1>7, <1>12
  <2>5. drv'.clean => \A i \in E!TxRing(eth') : ~eth'.bd[i].ready
    BY <1>7, <2>2, <2>3 DEF fresh
  <2> QED BY <1>7, <2>2, <2>4, <2>5, TxFresh
<1>13. ASSUME eth_observed = "rx", E!Enabled(m, "RXEN") \/ rst
       PROVE  drv' \in DrvRecord /\ EthRxOK(eth', drv')
  <2> DEFINE fresh == \A i \in E!RxRing(f) : f.bd[i].pkt = E!None
  <2>1. drv' = [E!NoHistory EXCEPT !.pos = f.tx_bd_num, !.clean = fresh] /\ fresh \in BOOLEAN
    BY <1>1, <1>13
  <2> HIDE DEF fresh
  <2>2. f.tx_bd_num \in Nat
    BY <1>6, EthFacts
  <2>3. /\ drv' \in DrvRecord /\ drv'.clean = fresh /\ drv'.pos = f.tx_bd_num /\ drv'.count = 0
        /\ drv'.next = 0
    BY <2>1, <2>2, ResetFacts DEF DrvRecord
  <2>4. E!RxRing(eth') = E!RxRing(f)
    BY <1>7 DEF E!RxRing
  <2>5. eth'.rx_bd_index = eth'.tx_bd_num
    BY <1>5, <1>6, <1>7, <1>13
  <2>6. drv'.clean => \A i \in E!RxRing(eth') : eth'.bd[i].pkt = E!None
    BY <1>7, <2>3, <2>4 DEF fresh
  <2> QED BY <1>7, <2>3, <2>5, <2>6, RxFresh
<1>14. ASSUME eth_observed = "tx", ~(E!Enabled(m, "TXEN") \/ rst)
       PROVE  drv' \in DrvRecord /\ EthTxOK(eth', drv')
  <2>1. drv' = drv
    BY <1>1, <1>14
  <2>2. "TXEN" \in m => "TXEN" \in eth.moder
    BY <1>14 DEF E!Enabled
  <2>3. EthTxOK(eth, drv)
    BY <1>2, <1>14 DEF StreamOK
  <2> QED BY <1>2, <1>5, <1>6, <1>7, <1>14, <2>1, <2>2, <2>3, EthTxSame
<1>15. ASSUME eth_observed = "rx", ~(E!Enabled(m, "RXEN") \/ rst)
       PROVE  drv' \in DrvRecord /\ EthRxOK(eth', drv')
  <2>1. drv' = drv
    BY <1>1, <1>15
  <2>2. "RXEN" \in m => "RXEN" \in eth.moder
    BY <1>15 DEF E!Enabled
  <2>3. EthRxOK(eth, drv)
    BY <1>2, <1>15 DEF StreamOK
  <2> QED BY <1>2, <1>5, <1>6, <1>7, <1>15, <2>1, <2>2, <2>3, EthRxSame
<1>16. drv' \in DrvRecord
  <2>1. CASE eth_observed # "tx" /\ eth_observed # "rx"
    BY <1>1, <1>2, <2>1
  <2> QED BY <1>12, <1>13, <1>14, <1>15, <2>1
<1>17. StreamOK(eth', drv', eth_observed')
  BY <1>1, <1>12, <1>13, <1>14, <1>15 DEF StreamOK
<1> QED BY <1>7, <1>8, <1>9, <1>10, <1>11, <1>16, <1>17 DEF EthInv

(* TX_BD_NUM is written while both rings are disabled.                     *)
LEMMA WriteTxBdNumOK ==
  ASSUME EthSizes, EthInv, NEW n \in TxBdNums, E!write_TX_BD_NUM(n)
  PROVE  EthInv'
<1>1. /\ eth.moder = {} /\ eth' = [eth EXCEPT !.tx_bd_num = n, !.rx_bd_index = n]
      /\ UNCHANGED <<waiting, eth_observed, eth_line, drv, eth_owed>>
  BY DEF E!write_TX_BD_NUM, E!host
<1>2. /\ eth \in EthRecord /\ drv \in DrvRecord /\ LineOK(eth, eth_line, eth_owed)
      /\ JobsOK(eth) /\ waiting \in 0 .. MaxWaiting
  BY DEF EthInv
<1>3. n \in Nat /\ n \in 1 .. NBD - 1 /\ n \in n .. NBD - 1
  BY DEF EthSizes
<1>4. eth' \in EthRecord
  BY <1>1, <1>2, <1>3 DEF EthRecord
<1>5. /\ eth'.moder = {} /\ eth'.tx_bd_num = n /\ eth'.rx_bd_index = n /\ eth'.jobs = eth.jobs
      /\ eth'.int_line_stat = eth.int_line_stat /\ eth'.int_source = eth.int_source
      /\ eth'.int_mask = eth.int_mask
  BY <1>1, <1>2 DEF EthRecord
<1>6. LineOK(eth', eth_line, eth_owed) /\ JobsOK(eth') /\ IndexOK(eth')
  BY <1>1, <1>2, <1>3, <1>5 DEF LineOK, JobsOK, IndexOK
<1>7. StreamOK(eth', drv, eth_observed)
  BY <1>5 DEF StreamOK, EthTxOK, EthRxOK
<1> QED BY <1>1, <1>2, <1>4, <1>6, <1>7 DEF EthInv

(* The transmit clock keeps the invariant.                                 *)
LEMMA TxClockOK ==
  ASSUME EthSizes, EthInv, E!eth_controller_tx_clock
  PROVE  EthInv'
<1>1. /\ "TXEN" \in eth.moder /\ eth.bd[eth.tx_bd_index].ready
      /\ UNCHANGED <<waiting, eth_observed>>
  BY DEF E!eth_controller_tx_clock, E!host, EthInv, JobsOK
<1>2. PICK written \in BOOLEAN : E!eth_flush_bd(written)
  BY DEF E!eth_controller_tx_clock
<1>3. /\ eth' \in EthRecord /\ drv' \in DrvRecord
      /\ LineOK(eth', eth_line', eth_owed') /\ JobsOK(eth') /\ IndexOK(eth')
      /\ StreamOK(eth', drv', eth_observed)
  BY <1>1, <1>2, FlushOK
<1> QED BY <1>1, <1>3 DEF EthInv

(* The receive clock keeps the invariant.                                  *)
LEMMA RxClockOK ==
  ASSUME EthSizes, EthInv, E!eth_controller_rx_clock
  PROVE  EthInv'
<1>1. /\ "RXEN" \in eth.moder /\ eth.bd[eth.rx_bd_index].ready
      /\ rtx_type = "TAP" => waiting > 0
      /\ eth_observed' = eth_observed /\ MaxWaiting \in Nat
  BY DEF E!eth_controller_rx_clock, E!eth_fill_bd, EthInv, JobsOK, EthSizes
<1>2. /\ eth \in EthRecord /\ drv \in DrvRecord /\ LineOK(eth, eth_line, eth_owed)
      /\ JobsOK(eth) /\ IndexOK(eth)
      /\ StreamOK(eth, drv, eth_observed) /\ waiting \in 0 .. MaxWaiting
  BY DEF EthInv
<1>3. waiting - 1 \in 0 .. MaxWaiting \/ rtx_type # "TAP"
  BY <1>1, <1>2
<1>4. CASE E!Fill /\ waiting' = IF rtx_type = "TAP" THEN waiting - 1 ELSE waiting
  <2>1. /\ eth' \in EthRecord /\ drv' \in DrvRecord
        /\ LineOK(eth', eth_line', eth_owed') /\ JobsOK(eth') /\ IndexOK(eth')
        /\ StreamOK(eth', drv', eth_observed)
    BY <1>1, <1>4, FillOK
  <2>2. waiting' \in 0 .. MaxWaiting
    BY <1>2, <1>3, <1>4
  <2> QED BY <1>1, <2>1, <2>2 DEF EthInv
<1>5. CASE /\ waiting' = IF rtx_type = "TAP" THEN waiting - 1 ELSE waiting
           /\ UNCHANGED <<eth, eth_line, eth_owed, drv>>
  <2>1. waiting' \in 0 .. MaxWaiting
    BY <1>2, <1>3, <1>5
  <2> QED BY <1>1, <1>2, <1>5, <2>1 DEF EthInv
<1>6. CASE E!Signal(eth, "RXE", TRUE) /\ UNCHANGED <<waiting, drv>>
  <2>1. PICK src \in E!Sources : src = "RXE"
    BY DEF E!Sources
  <2>2. PICK irq \in BOOLEAN : irq = TRUE
    OBVIOUS
  <2>3. E!Signal(eth, src, irq)
    BY <1>6, <2>1, <2>2
  <2>4. eth' \in EthRecord /\ SameRings(eth, eth') /\ LineOK(eth', eth_line', eth_owed')
    BY <1>2, <2>3, SignalOK
  <2>5. JobsOK(eth') /\ IndexOK(eth') /\ StreamOK(eth', drv, eth_observed)
    BY <1>2, <2>4, SameRingsOK
  <2> QED BY <1>1, <1>2, <1>6, <2>4, <2>5 DEF EthInv
<1> QED BY <1>4, <1>5, <1>6 DEF E!eth_controller_rx_clock, E!eth_fill_bd

(* Every step keeps the invariant.                                         *)
LEMMA EthNext ==
  ASSUME EthSizes, EthInv, [E!Next]_(E!vars)
  PROVE  EthInv'
<1>1. CASE UNCHANGED E!vars
  BY <1>1 DEF E!vars, EthInv
<1>2. CASE E!Clocks
  BY <1>2, TxClockOK, RxClockOK DEF E!Clocks
<1>3. CASE E!NetArrives
  <2>1. /\ waiting < MaxWaiting /\ waiting' = waiting + 1
        /\ UNCHANGED <<eth, eth_line, drv, eth_owed, eth_observed>>
    BY <1>3 DEF E!NetArrives
  <2>2. waiting' \in 0 .. MaxWaiting
    BY <2>1 DEF EthInv, EthSizes
  <2> QED BY <2>1, <2>2 DEF EthInv
<1>4. CASE E!sim_reset
  BY <1>4, EthResetStep
<1>5. CASE E!Driver
  <2>1. ASSUME NEW m \in SUBSET E!Bits, NEW rst \in BOOLEAN, NEW fails \in BOOLEAN,
               E!write_MODER(m, rst, fails)
        PROVE  EthInv'
    <3>1. m \in SUBSET {"RXEN", "TXEN"}
      BY DEF E!Bits
    <3> QED BY <2>1, <3>1, WriteModerOK
  <2>2. ASSUME NEW value, E!write_INT_SOURCE(value)
        PROVE  EthInv'
    BY <2>2, InterruptsOK
  <2>3. ASSUME NEW mask \in {{}, E!Sources}, E!write_INT_MASK(mask)
        PROVE  EthInv'
    BY <2>3, InterruptsOK
  <2>4. ASSUME NEW n \in TxBdNums, E!write_TX_BD_NUM(n)
        PROVE  EthInv'
    BY <2>4, WriteTxBdNumOK
  <2>5. ASSUME NEW i \in 0 .. NBD - 1, E!write_BD(i)
        PROVE  EthInv'
    BY <2>5, WriteBdOK
  <2>6. ASSUME NEW i \in 0 .. NBD - 1, NEW irq \in BOOLEAN,
               E!SendPacket(i, irq) \/ E!TakePacket(i, irq)
        PROVE  EthInv'
    BY <2>6, SendOK, TakeOK
  <2> QED BY <1>5, <2>1, <2>2, <2>3, <2>4, <2>5, <2>6 DEF E!Driver
<1> QED BY <1>1, <1>2, <1>3, <1>4, <1>5 DEF E!Next

(* The numbers of k packets from a on.                                     *)
LEMMA RunIsNumbers ==
  ASSUME EthSizes, NEW a \in E!Packets, NEW k \in Nat, k < PacketMod
  PROVE  E!Run(a, Number(a, k)) = [j \in 1 .. k |-> Number(a, j - 1)]
<1>1. PacketMod \in Nat /\ PacketMod > 0 /\ a \in Nat /\ a < PacketMod
  BY DEF EthSizes, E!Packets
<1>2. (Number(a, k) + PacketMod - a) % PacketMod = k
  <2>1. PICK x \in Int : x = Number(a, k) + PacketMod - a
    BY <1>1 DEF Number
  <2>2. 0 <= x /\ x < PacketMod + PacketMod
    BY <1>1, <2>1 DEF Number
  <2>3. x % PacketMod = IF x < PacketMod THEN x ELSE x - PacketMod
    BY <1>1, <2>2, RestIs
  <2> QED BY <1>1, <2>1, <2>3 DEF Number
<1>3. ASSUME NEW j \in 1 .. k
      PROVE  (a + j - 1) % PacketMod = Number(a, j - 1)
  <2>1. PICK x \in Int : x = a + j - 1
    BY <1>1
  <2>2. 0 <= x /\ x < PacketMod + PacketMod
    BY <1>1, <2>1
  <2>3. x % PacketMod = IF x < PacketMod THEN x ELSE x - PacketMod
    BY <1>1, <2>2, RestIs
  <2> QED BY <1>1, <2>1, <2>3 DEF Number
<1> QED BY <1>2, <1>3 DEF E!Run

(* The instance counts as this module does.                                *)
LEMMA SameCount ==
  ASSUME NEW S
  PROVE  E!Cardinality(S) = Cardinality(S)
BY DEF E!Cardinality, Cardinality

(* The invariant implies TxStream.                                         *)
LEMMA TxStreamOK ==
  ASSUME EthSizes, EthInv
  PROVE  E!TxStream
<1> SUFFICES ASSUME eth_observed = "tx", drv.clean, "TXEN" \in eth.moder
             PROVE  E!TxStream
  BY DEF E!TxStream
<1> DEFINE S == {i \in E!TxRing(eth) : eth.bd[i].ready}
           n == eth.tx_bd_num
           s == eth.tx_bd_index
<1>1. /\ eth \in EthRecord /\ drv.next \in E!Packets /\ s \in 0 .. n - 1 /\ EthTxOK(eth, drv)
  BY DEF EthInv, DrvRecord, IndexOK, StreamOK
<1>2. n \in Nat /\ n > 0 /\ n < NBD /\ NBD \in Nat /\ E!TxRing(eth) = 0 .. 0 + n - 1
  BY <1>1, EthFacts
<1>3. PICK k \in 0 .. n : /\ Holds(S, eth.bd, 0, n, s, k, drv.next)
                          /\ drv.count = Number(drv.next, k) /\ drv.pos = After(0, n, s, k)
  BY <1>1 DEF EthTxOK
<1>4. Ring(0, n, s, k, drv.next) /\ S \subseteq 0 .. 0 + n - 1 /\ k \in Nat /\ k < PacketMod
  BY <1>1, <1>2 DEF Ring, EthSizes, E!Packets
<1>5. \A i \in S : eth.bd[i].ready
  OBVIOUS
<1> HIDE DEF S
<1>6. /\ Cardinality(S) = k
      /\ \A j \in 1 .. k : /\ After(0, n, s, j - 1) \in S
                           /\ eth.bd[After(0, n, s, j - 1)].pkt = Number(drv.next, j - 1)
  <2>1. Counts(S, eth.bd, 0, n, s, k, drv.next)
    BY <1>3, <1>4 DEF Counts
  <2>2. Counted(S, eth.bd, 0, n, s, k, drv.next)
    BY <2>1, RingCount
  <2> QED BY <2>2 DEF Counted
<1>7. ASSUME NEW j \in Int, 0 <= j, j <= n
      PROVE  E!TxAfter(eth, s, j) = After(0, n, s, j)
  <2>1. PICK x \in Int : x = s + j
    BY <1>1
  <2>2. 0 <= x /\ x < n + n
    BY <1>1, <1>2, <1>7, <2>1
  <2>3. x % n = IF x < n THEN x ELSE x - n
    BY <1>2, <2>2, RestIs
  <2>4. E!TxAfter(eth, s, j) = x % n /\ s \in Int
    BY <1>1, <2>1 DEF E!TxAfter
  <2> HIDE DEF n, s
  <2> QED BY <1>2, <2>1, <2>3, <2>4 DEF After
<1> DEFINE At(j) == eth.bd[E!TxAfter(eth, s, j - 1)]
<1>8. ASSUME NEW j \in 1 .. k
      PROVE  At(j).ready /\ At(j).pkt = Number(drv.next, j - 1)
  <2>1. E!TxAfter(eth, s, j - 1) = After(0, n, s, j - 1)
    BY <1>2, <1>3, <1>7
  <2> QED BY <1>5, <1>6, <2>1
<1>9. [j \in 1 .. k |-> At(j).pkt] = E!Run(drv.next, drv.count)
  BY <1>1, <1>3, <1>4, <1>8, RunIsNumbers
<1>10. drv.pos = E!TxAfter(eth, s, k)
  BY <1>2, <1>3, <1>7
<1> HIDE DEF At
<1> DEFINE K == E!Cardinality(S)
<1>11. K = k
  BY <1>6, SameCount
<1> HIDE DEF K
<1>12. /\ \A j \in 1 .. K : At(j).ready
       /\ [j \in 1 .. K |-> At(j).pkt] = E!Run(drv.next, drv.count)
       /\ drv.pos = E!TxAfter(eth, s, K)
  BY <1>8, <1>9, <1>10, <1>11
<1> QED BY <1>12 DEF E!TxStream, At, K, S

(* The invariant implies RxStream.                                         *)
LEMMA RxStreamOK ==
  ASSUME EthSizes, EthInv
  PROVE  E!RxStream
<1> SUFFICES ASSUME eth_observed = "rx", drv.clean, "RXEN" \in eth.moder
             PROVE  E!RxStream
  BY DEF E!RxStream
<1> DEFINE S == {i \in E!RxRing(eth) : eth.bd[i].pkt # E!None}
           b == eth.tx_bd_num
           n == NBD - eth.tx_bd_num
           s == drv.pos
<1>1. /\ eth \in EthRecord /\ drv.next \in E!Packets /\ s \in E!RxRing(eth) /\ EthRxOK(eth, drv)
  BY DEF EthInv, DrvRecord, StreamOK, EthRxOK
<1>2. /\ b \in Nat /\ b > 0 /\ b < NBD /\ NBD \in Nat /\ n \in Nat /\ n > 0
      /\ E!RxRing(eth) = b .. b + n - 1
  BY <1>1, EthFacts
<1>3. PICK k \in 0 .. n : /\ Holds(S, eth.bd, b, n, s, k, drv.next)
                          /\ drv.count = Number(drv.next, k) /\ eth.rx_bd_index = After(b, n, s, k)
  BY <1>1 DEF EthRxOK
<1>4. Ring(b, n, s, k, drv.next) /\ S \subseteq b .. b + n - 1 /\ k \in Nat /\ k < PacketMod
  BY <1>1, <1>2 DEF Ring, EthSizes, E!Packets
<1> HIDE DEF S
<1>5. /\ Cardinality(S) = k
      /\ \A j \in 1 .. k : /\ After(b, n, s, j - 1) \in S
                           /\ eth.bd[After(b, n, s, j - 1)].pkt = Number(drv.next, j - 1)
  <2>1. Counts(S, eth.bd, b, n, s, k, drv.next)
    BY <1>3, <1>4 DEF Counts
  <2>2. Counted(S, eth.bd, b, n, s, k, drv.next)
    BY <2>1, RingCount
  <2> QED BY <2>2 DEF Counted
<1>6. ASSUME NEW j \in Int, 0 <= j, j <= n
      PROVE  E!RxAfter(eth, s, j) = After(b, n, s, j)
  <2>1. PICK x \in Int : x = s - b + j
    BY <1>1, <1>2
  <2>2. 0 <= x /\ x < n + n
    <3>1. s \in b .. b + n - 1
      BY <1>1, <1>2
    <3>2. b \in Nat /\ n \in Nat
      BY <1>2
    <3> HIDE DEF s, b, n
    <3> QED BY <1>6, <2>1, <3>1, <3>2
  <2>3. E!RxAfter(eth, s, j) = b + (x % n)
    BY <2>1 DEF E!RxAfter
  <2>4. s \in Int
    BY <1>1, <1>2
  <2> HIDE DEF n, b, s
  <2>5. x % n = IF x < n THEN x ELSE x - n
    BY <1>2, <2>2, RestIs
  <2>6. E!RxAfter(eth, s, j) = b + (IF x < n THEN x ELSE x - n)
    BY <2>3, <2>5
  <2> QED BY <1>2, <2>1, <2>4, <2>6 DEF After
<1> DEFINE At(j) == eth.bd[E!RxAfter(eth, s, j - 1)]
<1>7. ASSUME NEW j \in 1 .. k
      PROVE  At(j).pkt = Number(drv.next, j - 1)
  <2>1. E!RxAfter(eth, s, j - 1) = After(b, n, s, j - 1)
    BY <1>2, <1>3, <1>6
  <2> QED BY <1>5, <2>1
<1>8. [j \in 1 .. k |-> At(j).pkt] = E!Run(drv.next, drv.count)
  BY <1>1, <1>3, <1>4, <1>7, RunIsNumbers
<1>9. eth.rx_bd_index = E!RxAfter(eth, s, k)
  BY <1>2, <1>3, <1>6
<1> HIDE DEF At
<1> DEFINE K == E!Cardinality(S)
<1>10. K = k
  BY <1>5, SameCount
<1> HIDE DEF K
<1>11. /\ [j \in 1 .. K |-> At(j).pkt] = E!Run(drv.next, drv.count)
       /\ eth.rx_bd_index = E!RxAfter(eth, s, K)
  BY <1>8, <1>9, <1>10
<1> QED BY <1>11 DEF E!RxStream, At, K, S

(* The invariant always holds.                                             *)
LEMMA EthInvHolds ==
  ASSUME EthSizes
  PROVE  E!Spec => []EthInv
BY EthInit, EthNext, PTL DEF E!Spec

(* Every enabled ring of the Ethernet controller is served: its clock job  *)
(* is queued exactly while it is enabled, indices stay in their rings, and *)
(* the packets in a ring are those between the driver and the controller,  *)
(* in order, none lost and none twice, for every number of descriptors,    *)
(* every split of them, and every sequence of register writes.             *)
THEOREM RingsAreExact ==
  ASSUME EthSizes
  PROVE  E!Spec => []E!RingsExact
<1>1. EthInv => E!TypeOK
  <2> SUFFICES ASSUME EthInv PROVE E!TypeOK
    OBVIOUS
  <2>1. /\ eth \in EthRecord /\ E!TxRing(eth) = 0 .. eth.tx_bd_num - 1
        /\ E!RxRing(eth) = eth.tx_bd_num .. NBD - 1
    BY DEF EthInv, E!TxRing, E!RxRing
  <2> QED BY <2>1 DEF EthInv, EthRecord, LineOK, IndexOK, E!TypeOK
<1>2. EthInv => E!JobsFollowModer
  BY DEF EthInv, JobsOK, E!JobsFollowModer
<1>3. EthInv => E!RingsExact
  BY <1>1, <1>2, TxStreamOK, RxStreamOK DEF E!RingsExact
<1> QED BY <1>3, EthInvHolds, PTL

(* An interrupt that a completed descriptor asked for holds the line until *)
(* the driver clears its source or rewrites the mask: the branch that      *)
(* prints "Interrupt active during ..." never drops one.                   *)
THEOREM EthInterruptsHold ==
  ASSUME EthSizes
  PROVE  E!Spec => []E!OwedIsActive
<1>1. EthInv => E!OwedIsActive
  BY DEF EthInv, LineOK, E!OwedIsActive
<1> QED BY <1>1, EthInvHolds, PTL

-----------------------------------------------------------------------------
(* Addresses under a mask.                                                 *)

(* Quotient and rest are unique.                                           *)
LEMMA DivUnique ==
  ASSUME NEW m \in Nat, m > 0, NEW q1 \in Int, NEW r1 \in 0 .. m - 1, NEW q2 \in Int, NEW r2 \in 0 .. m - 1,
         m * q1 + r1 = m * q2 + r2
  PROVE  q1 = q2 /\ r1 = r2
<1>1. m * (q1 - q2) = r2 - r1
  OBVIOUS
<1>2. ~ (q1 - q2 >= 1)
  <2> SUFFICES ASSUME q1 - q2 >= 1 PROVE FALSE
    OBVIOUS
  <2>1. m * (q1 - q2) >= m
    OBVIOUS
  <2> QED BY <1>1, <2>1
<1>3. ~ (q1 - q2 <= -1)
  <2> SUFFICES ASSUME q1 - q2 <= -1 PROVE FALSE
    OBVIOUS
  <2>1. m * (q1 - q2) <= -m
    OBVIOUS
  <2> QED BY <1>1, <2>1
<1>4. q1 = q2
  BY <1>2, <1>3
<1> QED BY <1>1, <1>4

(* A number is in one block of m.                                          *)
LEMMA BlockOf ==
  ASSUME NEW m \in Nat, m > 0, NEW v \in Int
  PROVE  \E q \in Int : v = m * q + (v % m) /\ v % m \in 0 .. m - 1
OBVIOUS

(* A remainder from a quotient.                                            *)
LEMMA RestOf ==
  ASSUME NEW m \in Nat, m > 0, NEW q \in Int, NEW r \in 0 .. m - 1, NEW v \in Int, v = m * q + r
  PROVE  v % m = r
<1>1. PICK p \in Int : v = m * p + (v % m) /\ v % m \in 0 .. m - 1
  BY BlockOf
<1> QED BY <1>1, DivUnique

(* An address stays in its block.                                          *)
LEMMA InBlock ==
  ASSUME NEW m \in Nat, m > 0, NEW v \in Nat, NEW r \in 0 .. m - 1
  PROVE  /\ (v - (v % m)) + r \in Nat
         /\ ((v - (v % m)) + r) % m = r
<1>1. PICK q \in Int : v = m * q + (v % m) /\ v % m \in 0 .. m - 1
  BY BlockOf
<1>2. PICK c \in Int : c = m * q
  OBVIOUS
<1>3. v - (v % m) = c /\ c >= 0
  <2>1. q >= 0
    <3> SUFFICES ASSUME q <= -1 PROVE FALSE
      OBVIOUS
    <3>1. m * q <= -m
      OBVIOUS
    <3> QED BY <1>1, <3>1
  <2>2. m * q >= 0
    BY <2>1
  <2> QED BY <1>1, <1>2, <2>2
<1>4. PICK w \in Int : w = c + r
  OBVIOUS
<1>5. w % m = r
  BY <1>2, <1>4, RestOf
<1> QED BY <1>3, <1>4, <1>5

(* Moving one word, and then i words, is moving i + 1 words.               *)
LEMMA AtNext ==
  ASSUME NEW mask \in Nat, NEW v \in Nat, NEW i \in Nat
  PROVE  /\ D!masked_increase(v, mask) \in Nat
         /\ D!At(D!masked_increase(v, mask), mask, i) = D!At(v, mask, i + 1)
<1>1. PICK m \in Nat : m = mask + 1 /\ m > 0
  OBVIOUS
<1>2. PICK r1 : r1 = (v + 1) % m /\ r1 \in 0 .. m - 1
  BY <1>1
<1>3. PICK c : c = v - (v % m)
  OBVIOUS
<1>4. c \in Int
  BY <1>1, <1>3
<1>5. PICK n : n = D!masked_increase(v, mask)
  OBVIOUS
<1>6. n = c + r1 /\ n \in Nat /\ n % m = r1
  <2>1. n = (v - (v % m)) + r1
    BY <1>1, <1>2, <1>5 DEF D!masked_increase
  <2>2. (v - (v % m)) + r1 \in Nat /\ ((v - (v % m)) + r1) % m = r1
    BY <1>1, <1>2, InBlock
  <2> QED BY <1>3, <2>1, <2>2
<1>7. PICK x \in Int : x = n + i
  BY <1>6
<1>8. PICK y \in Int : y = v + (i + 1)
  OBVIOUS
<1>9. x % m = y % m
  <2>0. v \in Int
    OBVIOUS
  <2>1. PICK q \in Int : v = m * q + (v % m) /\ v % m \in 0 .. m - 1
    BY <1>1, <2>0, BlockOf
  <2>2. PICK up \in Int : up = v + 1
    OBVIOUS
  <2>3. PICK q2 \in Int : up = m * q2 + (up % m)
    BY <1>1, BlockOf
  <2>4. PICK q3 \in Int : x = m * q3 + (x % m) /\ x % m \in 0 .. m - 1
    BY <1>1, BlockOf
  <2>5. c = m * q
    <3>1. PICK z \in Int : z = m * q
      OBVIOUS
    <3>2. PICK r \in Int : r = v % m
      BY <2>1
    <3> QED BY <1>3, <2>1, <3>1, <3>2
  <2>6. up % m = r1
    BY <1>2, <2>2
  <2>7. y = x + (m * q2 - m * q)
    BY <1>2, <1>6, <1>7, <1>8, <2>2, <2>3, <2>5, <2>6
  <2>8. PICK q4 \in Int : q4 = q3 + (q2 - q)
    OBVIOUS
  <2>9. m * q4 = m * q3 + (m * q2 - m * q)
    BY <2>8
  <2>10. y = m * q4 + (x % m)
    BY <1>1, <2>4, <2>7, <2>9
  <2> QED BY <1>1, <2>4, <2>10, RestOf
<1>10. D!At(n, mask, i) = c + (x % m)
  BY <1>1, <1>4, <1>6, <1>7 DEF D!At
<1>11. D!At(v, mask, i + 1) = c + (y % m)
  BY <1>1, <1>3, <1>8 DEF D!At
<1> QED BY <1>5, <1>6, <1>9, <1>10, <1>11

(* Moving no word leaves the address.                                      *)
LEMMA AtFirst ==
  ASSUME NEW mask \in Nat, NEW v \in Nat
  PROVE  D!At(v, mask, 0) = v
<1>1. PICK m \in Nat : m = mask + 1 /\ m > 0
  OBVIOUS
<1>2. v % m \in Int
  BY <1>1
<1> QED BY <1>1, <1>2 DEF D!At

(* Moving does not leave memory, if blocks fill it.                        *)
LEMMA IncreaseRange ==
  ASSUME NEW mask \in Nat, NEW v \in 0 .. AddrMod - 1, AddrMod \in Nat, AddrMod % (mask + 1) = 0
  PROVE  D!masked_increase(v, mask) \in 0 .. AddrMod - 1
<1>1. PICK m \in Nat : m = mask + 1 /\ m > 0
  OBVIOUS
<1>2. PICK r1 : r1 = (v + 1) % m /\ r1 \in 0 .. m - 1
  BY <1>1
<1>3. PICK n : n = D!masked_increase(v, mask)
  OBVIOUS
<1>4. n = (v - (v % m)) + r1 /\ n \in Nat
  <2>1. n = (v - (v % m)) + r1
    BY <1>1, <1>2, <1>3 DEF D!masked_increase
  <2> QED BY <1>1, <1>2, <2>1, InBlock
<1>0. v \in Int /\ AddrMod \in Int
  OBVIOUS
<1>5. PICK q \in Int : v = m * q + (v % m) /\ v % m \in 0 .. m - 1
  BY <1>0, <1>1, BlockOf
<1>6. PICK p \in Int : AddrMod = m * p + (AddrMod % m) /\ AddrMod % m \in 0 .. m - 1
  BY <1>0, <1>1, BlockOf
<1>7. PICK c \in Int : c = m * q
  OBVIOUS
<1>8. AddrMod = m * p
  BY <1>1, <1>6
<1>9. c < AddrMod
  BY <1>5, <1>7
<1>10. q < p
  <2> SUFFICES ASSUME q >= p PROVE FALSE
    BY <1>5, <1>6
  <2>1. m * q >= m * p
    BY <1>1
  <2> QED BY <1>7, <1>8, <1>9, <2>1
<1>11. m * q + m <= m * p
  <2>1. PICK d \in Int : d = p - q /\ d >= 1
    BY <1>10
  <2>2. m * d >= m
    BY <1>1, <2>1
  <2>3. m * p = m * q + m * d
    BY <2>1
  <2> QED BY <2>2, <2>3
<1>12. n = c + r1
  BY <1>4, <1>5, <1>7
<1> QED BY <1>2, <1>3, <1>4, <1>7, <1>8, <1>11, <1>12

-----------------------------------------------------------------------------
(* Words that are copied.                                                  *)
Pairs == Int \X Int

(* The words of a transfer: how many, and which the i-th one is.           *)
WordsOf(w, tot, a0, m0, a1, m1) ==
  /\ w \in Seq(Pairs) /\ Len(w) = tot
  /\ \A i \in 1 .. tot : w[i] = <<D!At(a0, m0, i - 1), D!At(a1, m1, i - 1)>>
(* Words is a sequence, and these are its elements.                        *)
LEMMA WordsAre ==
  ASSUME NEW tot \in Nat, NEW a0 \in Nat, NEW m0 \in Nat, NEW a1 \in Nat, NEW m1 \in Nat
  PROVE  WordsOf(D!Words(tot, a0, m0, a1, m1), tot, a0, m0, a1, m1)
<1>1. ASSUME NEW a \in Nat, NEW m \in Nat, NEW i \in Nat
      PROVE  D!At(a, m, i) \in Int
  <2>1. PICK n \in Nat : n = m + 1 /\ n > 0
    OBVIOUS
  <2>2. PICK x \in Int : x = a + i
    OBVIOUS
  <2>3. a % n \in Int /\ x % n \in Int
    BY <2>1, <2>2
  <2> QED BY <2>1, <2>2, <2>3 DEF D!At
<1> DEFINE w == [i \in 1 .. tot |-> <<D!At(a0, m0, i - 1), D!At(a1, m1, i - 1)>>]
<1>2. w \in [1 .. tot -> Pairs]
  <2>1. \A i \in 1 .. tot : <<D!At(a0, m0, i - 1), D!At(a1, m1, i - 1)>> \in Pairs
    BY <1>1 DEF Pairs
  <2> QED BY <2>1
<1>3. \A i \in 1 .. tot : w[i] = <<D!At(a0, m0, i - 1), D!At(a1, m1, i - 1)>>
  OBVIOUS
<1>4. D!Words(tot, a0, m0, a1, m1) = w
  BY DEF D!Words
<1> HIDE DEF w
<1>5. w \in Seq(Pairs) /\ Len(w) = tot
  BY <1>2
<1> QED BY <1>3, <1>4, <1>5 DEF WordsOf

(* A sequence with its first element apart.                                *)
LEMMA FirstApart ==
  ASSUME NEW S, NEW e \in S, NEW v \in Seq(S)
  PROVE  /\ <<e>> \o v \in Seq(S) /\ Len(<<e>> \o v) = Len(v) + 1
         /\ (<<e>> \o v)[1] = e
         /\ \A i \in 2 .. Len(v) + 1 : (<<e>> \o v)[i] = v[i - 1]
<1>1. PICK h : h = <<e>>
  OBVIOUS
<1>2. h \in Seq(S) /\ Len(h) = 1 /\ h[1] = e
  BY <1>1
<1>3. h \o v \in Seq(S) /\ Len(h \o v) = Len(h) + Len(v) /\ Len(v) \in Nat
  <2>1. h \o v \in Seq(S)
    BY <1>2, ConcatProperties
  <2>2. Len(h \o v) = Len(h) + Len(v)
    BY <1>2, ConcatProperties
  <2> QED BY <2>1, <2>2, LenProperties
<1>4. \A i \in 1 .. Len(h) + Len(v) : (h \o v)[i] = IF i <= Len(h) THEN h[i] ELSE v[i - Len(h)]
  BY <1>2, ConcatProperties
<1>5. \A i \in 1 .. Len(v) + 1 : (h \o v)[i] = IF i <= 1 THEN h[i] ELSE v[i - 1]
  BY <1>2, <1>3, <1>4
<1>6. Len(h \o v) = Len(v) + 1
  BY <1>2, <1>3
<1> QED BY <1>1, <1>2, <1>3, <1>5, <1>6

(* The first word, and the words that are left when it is moved.           *)
FirstOf(tot, a0, m0, a1, m1) ==
  D!Words(tot, a0, m0, a1, m1) =
    <<<<a0, a1>>>> \o D!Words(tot - 1, D!masked_increase(a0, m0), m0, D!masked_increase(a1, m1), m1)
(* The words of a transfer are its first word and those of a shorter one.  *)
LEMMA WordsFirst ==
  ASSUME NEW tot \in Nat, tot > 0, NEW a0 \in Nat, NEW m0 \in Nat, NEW a1 \in Nat, NEW m1 \in Nat
  PROVE  FirstOf(tot, a0, m0, a1, m1)
<1>1. PICK b0 \in Nat : /\ b0 = D!masked_increase(a0, m0)
                        /\ \A i \in Nat : D!At(b0, m0, i) = D!At(a0, m0, i + 1)
  <2>1. D!masked_increase(a0, m0) \in Nat
    BY AtNext, 0 \in Nat
  <2>2. \A i \in Nat : D!At(D!masked_increase(a0, m0), m0, i) = D!At(a0, m0, i + 1)
    BY AtNext
  <2> QED BY <2>1, <2>2
<1>2. PICK b1 \in Nat : /\ b1 = D!masked_increase(a1, m1)
                        /\ \A i \in Nat : D!At(b1, m1, i) = D!At(a1, m1, i + 1)
  <2>1. D!masked_increase(a1, m1) \in Nat
    BY AtNext, 0 \in Nat
  <2>2. \A i \in Nat : D!At(D!masked_increase(a1, m1), m1, i) = D!At(a1, m1, i + 1)
    BY AtNext
  <2> QED BY <2>1, <2>2
<1>3. PICK t \in Nat : t = tot - 1
  OBVIOUS
<1>4. PICK w : w = D!Words(tot, a0, m0, a1, m1) /\ WordsOf(w, tot, a0, m0, a1, m1)
  BY WordsAre
<1>5. PICK v : v = D!Words(t, b0, m0, b1, m1) /\ WordsOf(v, t, b0, m0, b1, m1)
  BY WordsAre
<1>0. <<a0, a1>> \in Pairs
  BY DEF Pairs
<1>6. PICK e : e = <<a0, a1>> /\ e \in Pairs
  BY <1>0
<1>7. v \in Seq(Pairs) /\ Len(v) = t
  BY <1>5 DEF WordsOf
<1>8. PICK x : x = <<e>> \o v
  OBVIOUS
<1>9. /\ x \in Seq(Pairs) /\ Len(x) = tot /\ x[1] = e
      /\ \A i \in 2 .. tot : x[i] = v[i - 1]
  BY <1>3, <1>6, <1>7, <1>8, FirstApart
<1>10. w \in Seq(Pairs) /\ Len(w) = tot
  BY <1>4 DEF WordsOf
<1>11. ASSUME NEW i \in 1 .. tot
       PROVE  w[i] = x[i]
  <2>1. w[i] = <<D!At(a0, m0, i - 1), D!At(a1, m1, i - 1)>>
    BY <1>4 DEF WordsOf
  <2>2. CASE i = 1
    <3>1. D!At(a0, m0, 0) = a0 /\ D!At(a1, m1, 0) = a1
      BY AtFirst
    <3>2. i - 1 = 0
      BY <2>2
    <3> QED BY <1>6, <1>9, <2>1, <2>2, <3>1, <3>2
  <2>3. CASE i # 1
    <3>1. PICK j \in 1 .. t : j = i - 1
      BY <1>3, <2>3
    <3>2. PICK k \in Nat : k = j - 1
      OBVIOUS
    <3>3. k + 1 = i - 1
      BY <3>1, <3>2
    <3>4. x[i] = v[j]
      BY <1>9, <2>3, <3>1
    <3>5. v[j] = <<D!At(b0, m0, k), D!At(b1, m1, k)>>
      BY <1>5, <3>2 DEF WordsOf
    <3>6. D!At(b0, m0, k) = D!At(a0, m0, i - 1) /\ D!At(b1, m1, k) = D!At(a1, m1, i - 1)
      BY <1>1, <1>2, <3>3
    <3> QED BY <2>1, <3>4, <3>5, <3>6
  <2> QED BY <2>2, <2>3
<1>12. w = x
  BY <1>9, <1>10, <1>11, SeqEqual
<1> QED BY <1>1, <1>2, <1>3, <1>4, <1>5, <1>6, <1>8, <1>12 DEF FirstOf

(* A transfer of no words has none.                                        *)
LEMMA NoWords ==
  ASSUME NEW a0 \in Nat, NEW m0 \in Nat, NEW a1 \in Nat, NEW m1 \in Nat
  PROVE  D!Words(0, a0, m0, a1, m1) = <<>>
<1>1. PICK z \in Nat : z = 0
  OBVIOUS
<1>2. PICK w : w = D!Words(z, a0, m0, a1, m1) /\ WordsOf(w, z, a0, m0, a1, m1)
  BY WordsAre
<1>3. w \in Seq(Pairs) /\ Len(w) = 0
  BY <1>1, <1>2 DEF WordsOf
<1>4. w = <<>>
  BY <1>3, EmptySeq
<1> QED BY <1>1, <1>2, <1>4

-----------------------------------------------------------------------------
(* Channels.                                                               *)

(* What Dma assumes of its constants.                                      *)
DmaSizes ==
  /\ AddrMod \in Nat /\ AddrMod > 5
  /\ Sizes \subseteq 1 .. AddrMod - 2
  /\ Masks \subseteq 0 .. AddrMod - 1
  /\ \A m \in Masks : AddrMod % (m + 1) = 0

Addresses == 0 .. AddrMod - 1
AllMasks == Masks \cup {0, AddrMod - 1}
Flags == {"BUSY", "DONE", "CH_EN", "STOP", "INC_SRC", "INC_DST", "USE_ED", "ARS", "INE", "MODE"}

ChRecord ==
  [csr : SUBSET Flags, tot : Nat \ {0}, a0 : Addresses, a1 : Addresses, am0 : AllMasks, am1 : AllMasks,
   desc : {0, 1}, load_next : BOOLEAN, source : Addresses, destination : Addresses,
   smask : AllMasks, dmask : AllMasks, total : Nat, words : Nat, req : BOOLEAN, nd : BOOLEAN]
(* A busy channel has words left to move.                                  *)
ChOK(s) ==
  /\ s \in ChRecord /\ s.words <= s.total
  /\ "BUSY" \in s.csr => s.words < s.total

(* Masks and addresses are numbers, and masks leave whole blocks.          *)
LEMMA MaskFacts ==
  ASSUME DmaSizes
  PROVE  /\ 0 \in AllMasks /\ AddrMod - 1 \in AllMasks /\ 0 \in Addresses
         /\ \A m \in AllMasks : m \in Nat /\ AddrMod % (m + 1) = 0
         /\ \A a \in Addresses : a \in Nat
<1>1. AddrMod % (0 + 1) = 0 /\ AddrMod % ((AddrMod - 1) + 1) = 0
  <2>1. PICK n \in Nat : n = AddrMod /\ n > 0
    BY DEF DmaSizes
  <2>2. n % 1 = 0 /\ n % n = 0
    BY <2>1
  <2>3. (n - 1) + 1 = n /\ 0 + 1 = 1
    BY <2>1
  <2> QED BY <2>1, <2>2, <2>3
<1>2. AddrMod - 1 \in Nat /\ 0 \in 0 .. AddrMod - 1
  BY DEF DmaSizes
<1> QED BY <1>1, <1>2 DEF AllMasks, DmaSizes, Addresses

(* The two descriptors.                                                    *)
LEMMA DescriptorFacts ==
  ASSUME DmaSizes, NEW i \in {0, 1}
  PROVE  /\ D!Descriptors[i].tot \in Nat \ {0} /\ D!Descriptors[i].a0 \in Addresses
         /\ D!Descriptors[i].a1 \in Addresses /\ D!Descriptors[i].next \in {0, 1}
         /\ D!Descriptors[i].eol \in BOOLEAN /\ D!Descriptors[i].inc \subseteq {"INC_SRC", "INC_DST"}
         /\ D!Descriptors[i].eol \/ D!Descriptors[D!Descriptors[i].next].eol
<1>1. D!Descriptors[0] = D!FirstDescriptor /\ D!Descriptors[1] = D!LastDescriptor
  BY DEF D!Descriptors
<1>2. /\ D!FirstDescriptor.tot = 2 /\ D!FirstDescriptor.a0 = 1 /\ D!FirstDescriptor.a1 = 5
      /\ D!FirstDescriptor.next = 1 /\ D!FirstDescriptor.eol = FALSE
      /\ D!FirstDescriptor.inc = {"INC_SRC", "INC_DST"}
  BY DEF D!FirstDescriptor
<1>3. /\ D!LastDescriptor.tot = 1 /\ D!LastDescriptor.a0 = 0 /\ D!LastDescriptor.a1 = 2
      /\ D!LastDescriptor.next = 0 /\ D!LastDescriptor.eol = TRUE
      /\ D!LastDescriptor.inc = {"INC_DST"}
  BY DEF D!LastDescriptor
<1>4. {0, 1, 2, 5} \subseteq Addresses
  BY DEF Addresses, DmaSizes
<1>5. PICK d : d = D!Descriptors[i]
  OBVIOUS
<1>6. CASE i = 0
  <2>1. d = D!FirstDescriptor
    BY <1>1, <1>5, <1>6
  <2>2. D!Descriptors[d.next].eol
    BY <1>1, <1>2, <1>3, <2>1
  <2>3. d.tot \in Nat \ {0} /\ d.a0 \in Addresses /\ d.a1 \in Addresses /\ d.next \in {0, 1}
    BY <1>2, <1>4, <2>1
  <2>4. d.eol \in BOOLEAN /\ d.inc \subseteq {"INC_SRC", "INC_DST"}
    BY <1>2, <2>1
  <2> QED BY <1>5, <2>2, <2>3, <2>4
<1>7. CASE i = 1
  <2>1. d = D!LastDescriptor
    BY <1>1, <1>5, <1>7
  <2>2. d.eol /\ d.eol \in BOOLEAN /\ d.inc \subseteq {"INC_SRC", "INC_DST"}
    BY <1>3, <2>1
  <2>3. d.tot \in Nat \ {0} /\ d.a0 \in Addresses /\ d.a1 \in Addresses /\ d.next \in {0, 1}
    BY <1>3, <1>4, <2>1
  <2> QED BY <1>5, <2>2, <2>3
<1> QED BY <1>6, <1>7

(* What dma_load_descriptor does to a channel.                             *)
LEMMA LoadOK ==
  ASSUME DmaSizes, NEW s \in ChRecord
  PROVE  LET l == D!dma_load_descriptor(s)
             d == D!Descriptors[s.desc]
         IN  /\ l \in ChRecord /\ l.load_next = ~ d.eol /\ l.csr = (s.csr \ D!Incs) \cup d.inc
             /\ l.tot = d.tot /\ l.a0 = d.a0 /\ l.a1 = d.a1 /\ l.desc = d.next
             /\ l.am0 = s.am0 /\ l.am1 = s.am1
<1> DEFINE l == D!dma_load_descriptor(s)
           d == D!Descriptors[s.desc]
<1>1. /\ d.tot \in Nat \ {0} /\ d.a0 \in Addresses /\ d.a1 \in Addresses /\ d.next \in {0, 1}
      /\ d.eol \in BOOLEAN /\ d.inc \subseteq {"INC_SRC", "INC_DST"}
  BY DescriptorFacts DEF ChRecord
<1>2. l = [s EXCEPT !.load_next = ~d.eol, !.csr = (s.csr \ D!Incs) \cup d.inc, !.tot = d.tot,
                    !.a0 = d.a0, !.a1 = d.a1, !.desc = d.next]
  BY DEF D!dma_load_descriptor
<1> HIDE DEF l, d
<1>3. (s.csr \ D!Incs) \cup d.inc \in SUBSET Flags
  BY <1>1 DEF ChRecord, Flags
<1> HIDE DEF Flags
<1>4. l \in ChRecord
  BY <1>1, <1>2, <1>3 DEF ChRecord
<1>5. /\ l.load_next = ~ d.eol /\ l.csr = (s.csr \ D!Incs) \cup d.inc
      /\ l.tot = d.tot /\ l.a0 = d.a0 /\ l.a1 = d.a1 /\ l.desc = d.next
      /\ l.am0 = s.am0 /\ l.am1 = s.am1
  BY <1>2 DEF ChRecord
<1> QED BY <1>4, <1>5 DEF l, d

(* What dma_init_transfer does to a channel.                               *)
LEMMA InitOK ==
  ASSUME DmaSizes, NEW s \in ChRecord
  PROVE  LET l == D!dma_init_transfer(s)
         IN  /\ ChOK(l) /\ l.load_next = s.load_next /\ l.csr = s.csr /\ l.desc = s.desc
             /\ l.am0 = s.am0 /\ l.am1 = s.am1 /\ l.source = s.a0 /\ l.destination = s.a1
             /\ l.smask = (IF "INC_SRC" \in s.csr THEN s.am0 ELSE 0)
             /\ l.dmask = (IF "INC_DST" \in s.csr THEN s.am1 ELSE 0)
             /\ l.total = s.tot /\ l.words = 0
<1> DEFINE l == D!dma_init_transfer(s)
<1>1. PICK m0 \in AllMasks : m0 = IF "INC_SRC" \in s.csr THEN s.am0 ELSE 0
  BY MaskFacts DEF ChRecord
<1>2. PICK m1 \in AllMasks : m1 = IF "INC_DST" \in s.csr THEN s.am1 ELSE 0
  BY MaskFacts DEF ChRecord
<1>3. l = [s EXCEPT !.source = s.a0, !.destination = s.a1, !.smask = m0, !.dmask = m1,
                    !.total = s.tot, !.words = 0]
  BY <1>1, <1>2 DEF D!dma_init_transfer
<1> HIDE DEF l
<1>4. l \in ChRecord
  BY <1>3 DEF ChRecord
<1>5. /\ l.load_next = s.load_next /\ l.csr = s.csr /\ l.desc = s.desc
      /\ l.am0 = s.am0 /\ l.am1 = s.am1 /\ l.source = s.a0 /\ l.destination = s.a1
      /\ l.smask = m0 /\ l.dmask = m1 /\ l.total = s.tot /\ l.words = 0
  BY <1>3 DEF ChRecord
<1>6. s.tot \in Nat /\ s.tot > 0
  BY DEF ChRecord
<1> QED BY <1>1, <1>2, <1>4, <1>5, <1>6 DEF l, ChOK

(* What a busy channel has still to move: the rest of the transfer, and    *)
(* then the rest of the list.                                              *)
Rest(s) ==
  D!Words(s.total - s.words, s.source, s.smask, s.destination, s.dmask)
    \o (IF s.load_next THEN D!ListWords(s) ELSE <<>>)

(* The words of a transfer are as many as it has.                          *)
LEMMA WordsType ==
  ASSUME DmaSizes, NEW tot \in Nat, NEW a0 \in Addresses, NEW m0 \in AllMasks,
         NEW a1 \in Addresses, NEW m1 \in AllMasks
  PROVE  D!Words(tot, a0, m0, a1, m1) \in Seq(Pairs) /\ Len(D!Words(tot, a0, m0, a1, m1)) = tot
<1>1. a0 \in Nat /\ m0 \in Nat /\ a1 \in Nat /\ m1 \in Nat
  BY MaskFacts
<1>2. WordsOf(D!Words(tot, a0, m0, a1, m1), tot, a0, m0, a1, m1)
  BY <1>1, WordsAre
<1> QED BY <1>2 DEF WordsOf

(* The words of a descriptor are a sequence of pairs.                      *)
LEMMA DescriptorWordsType ==
  ASSUME DmaSizes, NEW s \in ChRecord, NEW i \in {0, 1}
  PROVE  D!DescriptorWords(s, D!Descriptors[i]) \in Seq(Pairs)
<1>1. PICK d : d = D!Descriptors[i]
  OBVIOUS
<1>2. d.tot \in Nat /\ d.a0 \in Addresses /\ d.a1 \in Addresses
  BY <1>1, DescriptorFacts
<1>3. PICK m0 \in AllMasks : m0 = IF "INC_SRC" \in d.inc THEN s.am0 ELSE 0
  BY MaskFacts DEF ChRecord
<1>4. PICK m1 \in AllMasks : m1 = IF "INC_DST" \in d.inc THEN s.am1 ELSE 0
  BY MaskFacts DEF ChRecord
<1>5. D!Words(d.tot, d.a0, m0, d.a1, m1) \in Seq(Pairs)
  BY <1>2, WordsType
<1>6. D!DescriptorWords(s, d) = D!Words(d.tot, d.a0, m0, d.a1, m1)
  BY <1>3, <1>4 DEF D!DescriptorWords
<1> QED BY <1>1, <1>5, <1>6

(* The words of a list: those of a descriptor, and of the next.            *)
LEMMA ListIs ==
  ASSUME DmaSizes, NEW s \in ChRecord
  PROVE  LET d == D!Descriptors[s.desc]
         IN  /\ D!ListWords(s) \in Seq(Pairs)
             /\ d.eol => D!ListWords(s) = D!DescriptorWords(s, d)
             /\ ~ d.eol => /\ D!ListWords(s) = D!DescriptorWords(s, d) \o D!DescriptorWords(s, D!Descriptors[d.next])
                           /\ D!Descriptors[d.next].eol
<1>1. PICK d : d = D!Descriptors[s.desc]
  OBVIOUS
<1>2. s.desc \in {0, 1}
  BY DEF ChRecord
<1>3. d.next \in {0, 1} /\ d.eol \in BOOLEAN /\ (~ d.eol => D!Descriptors[d.next].eol)
  BY <1>1, <1>2, DescriptorFacts
<1>4. PICK x : x = D!DescriptorWords(s, d) /\ x \in Seq(Pairs)
  BY <1>1, <1>2, DescriptorWordsType
<1>5. PICK y : y = D!DescriptorWords(s, D!Descriptors[d.next]) /\ y \in Seq(Pairs)
  BY <1>3, DescriptorWordsType
<1>6. D!ListWords(s) = x \o (IF d.eol THEN <<>> ELSE y)
  BY <1>1, <1>4, <1>5 DEF D!ListWords
<1>7. x \o y \in Seq(Pairs) /\ x \o <<>> = x
  BY <1>4, <1>5, ConcatEmptySeq, ConcatProperties
<1>8. CASE d.eol
  <2>1. D!ListWords(s) = x
    BY <1>6, <1>7, <1>8
  <2> QED BY <1>1, <1>4, <1>8, <2>1
<1>9. CASE ~ d.eol
  <2>1. D!ListWords(s) = x \o y
    BY <1>6, <1>9
  <2> QED BY <1>1, <1>3, <1>4, <1>5, <1>7, <1>9, <2>1
<1> QED BY <1>8, <1>9

(* The words of a list depend on the descriptor and the masks only.        *)
LEMMA ListSame ==
  ASSUME NEW s, NEW t, t.desc = s.desc, t.am0 = s.am0, t.am1 = s.am1
  PROVE  D!ListWords(t) = D!ListWords(s)
<1>1. \A d : D!DescriptorWords(t, d) = D!DescriptorWords(s, d)
  BY DEF D!DescriptorWords
<1> QED BY <1>1 DEF D!ListWords

(* A transfer that was set up has all its words to move.                   *)
LEMMA InitRest ==
  ASSUME DmaSizes, NEW s \in ChRecord
  PROVE  Rest(D!dma_init_transfer(s)) =
           D!Words(s.tot, s.a0, IF "INC_SRC" \in s.csr THEN s.am0 ELSE 0,
                   s.a1, IF "INC_DST" \in s.csr THEN s.am1 ELSE 0)
             \o (IF s.load_next THEN D!ListWords(s) ELSE <<>>)
<1>1. PICK l : l = D!dma_init_transfer(s)
  OBVIOUS
<1>2. /\ l.load_next = s.load_next /\ l.desc = s.desc /\ l.am0 = s.am0 /\ l.am1 = s.am1
      /\ l.source = s.a0 /\ l.destination = s.a1
      /\ l.smask = (IF "INC_SRC" \in s.csr THEN s.am0 ELSE 0)
      /\ l.dmask = (IF "INC_DST" \in s.csr THEN s.am1 ELSE 0)
      /\ l.total = s.tot /\ l.words = 0
  BY <1>1, InitOK
<1>3. D!ListWords(l) = D!ListWords(s)
  BY <1>2, ListSame
<1>4. l.total - l.words = s.tot
  BY <1>2 DEF ChRecord
<1> QED BY <1>1, <1>2, <1>3, <1>4 DEF Rest

(* A channel that loads a descriptor has the words of the list to move.    *)
LEMMA LoadRest ==
  ASSUME DmaSizes, NEW s \in ChRecord
  PROVE  Rest(D!dma_init_transfer(D!dma_load_descriptor(s))) = D!ListWords(s)
<1>1. PICK d : d = D!Descriptors[s.desc]
  OBVIOUS
<1>2. PICK l : l = D!dma_load_descriptor(s)
  OBVIOUS
<1>3. /\ l \in ChRecord /\ l.load_next = ~ d.eol /\ l.csr = (s.csr \ D!Incs) \cup d.inc
      /\ l.tot = d.tot /\ l.a0 = d.a0 /\ l.a1 = d.a1 /\ l.desc = d.next
      /\ l.am0 = s.am0 /\ l.am1 = s.am1
  BY <1>1, <1>2, LoadOK
<1>4. /\ "INC_SRC" \in l.csr <=> "INC_SRC" \in d.inc
      /\ "INC_DST" \in l.csr <=> "INC_DST" \in d.inc
  BY <1>3 DEF D!Incs
<1>5. PICK x : x = D!DescriptorWords(s, d)
  OBVIOUS
<1>6. Rest(D!dma_init_transfer(l)) = x \o (IF l.load_next THEN D!ListWords(l) ELSE <<>>)
  <2>1. D!Words(l.tot, l.a0, IF "INC_SRC" \in l.csr THEN l.am0 ELSE 0,
                l.a1, IF "INC_DST" \in l.csr THEN l.am1 ELSE 0) = x
    BY <1>3, <1>4, <1>5 DEF D!DescriptorWords
  <2> QED BY <1>3, <2>1, InitRest
<1>7. s.desc \in {0, 1} /\ d.eol \in BOOLEAN
  BY <1>1, DescriptorFacts DEF ChRecord
<1>8. x \in Seq(Pairs)
  BY <1>1, <1>5, <1>7, DescriptorWordsType
<1>9. CASE d.eol
  <2>1. D!ListWords(s) = x
    BY <1>1, <1>5, <1>9, ListIs
  <2>2. x \o <<>> = x
    BY <1>8, ConcatEmptySeq
  <2> QED BY <1>2, <1>3, <1>6, <1>9, <2>1, <2>2
<1>10. CASE ~ d.eol
  <2>1. PICK y : y = D!DescriptorWords(s, D!Descriptors[d.next])
    OBVIOUS
  <2>2. D!ListWords(s) = x \o y /\ D!Descriptors[d.next].eol
    BY <1>1, <1>5, <1>10, <2>1, ListIs
  <2>3. D!ListWords(l) = D!DescriptorWords(l, D!Descriptors[d.next])
    BY <1>3, <2>2, ListIs
  <2>4. D!DescriptorWords(l, D!Descriptors[d.next]) = y
    BY <1>3, <2>1 DEF D!DescriptorWords
  <2> QED BY <1>2, <1>3, <1>6, <1>10, <2>2, <2>3, <2>4
<1> QED BY <1>7, <1>9, <1>10

(* The first clock of a transfer.                                          *)
LEMMA StartedOK ==
  ASSUME DmaSizes, NEW s, ChOK(s)
  PROVE  LET t == D!Started(s)
         IN  /\ ChOK(t) /\ "BUSY" \in t.csr /\ t.nd = s.nd
             /\ \A f \in {"CH_EN", "MODE", "ARS", "USE_ED"} : f \in t.csr <=> f \in s.csr
             /\ Rest(t) = IF "BUSY" \in s.csr THEN Rest(s) ELSE D!Asked(s, s.csr)
<1>0. s \in ChRecord
  BY DEF ChOK
<1>1. CASE "BUSY" \in s.csr
  <2>1. D!Started(s) = s
    BY <1>1 DEF D!Started
  <2> QED BY <1>1, <2>1
<1>2. CASE "BUSY" \notin s.csr
  <2>1. PICK b : b = [s EXCEPT !.csr = (s.csr \ {"DONE"}) \cup {"BUSY"}]
    OBVIOUS
  <2>2. b \in ChRecord /\ b.csr = (s.csr \ {"DONE"}) \cup {"BUSY"}
        /\ b.tot = s.tot /\ b.a0 = s.a0 /\ b.a1 = s.a1 /\ b.desc = s.desc
        /\ b.am0 = s.am0 /\ b.am1 = s.am1 /\ b.nd = s.nd
    <3>1. (s.csr \ {"DONE"}) \cup {"BUSY"} \in SUBSET Flags
      BY <1>0 DEF ChRecord, Flags
    <3> HIDE DEF Flags
    <3> QED BY <1>0, <2>1, <3>1 DEF ChRecord
  <2>3. CASE "USE_ED" \in s.csr
    <3>1. PICK l : l = D!dma_load_descriptor(b)
      OBVIOUS
    <3>2. D!Started(s) = D!dma_init_transfer(l)
      BY <1>2, <2>1, <2>3, <3>1 DEF D!Started
    <3>3. l \in ChRecord /\ l.csr = (b.csr \ D!Incs) \cup D!Descriptors[b.desc].inc
      BY <2>2, <3>1, LoadOK
    <3>4. l.nd = s.nd
      BY <2>2, <3>1 DEF D!dma_load_descriptor, ChRecord
    <3>5. D!Descriptors[b.desc].inc \subseteq {"INC_SRC", "INC_DST"}
      BY <2>2, DescriptorFacts DEF ChRecord
    <3>6. PICK t : t = D!dma_init_transfer(l)
      OBVIOUS
    <3>7. ChOK(t) /\ t.csr = l.csr
      BY <3>3, <3>6, InitOK
    <3>8. t.nd = l.nd
      BY <3>3, <3>6 DEF D!dma_init_transfer, ChRecord
    <3>9. "BUSY" \in t.csr /\ \A f \in {"CH_EN", "MODE", "ARS", "USE_ED"} : f \in t.csr <=> f \in s.csr
      BY <2>2, <3>3, <3>5, <3>7 DEF D!Incs
    <3>10. Rest(t) = D!ListWords(b)
      BY <2>2, <3>1, <3>6, LoadRest
    <3>11. D!ListWords(b) = D!ListWords(s)
      BY <2>2, ListSame
    <3>12. D!Asked(s, s.csr) = D!ListWords(s)
      BY <2>3 DEF D!Asked
    <3> QED BY <1>2, <3>2, <3>4, <3>6, <3>7, <3>8, <3>9, <3>10, <3>11, <3>12
  <2>4. CASE "USE_ED" \notin s.csr
    <3>1. PICK l : l = [b EXCEPT !.load_next = FALSE]
      OBVIOUS
    <3>2. D!Started(s) = D!dma_init_transfer(l)
      BY <1>2, <2>1, <2>4, <3>1 DEF D!Started
    <3>3. /\ l \in ChRecord /\ l.csr = b.csr /\ l.load_next = FALSE /\ l.nd = s.nd
          /\ l.tot = s.tot /\ l.a0 = s.a0 /\ l.a1 = s.a1 /\ l.am0 = s.am0 /\ l.am1 = s.am1
      BY <2>2, <3>1 DEF ChRecord
    <3>6. PICK t : t = D!dma_init_transfer(l)
      OBVIOUS
    <3>7. ChOK(t) /\ t.csr = l.csr
      BY <3>3, <3>6, InitOK
    <3>8. t.nd = l.nd
      BY <3>3, <3>6 DEF D!dma_init_transfer, ChRecord
    <3>9. "BUSY" \in t.csr /\ \A f \in {"CH_EN", "MODE", "ARS", "USE_ED"} : f \in t.csr <=> f \in s.csr
      BY <2>2, <3>3, <3>7
    <3>10. PICK m0 \in AllMasks : m0 = IF "INC_SRC" \in s.csr THEN s.am0 ELSE 0
      BY <1>0, MaskFacts DEF ChRecord
    <3>11. PICK m1 \in AllMasks : m1 = IF "INC_DST" \in s.csr THEN s.am1 ELSE 0
      BY <1>0, MaskFacts DEF ChRecord
    <3>12. PICK x : x = D!Words(s.tot, s.a0, m0, s.a1, m1)
      OBVIOUS
    <3>13. x \in Seq(Pairs)
      BY <1>0, <3>12, WordsType DEF ChRecord
    <3>14. Rest(t) = x \o <<>>
      <4>1. /\ m0 = IF "INC_SRC" \in l.csr THEN l.am0 ELSE 0
            /\ m1 = IF "INC_DST" \in l.csr THEN l.am1 ELSE 0
        BY <2>2, <3>3, <3>10, <3>11
      <4>2. D!Words(l.tot, l.a0, IF "INC_SRC" \in l.csr THEN l.am0 ELSE 0,
                    l.a1, IF "INC_DST" \in l.csr THEN l.am1 ELSE 0) = x
        BY <3>3, <3>12, <4>1
      <4> QED BY <3>3, <3>6, <4>2, InitRest
    <3>15. x \o <<>> = x
      BY <3>13, ConcatEmptySeq
    <3>16. D!Asked(s, s.csr) = x
      BY <2>4, <3>10, <3>11, <3>12 DEF D!Asked
    <3> QED BY <1>2, <3>2, <3>3, <3>6, <3>7, <3>8, <3>9, <3>14, <3>15, <3>16
  <2> QED BY <2>3, <2>4
<1> QED BY <1>1, <1>2

(* A word that is moved was the first of those to move.                    *)
LEMMA MovedOK ==
  ASSUME DmaSizes, NEW t, ChOK(t), "BUSY" \in t.csr
  PROVE  LET w == D!Moved(t)
         IN  /\ w \in ChRecord /\ w.csr = t.csr /\ w.load_next = t.load_next
             /\ w.words <= w.total /\ w.nd = t.nd
             /\ <<t.source, t.destination>> \in Pairs
             /\ Rest(w) \in Seq(Pairs)
             /\ Rest(t) = <<<<t.source, t.destination>>>> \o Rest(w)
<1>0. t \in ChRecord /\ t.words < t.total
  BY DEF ChOK
<1>1. PICK w : w = D!Moved(t)
  OBVIOUS
<1>2. /\ t.source \in Addresses /\ t.smask \in AllMasks /\ t.destination \in Addresses
      /\ t.dmask \in AllMasks /\ t.words \in Nat /\ t.total \in Nat
  BY <1>0 DEF ChRecord
<1>3. PICK b0 \in Addresses : b0 = D!masked_increase(t.source, t.smask)
  BY <1>2, MaskFacts, IncreaseRange DEF Addresses, DmaSizes
<1>4. PICK b1 \in Addresses : b1 = D!masked_increase(t.destination, t.dmask)
  BY <1>2, MaskFacts, IncreaseRange DEF Addresses, DmaSizes
<1>5. w = [t EXCEPT !.source = b0, !.destination = b1, !.words = t.words + 1]
  BY <1>1, <1>3, <1>4 DEF D!Moved
<1>6. w \in ChRecord
  <2>1. t.words + 1 \in Nat
    BY <1>2
  <2> QED BY <1>0, <1>5, <2>1 DEF ChRecord
<1>7. /\ w.csr = t.csr /\ w.load_next = t.load_next /\ w.nd = t.nd /\ w.desc = t.desc
      /\ w.am0 = t.am0 /\ w.am1 = t.am1 /\ w.source = b0 /\ w.destination = b1
      /\ w.smask = t.smask /\ w.dmask = t.dmask /\ w.total = t.total /\ w.words = t.words + 1
  BY <1>0, <1>5 DEF ChRecord
<1>8. w.words <= w.total
  BY <1>0, <1>2, <1>7
<1>9. PICK e : e = <<t.source, t.destination>> /\ e \in Pairs
  <2>1. t.source \in Int /\ t.destination \in Int
    BY <1>2, MaskFacts
  <2>2. <<t.source, t.destination>> \in Pairs
    BY <2>1 DEF Pairs
  <2> QED BY <2>2
<1>10. PICK n \in Nat : n = t.total - t.words /\ n > 0 /\ n - 1 = w.total - w.words /\ n - 1 \in Nat
  BY <1>0, <1>2, <1>7
<1>11. PICK x : x = D!Words(n - 1, b0, t.smask, b1, t.dmask)
  OBVIOUS
<1>12. x \in Seq(Pairs)
  BY <1>2, <1>10, <1>11, WordsType
<1>13. PICK y : y = IF t.load_next THEN D!ListWords(t) ELSE <<>>
  OBVIOUS
<1>14. y \in Seq(Pairs)
  <2>1. D!ListWords(t) \in Seq(Pairs)
    BY <1>0, ListIs
  <2>2. <<>> \in Seq(Pairs)
    OBVIOUS
  <2> QED BY <1>13, <2>1, <2>2
<1>15. Rest(w) = x \o y
  <2>1. D!ListWords(w) = D!ListWords(t)
    BY <1>7, ListSame
  <2> QED BY <1>7, <1>10, <1>11, <1>13, <2>1 DEF Rest
<1>16. D!Words(n, t.source, t.smask, t.destination, t.dmask) = <<e>> \o x
  <2>1. PICK a0 \in Nat, m0 \in Nat, a1 \in Nat, m1 \in Nat :
          a0 = t.source /\ m0 = t.smask /\ a1 = t.destination /\ m1 = t.dmask
    BY <1>2, MaskFacts
  <2>2. FirstOf(n, a0, m0, a1, m1)
    BY <1>10, WordsFirst
  <2> QED BY <1>3, <1>4, <1>9, <1>11, <2>1, <2>2 DEF FirstOf
<1>17. Rest(t) = (<<e>> \o x) \o y
  BY <1>10, <1>13, <1>16 DEF Rest
<1>18. (<<e>> \o x) \o y = <<e>> \o (x \o y)
  <2>1. <<e>> \in Seq(Pairs)
    BY <1>9
  <2> QED BY <1>12, <1>14, <2>1, ConcatAssociative
<1>19. x \o y \in Seq(Pairs)
  BY <1>12, <1>14, ConcatProperties
<1> QED BY <1>1, <1>6, <1>7, <1>8, <1>9, <1>15, <1>17, <1>18, <1>19

-----------------------------------------------------------------------------
(* The invariant of the DMA controller.                                    *)

(* A transfer that was restarted is set up, and has no next descriptor.    *)
Parked(s) == "CH_EN" \in s.csr /\ "BUSY" \in s.csr /\ s.words = 0 /\ ~ s.load_next

ChannelsOK ==
  /\ chan \in [D!Channels -> ChRecord]
  /\ \A c \in D!Channels : ChOK(chan[c])
  /\ dma_jobs \in [D!Channels -> Int] /\ D!JobsExact
  /\ parked \subseteq D!Channels /\ \A c \in parked : Parked(chan[c])

IrqOK ==
  /\ int_src_a \subseteq D!Channels /\ int_msk_a \subseteq D!Channels /\ dma_line \in BOOLEAN
  /\ D!OwedIsActive

(* What channel 1 has moved, and what it has still to move, is what it was *)
(* started for.                                                            *)
CopyOK(s, p, l, w) ==
  /\ "MODE" \notin s.csr /\ l \in Seq(Pairs) /\ w \in Seq(Pairs)
  /\ "BUSY" \notin s.csr /\ "CH_EN" \notin s.csr => l = w
  /\ "BUSY" \notin s.csr /\ "CH_EN" \in s.csr => l = <<>> /\ w = D!Asked(s, s.csr)
  /\ "BUSY" \in s.csr /\ 1 \notin p => w = l \o Rest(s)
  /\ 1 \in p => l = w

CopyInv ==
  /\ dma_observed \in {"copy", "irq"}
  /\ dma_observed = "copy" => "CH_EN" \notin chan[2].csr /\ CopyOK(chan[1], parked, copied, want)

DmaInv == ChannelsOK /\ IrqOK /\ CopyInv

-----------------------------------------------------------------------------
(* One channel takes a step.                                               *)
LEMMA ChannelStep ==
  ASSUME ChannelsOK, NEW c \in D!Channels, NEW s, ChOK(s), chan' = [chan EXCEPT ![c] = s],
         NEW j \in Int, dma_jobs' = [dma_jobs EXCEPT ![c] = j],
         j = IF "CH_EN" \in s.csr /\ c \notin parked' THEN 1 ELSE 0,
         parked' \subseteq D!Channels, \A d \in D!Channels : d # c => (d \in parked' <=> d \in parked),
         c \in parked' => Parked(s)
  PROVE  ChannelsOK'
<1>0. s \in ChRecord
  BY DEF ChOK
<1>1. /\ chan' \in [D!Channels -> ChRecord] /\ chan'[c] = s
      /\ \A d \in D!Channels : d # c => chan'[d] = chan[d]
  BY <1>0 DEF ChannelsOK
<1>2. /\ dma_jobs' \in [D!Channels -> Int] /\ dma_jobs'[c] = j
      /\ \A d \in D!Channels : d # c => dma_jobs'[d] = dma_jobs[d]
  BY DEF ChannelsOK
<1>3. ASSUME NEW d \in D!Channels
      PROVE  /\ ChOK(chan'[d])
             /\ dma_jobs'[d] = IF "CH_EN" \in chan'[d].csr /\ d \notin parked' THEN 1 ELSE 0
             /\ d \in parked' => Parked(chan'[d])
  <2>1. CASE d = c
    BY <1>1, <1>2, <2>1
  <2>2. CASE d # c
    BY <1>1, <1>2, <2>2 DEF ChannelsOK, D!JobsExact
  <2> QED BY <2>1, <2>2
<1>4. \A d \in D!Channels : ChOK(chan'[d])
  BY <1>3
<1>5. D!JobsExact'
  BY <1>3 DEF D!JobsExact
<1>6. \A d \in parked' : Parked(chan'[d])
  BY <1>3
<1>7. ChannelsOK' <=> /\ chan' \in [D!Channels -> ChRecord]
                      /\ \A d \in D!Channels : ChOK(chan'[d])
                      /\ dma_jobs' \in [D!Channels -> Int] /\ D!JobsExact'
                      /\ parked' \subseteq D!Channels /\ \A d \in parked' : Parked(chan'[d])
  BY DEF ChannelsOK
<1> QED BY <1>1, <1>2, <1>4, <1>5, <1>6, <1>7

(* An interrupt is recorded and holds the line.                            *)
LEMMA InterruptOK ==
  ASSUME IrqOK, NEW c \in D!Channels, NEW asked, D!Interrupt(c, asked), int_msk_a' = int_msk_a
  PROVE  IrqOK'
<1>1. CASE asked /\ c \in int_msk_a
  <2>1. int_src_a' = {c} /\ dma_line' = TRUE /\ dma_owed' = dma_owed \cup {c}
    BY <1>1 DEF D!Interrupt
  <2> QED BY <2>1 DEF IrqOK, D!OwedIsActive, D!Channels
<1>2. CASE ~ (asked /\ c \in int_msk_a)
  <2>1. int_src_a' = int_src_a /\ dma_line' = dma_line /\ dma_owed' = dma_owed
    BY <1>2 DEF D!Interrupt, D!irq
  <2> QED BY <2>1 DEF IrqOK, D!OwedIsActive, D!Channels
<1> QED BY <1>1, <1>2

(* The part about interrupts when they are left alone.                     *)
LEMMA IrqSame ==
  ASSUME IrqOK, UNCHANGED D!irq, int_msk_a' = int_msk_a
  PROVE  IrqOK'
BY DEF IrqOK, D!irq, D!OwedIsActive, D!Channels

(* A channel that is idle has nothing left to move.                        *)
LEMMA IdleOK ==
  ASSUME DmaSizes, NEW s \in ChRecord, NEW csr \in SUBSET Flags, "BUSY" \notin csr
  PROVE  ChOK(D!Idle(s, csr)) /\ D!Idle(s, csr).csr = csr
<1>1. PICK l : l = D!Idle(s, csr)
  OBVIOUS
<1>2. l = [s EXCEPT !.csr = csr, !.load_next = FALSE, !.source = 0, !.destination = 0,
                    !.smask = 0, !.dmask = 0, !.total = 0, !.words = 0]
  BY <1>1 DEF D!Idle
<1>3. 0 \in AllMasks /\ 0 \in Addresses
  BY MaskFacts
<1> HIDE DEF Flags
<1>4. l \in ChRecord
  BY <1>2, <1>3 DEF ChRecord
<1>5. l.csr = csr /\ l.words = 0 /\ l.total = 0
  BY <1>2 DEF ChRecord
<1> QED BY <1>1, <1>4, <1>5 DEF ChOK

(* A channel that ends, starts again or goes on with its list.  What is    *)
(* known of it before:                                                     *)
Ending(c, w) ==
  /\ w \in ChRecord /\ w.words <= w.total /\ "BUSY" \in w.csr /\ "CH_EN" \in w.csr
  /\ c \notin parked /\ dma_jobs[c] = 1

(* The three ways.                                                         *)
GoesOn(c, w) ==
  /\ w.load_next /\ parked' = parked /\ UNCHANGED D!irq
  /\ chan' = [chan EXCEPT ![c] = D!dma_init_transfer(D!dma_load_descriptor(w))]
  /\ dma_jobs' = [dma_jobs EXCEPT ![c] = 1]
Restarts(c, w) ==
  /\ ~ w.load_next /\ parked' = parked \cup {c} /\ UNCHANGED D!irq
  /\ chan' = [chan EXCEPT ![c] = D!dma_init_transfer(w)]
  /\ dma_jobs' = [dma_jobs EXCEPT ![c] = 0]
Ends(c, w) ==
  /\ ~ w.load_next /\ parked' = parked
  /\ chan' = [chan EXCEPT ![c] = D!Idle(w, (w.csr \ {"CH_EN", "BUSY"}) \cup {"DONE"})]
  /\ dma_jobs' = [dma_jobs EXCEPT ![c] = 0]
  /\ \E asked : D!Interrupt(c, asked)

(* dma_channel_terminate_transfer goes one of the three ways.              *)
LEMMA TerminateWays ==
  ASSUME ChannelsOK, NEW c \in D!Channels, NEW w, Ending(c, w), NEW g,
         D!dma_channel_terminate_transfer(c, w, g)
  PROVE  GoesOn(c, w) \/ Restarts(c, w) \/ Ends(c, w)
<1>1. dma_jobs[c] = 1 /\ dma_jobs = [dma_jobs EXCEPT ![c] = 1]
  BY DEF Ending, ChannelsOK
<1>2. dma_jobs[c] - 1 = 0
  BY <1>1
<1>3. CASE w.load_next
  BY <1>1, <1>3 DEF D!dma_channel_terminate_transfer, GoesOn, D!irq
<1>4. CASE ~ w.load_next /\ "ARS" \in w.csr
  BY <1>2, <1>4 DEF D!dma_channel_terminate_transfer, Restarts, D!irq
<1>5. CASE ~ w.load_next /\ "ARS" \notin w.csr
  BY <1>2, <1>5 DEF D!dma_channel_terminate_transfer, Ends
<1> QED BY <1>3, <1>4, <1>5

(* A channel that goes on has the rest of its list to move.                *)
LEMMA GoesOnFacts ==
  ASSUME DmaSizes, NEW w \in ChRecord
  PROVE  LET s == D!dma_init_transfer(D!dma_load_descriptor(w))
         IN  /\ ChOK(s) /\ Rest(s) = D!ListWords(w)
             /\ \A f \in {"CH_EN", "MODE", "BUSY"} : f \in s.csr <=> f \in w.csr
<1>1. PICK l : l = D!dma_load_descriptor(w)
  OBVIOUS
<1>2. PICK s : s = D!dma_init_transfer(l)
  OBVIOUS
<1>3. l \in ChRecord /\ l.csr = (w.csr \ D!Incs) \cup D!Descriptors[w.desc].inc
  BY <1>1, LoadOK
<1>4. D!Descriptors[w.desc].inc \subseteq {"INC_SRC", "INC_DST"}
  BY DescriptorFacts DEF ChRecord
<1>5. ChOK(s) /\ s.csr = l.csr
  BY <1>2, <1>3, InitOK
<1>6. \A f \in {"CH_EN", "MODE", "BUSY"} : f \in s.csr <=> f \in w.csr
  BY <1>3, <1>4, <1>5 DEF D!Incs
<1>7. Rest(s) = D!ListWords(w)
  BY <1>1, <1>2, LoadRest
<1> QED BY <1>1, <1>2, <1>5, <1>6, <1>7

(* Each way keeps the channels, their jobs and the interrupts.             *)
LEMMA TerminateOK ==
  ASSUME DmaSizes, ChannelsOK, IrqOK, NEW c \in D!Channels, NEW w, Ending(c, w), NEW g,
         D!dma_channel_terminate_transfer(c, w, g), int_msk_a' = int_msk_a
  PROVE  ChannelsOK' /\ IrqOK' /\ \A d \in D!Channels : d # c => chan'[d] = chan[d]
<1>0. w \in ChRecord /\ "CH_EN" \in w.csr /\ "BUSY" \in w.csr /\ c \notin parked
  BY DEF Ending
<1>1. CASE GoesOn(c, w)
  <2>1. PICK s : s = D!dma_init_transfer(D!dma_load_descriptor(w))
    OBVIOUS
  <2>2. ChOK(s) /\ "CH_EN" \in s.csr
    BY <1>0, <2>1, GoesOnFacts
  <2>3. chan' = [chan EXCEPT ![c] = s] /\ dma_jobs' = [dma_jobs EXCEPT ![c] = 1] /\ parked' = parked
    BY <1>1, <2>1 DEF GoesOn
  <2>4. PICK j \in Int : j = 1
    OBVIOUS
  <2>5. ChannelsOK'
    BY <1>0, <2>2, <2>3, <2>4, ChannelStep DEF ChannelsOK
  <2>6. IrqOK'
    BY <1>1, IrqSame DEF GoesOn
  <2> QED BY <2>3, <2>5, <2>6 DEF ChannelsOK
<1>2. CASE Restarts(c, w)
  <2>1. PICK s : s = D!dma_init_transfer(w)
    OBVIOUS
  <2>2. ChOK(s) /\ s.csr = w.csr /\ s.words = 0 /\ s.load_next = w.load_next
    BY <1>0, <2>1, InitOK
  <2>3. /\ chan' = [chan EXCEPT ![c] = s] /\ dma_jobs' = [dma_jobs EXCEPT ![c] = 0]
        /\ parked' = parked \cup {c} /\ ~ w.load_next
    BY <1>2, <2>1 DEF Restarts
  <2>4. PICK j \in Int : j = 0
    OBVIOUS
  <2>5. Parked(s)
    BY <1>0, <2>2, <2>3 DEF Parked
  <2>6. ChannelsOK'
    <3>1. parked' \subseteq D!Channels /\ c \in parked'
      BY <2>3 DEF ChannelsOK
    <3>2. \A d \in D!Channels : d # c => (d \in parked' <=> d \in parked)
      BY <2>3
    <3> QED BY <2>2, <2>3, <2>4, <2>5, <3>1, <3>2, ChannelStep
  <2>7. IrqOK'
    BY <1>2, IrqSame DEF Restarts
  <2> QED BY <2>3, <2>6, <2>7 DEF ChannelsOK
<1>3. CASE Ends(c, w)
  <2>0. PICK csr : csr = (w.csr \ {"CH_EN", "BUSY"}) \cup {"DONE"}
    OBVIOUS
  <2>1. PICK s : s = D!Idle(w, csr)
    OBVIOUS
  <2>2. csr \in SUBSET Flags /\ "BUSY" \notin csr /\ "CH_EN" \notin csr
    BY <1>0, <2>0 DEF ChRecord, Flags
  <2>3. ChOK(s) /\ s.csr = csr
    BY <1>0, <2>1, <2>2, IdleOK
  <2>4. chan' = [chan EXCEPT ![c] = s] /\ dma_jobs' = [dma_jobs EXCEPT ![c] = 0] /\ parked' = parked
    BY <1>3, <2>0, <2>1 DEF Ends
  <2>5. PICK j \in Int : j = 0
    OBVIOUS
  <2>6. ChannelsOK'
    BY <1>0, <2>2, <2>3, <2>4, <2>5, ChannelStep DEF ChannelsOK
  <2>7. IrqOK'
    BY <1>3, InterruptOK DEF Ends
  <2> QED BY <2>4, <2>6, <2>7 DEF ChannelsOK
<1> QED BY <1>1, <1>2, <1>3, TerminateWays

(* A transfer that has moved all its words ends when it was to.            *)
LEMMA TerminateCopy ==
  ASSUME DmaSizes, ChannelsOK, NEW w, Ending(1, w), NEW g, D!dma_channel_terminate_transfer(1, w, g),
         w.words = w.total, "MODE" \notin w.csr, NEW l \in Seq(Pairs), NEW x \in Seq(Pairs),
         x = l \o Rest(w)
  PROVE  CopyOK(chan'[1], parked', l, x)
<1>0. w \in ChRecord /\ "CH_EN" \in w.csr /\ "BUSY" \in w.csr /\ 1 \notin parked /\ 1 \in D!Channels
      /\ w.load_next \in BOOLEAN
  BY DEF Ending, D!Channels, ChRecord
<1>1. chan \in [D!Channels -> ChRecord]
  BY DEF ChannelsOK
<1>2. D!Words(w.total - w.words, w.source, w.smask, w.destination, w.dmask) = <<>>
  <2>1. PICK a0 \in Nat, m0 \in Nat, a1 \in Nat, m1 \in Nat :
          a0 = w.source /\ m0 = w.smask /\ a1 = w.destination /\ m1 = w.dmask
    BY <1>0, MaskFacts DEF ChRecord
  <2>2. D!Words(0, a0, m0, a1, m1) = <<>>
    BY NoWords
  <2>3. w.total - w.words = 0
    BY <1>0 DEF ChRecord
  <2> QED BY <2>1, <2>2, <2>3
<1>3. w.load_next => x = l \o D!ListWords(w)
  <2>1. D!ListWords(w) \in Seq(Pairs)
    BY <1>0, ListIs
  <2>2. <<>> \o D!ListWords(w) = D!ListWords(w)
    BY <2>1, ConcatEmptySeq
  <2> QED BY <1>2, <2>2 DEF Rest
<1>4. ~ w.load_next => x = l
  <2>1. <<>> \o <<>> = <<>> /\ l \o <<>> = l
    BY ConcatEmptySeq, EmptySeq
  <2> QED BY <1>2, <2>1 DEF Rest
<1>5. CASE GoesOn(1, w)
  <2>1. PICK s : s = D!dma_init_transfer(D!dma_load_descriptor(w))
    OBVIOUS
  <2>2. /\ Rest(s) = D!ListWords(w)
        /\ "CH_EN" \in s.csr /\ "MODE" \notin s.csr /\ "BUSY" \in s.csr
    BY <1>0, <2>1, GoesOnFacts
  <2>3. chan'[1] = s /\ parked' = parked /\ w.load_next
    BY <1>0, <1>1, <1>5, <2>1 DEF GoesOn
  <2> QED BY <1>0, <1>3, <2>2, <2>3 DEF CopyOK
<1>6. CASE Restarts(1, w)
  <2>1. PICK s : s = D!dma_init_transfer(w)
    OBVIOUS
  <2>2. s.csr = w.csr
    BY <1>0, <2>1, InitOK
  <2>3. chan'[1] = s /\ 1 \in parked' /\ ~ w.load_next
    BY <1>0, <1>1, <1>6, <2>1 DEF Restarts
  <2> QED BY <1>0, <1>4, <2>2, <2>3 DEF CopyOK
<1>7. CASE Ends(1, w)
  <2>0. PICK csr : csr = (w.csr \ {"CH_EN", "BUSY"}) \cup {"DONE"}
    OBVIOUS
  <2>1. PICK s : s = D!Idle(w, csr)
    OBVIOUS
  <2>2. csr \in SUBSET Flags /\ "BUSY" \notin csr /\ "CH_EN" \notin csr /\ "MODE" \notin csr
    BY <1>0, <2>0 DEF ChRecord, Flags
  <2>3. s.csr = csr
    BY <1>0, <2>1, <2>2, IdleOK
  <2>4. chan'[1] = s /\ parked' = parked /\ ~ w.load_next
    BY <1>0, <1>1, <1>7, <2>0, <2>1 DEF Ends
  <2> QED BY <1>0, <1>4, <2>2, <2>3, <2>4 DEF CopyOK
<1> QED BY <1>0, <1>5, <1>6, <1>7, TerminateWays

(* A queued channel is enabled.                                            *)
LEMMA QueuedFacts ==
  ASSUME ChannelsOK, NEW c \in D!Channels, dma_jobs[c] > 0
  PROVE  dma_jobs[c] = 1 /\ "CH_EN" \in chan[c].csr /\ c \notin parked /\ ChOK(chan[c])
BY DEF ChannelsOK, D!JobsExact

(* A channel that is stopped keeps the invariant.                          *)
LEMMA AbortOK ==
  ASSUME DmaSizes, DmaInv, NEW c \in D!Channels, dma_jobs[c] > 0, D!Abort(c),
         UNCHANGED <<int_msk_a, dma_observed>>
  PROVE  DmaInv'
<1>1. dma_jobs[c] = 1 /\ "CH_EN" \in chan[c].csr /\ c \notin parked /\ chan[c] \in ChRecord
  BY QueuedFacts DEF DmaInv, ChOK
<1>2. PICK csr : csr = chan[c].csr \ {"CH_EN", "BUSY"}
  OBVIOUS
<1>3. PICK s : s = D!Idle(chan[c], csr)
  OBVIOUS
<1>4. csr \in SUBSET Flags /\ "BUSY" \notin csr /\ "CH_EN" \notin csr
  BY <1>1, <1>2 DEF ChRecord
<1>5. ChOK(s) /\ s.csr = csr
  BY <1>1, <1>3, <1>4, IdleOK
<1>6. /\ chan' = [chan EXCEPT ![c] = s] /\ dma_jobs' = [dma_jobs EXCEPT ![c] = dma_jobs[c] - 1]
      /\ parked' = parked /\ copied' = copied /\ want' = copied
      /\ \E asked : D!Interrupt(c, asked)
  BY <1>2, <1>3 DEF D!Abort
<1>7. PICK j \in Int : j = 0 /\ j = dma_jobs[c] - 1
  BY <1>1
<1>8. ChannelsOK'
  BY <1>1, <1>4, <1>5, <1>6, <1>7, ChannelStep DEF ChannelsOK, DmaInv
<1>9. IrqOK'
  BY <1>6, InterruptOK DEF DmaInv
<1>10. CopyInv'
  <2> SUFFICES ASSUME dma_observed = "copy"
               PROVE  "CH_EN" \notin chan'[2].csr /\ CopyOK(chan'[1], parked', copied', want')
    BY DEF CopyInv, DmaInv
  <2>1. c # 2 /\ c = 1
    BY <1>1 DEF CopyInv, DmaInv, D!Channels
  <2>2. chan'[1] = s /\ chan'[2] = chan[2]
    BY <1>6, <2>1 DEF DmaInv, ChannelsOK, D!Channels
  <2>3. CopyOK(chan[1], parked, copied, want) /\ "CH_EN" \notin chan[2].csr
    BY DEF CopyInv, DmaInv
  <2>4. CopyOK(s, parked, copied, copied)
    BY <1>1, <1>2, <1>4, <1>5, <2>1, <2>3 DEF CopyOK
  <2> QED BY <1>6, <2>2, <2>3, <2>4
<1> QED BY <1>8, <1>9, <1>10 DEF DmaInv

(* A clock that moves a word keeps the invariant.                          *)
LEMMA TransferOK ==
  ASSUME DmaSizes, DmaInv, NEW c \in D!Channels, dma_jobs[c] > 0, D!Transfer(c),
         UNCHANGED <<int_msk_a, dma_observed>>
  PROVE  DmaInv'
<1>0. /\ dma_jobs[c] = 1 /\ "CH_EN" \in chan[c].csr /\ c \notin parked /\ ChOK(chan[c])
      /\ ChannelsOK /\ IrqOK /\ CopyInv
  BY QueuedFacts DEF DmaInv
<1>1. PICK t : t = D!Started(chan[c])
  OBVIOUS
<1>2. /\ ChOK(t) /\ "BUSY" \in t.csr /\ "CH_EN" \in t.csr /\ ("MODE" \in t.csr <=> "MODE" \in chan[c].csr)
      /\ Rest(t) = IF "BUSY" \in chan[c].csr THEN Rest(chan[c]) ELSE D!Asked(chan[c], chan[c].csr)
  BY <1>0, <1>1, StartedOK
<1>3. PICK w : w = D!Moved(t)
  OBVIOUS
<1>4. PICK e : e = <<t.source, t.destination>>
  OBVIOUS
<1>5. /\ w \in ChRecord /\ w.csr = t.csr /\ w.words <= w.total /\ e \in Pairs
      /\ Rest(w) \in Seq(Pairs) /\ Rest(t) = <<e>> \o Rest(w)
  BY <1>2, <1>3, <1>4, MovedOK
<1>6. PICK skip \in BOOLEAN : skip = ("BUSY" \notin chan[c].csr /\ D!Next_descriptor(t))
  OBVIOUS
<1>7. /\ want' = want
      /\ copied' = IF dma_observed = "copy" /\ ~skip THEN Append(copied, e) ELSE copied
      /\ \/ skip /\ D!dma_channel_terminate_transfer(c, t, FALSE)
         \/ ~skip /\ D!Next_descriptor(w) /\ D!dma_channel_terminate_transfer(c, w, FALSE)
         \/ ~skip /\ w.words >= w.total /\ D!dma_channel_terminate_transfer(c, w, TRUE)
         \/ ~skip /\ w.words < w.total /\ chan' = [chan EXCEPT ![c] = w] /\ UNCHANGED <<dma_jobs, D!irq, parked>>
  <2>1. w.words \in Nat /\ w.total \in Nat
    BY <1>5 DEF ChRecord
  <2>2. ~ (w.words >= w.total) => w.words < w.total
    BY <2>1
  <2>3. /\ want' = want
        /\ copied' = IF dma_observed = "copy" /\ ~skip THEN Append(copied, e) ELSE copied
    BY <1>1, <1>4, <1>6 DEF D!Transfer
  <2>4. CASE skip
    <3>1. D!dma_channel_terminate_transfer(c, t, FALSE)
      BY <1>1, <1>6, <2>4 DEF D!Transfer
    <3> QED BY <2>3, <2>4, <3>1
  <2>5. CASE ~ skip /\ D!Next_descriptor(w)
    <3>1. D!dma_channel_terminate_transfer(c, w, FALSE)
      BY <1>1, <1>3, <1>6, <2>5 DEF D!Transfer
    <3> QED BY <2>3, <2>5, <3>1
  <2>6. CASE ~ skip /\ ~ D!Next_descriptor(w) /\ w.words >= w.total
    <3>1. D!dma_channel_terminate_transfer(c, w, TRUE)
      BY <1>1, <1>3, <1>6, <2>6 DEF D!Transfer
    <3> QED BY <2>3, <2>6, <3>1
  <2>7. CASE ~ skip /\ ~ D!Next_descriptor(w) /\ ~ (w.words >= w.total)
    <3>1. chan' = [chan EXCEPT ![c] = w] /\ UNCHANGED <<dma_jobs, D!irq, parked>>
      BY <1>1, <1>3, <1>6, <2>7 DEF D!Transfer
    <3> QED BY <2>2, <2>3, <2>7, <3>1
  <2> QED BY <2>4, <2>5, <2>6, <2>7
<1>8. Ending(c, t) /\ Ending(c, w)
  BY <1>0, <1>2, <1>5 DEF Ending, ChOK
<1>9. ChannelsOK' /\ IrqOK' /\ \A d \in D!Channels : d # c => chan'[d] = chan[d]
  <2>1. CASE \E v, g : Ending(c, v) /\ D!dma_channel_terminate_transfer(c, v, g)
    BY <1>0, <2>1, TerminateOK
  <2>2. CASE w.words < w.total /\ chan' = [chan EXCEPT ![c] = w] /\ UNCHANGED <<dma_jobs, D!irq, parked>>
    <3>1. ChOK(w) /\ "CH_EN" \in w.csr
      BY <1>2, <1>5, <2>2 DEF ChOK
    <3>2. PICK j \in Int : j = 1 /\ dma_jobs' = [dma_jobs EXCEPT ![c] = j] /\ parked' = parked
      BY <1>0, <2>2 DEF ChannelsOK
    <3>3. ChannelsOK'
      BY <1>0, <2>2, <3>1, <3>2, ChannelStep DEF ChannelsOK
    <3>4. IrqOK'
      BY <1>0, <2>2, IrqSame
    <3> QED BY <1>0, <2>2, <3>3, <3>4 DEF ChannelsOK
  <2> QED BY <1>7, <1>8, <2>1, <2>2
<1>10. CopyInv'
  <2> SUFFICES ASSUME dma_observed = "copy"
               PROVE  "CH_EN" \notin chan'[2].csr /\ CopyOK(chan'[1], parked', copied', want')
    BY <1>0 DEF CopyInv
  <2>1. c = 1 /\ 2 \in D!Channels /\ 1 \in D!Channels
    BY <1>0 DEF CopyInv, D!Channels
  <2>2. CopyOK(chan[1], parked, copied, want) /\ "CH_EN" \notin chan[2].csr
    BY <1>0 DEF CopyInv
  <2>3. "CH_EN" \notin chan'[2].csr
    BY <1>9, <2>1, <2>2
  <2>4. "MODE" \notin t.csr /\ "MODE" \notin w.csr
    BY <1>2, <1>5, <2>1, <2>2 DEF CopyOK
  <2>5. ~ skip /\ ~ D!Next_descriptor(w)
    BY <1>6, <2>4 DEF D!Next_descriptor
  <2>6. copied \in Seq(Pairs) /\ want \in Seq(Pairs)
    BY <2>2 DEF CopyOK
  <2>7. want = copied \o Rest(t)
    <3>1. CASE "BUSY" \in chan[1].csr
      BY <1>0, <1>2, <2>1, <2>2, <3>1 DEF CopyOK
    <3>2. CASE "BUSY" \notin chan[1].csr
      <4>1. copied = <<>> /\ want = Rest(t)
        BY <1>0, <1>2, <2>1, <2>2, <3>2 DEF CopyOK
      <4>2. <<>> \o want = want
        BY <2>6, ConcatEmptySeq
      <4> QED BY <4>1, <4>2
    <3> QED BY <3>1, <3>2
  <2>8. PICK l : l = copied'
    OBVIOUS
  <2>9. l \in Seq(Pairs) /\ want = l \o Rest(w)
    <3>1. l = Append(copied, e)
      BY <1>7, <2>5, <2>8
    <3>2. <<e>> \in Seq(Pairs)
      BY <1>5
    <3>3. l = copied \o <<e>>
      BY <1>5, <2>6, <3>1, AppendIsConcat
    <3>4. l \in Seq(Pairs)
      BY <1>5, <2>6, <3>1, AppendProperties
    <3>5. (copied \o <<e>>) \o Rest(w) = copied \o (<<e>> \o Rest(w))
      BY <1>5, <2>6, <3>2, ConcatAssociative
    <3> QED BY <1>5, <2>7, <3>3, <3>4, <3>5
  <2>10. CASE w.words >= w.total /\ D!dma_channel_terminate_transfer(c, w, TRUE)
    <3>1. w.words = w.total
      BY <1>5, <2>10 DEF ChRecord
    <3>2. CopyOK(chan'[1], parked', l, want)
      BY <1>0, <1>8, <2>1, <2>4, <2>6, <2>9, <2>10, <3>1, TerminateCopy
    <3> QED BY <1>7, <2>3, <2>8, <3>2
  <2>11. CASE chan' = [chan EXCEPT ![c] = w] /\ parked' = parked
    <3>1. chan'[1] = w
      BY <1>0, <2>1, <2>11 DEF ChannelsOK
    <3>2. CopyOK(w, parked, l, want)
      BY <1>0, <1>2, <1>5, <2>1, <2>4, <2>6, <2>9 DEF CopyOK
    <3> QED BY <1>7, <2>3, <2>8, <2>11, <3>1, <3>2
  <2> QED BY <1>7, <2>5, <2>10, <2>11
<1> QED BY <1>9, <1>10 DEF DmaInv

(* The values that programs write to the CSR.                              *)
LEMMA CsrsFacts ==
  ASSUME NEW c \in D!Channels, dma_observed \in {"copy", "irq"}, NEW value \in D!Csrs(c)
  PROVE  /\ value \in SUBSET Flags /\ "BUSY" \notin value /\ "DONE" \notin value
         /\ dma_observed = "copy" => "MODE" \notin value
<1> DEFINE Asks == {"INC_SRC", "INC_DST", "USE_ED", "ARS", "INE", "MODE"}
<1>1. \A m \in D!Modes(c) : m \subseteq Asks /\ (dma_observed = "copy" => "MODE" \notin m)
  <2>1. CASE dma_observed = "copy"
    BY <2>1 DEF D!Modes, D!Incs
  <2>2. CASE dma_observed = "irq" /\ c = 1
    BY <2>2 DEF D!Modes
  <2>3. CASE dma_observed = "irq" /\ c # 1
    BY <2>3 DEF D!Modes
  <2> QED BY <2>1, <2>2, <2>3
<1>2. CASE value = {}
  BY <1>2 DEF Flags
<1>3. CASE value # {}
  <2>1. PICK m \in D!Modes(c) : value = m \cup {"CH_EN"} \/ value = m \cup {"CH_EN", "STOP"}
    BY <1>3 DEF D!Csrs
  <2> QED BY <1>1, <2>1 DEF Flags
<1> QED BY <1>2, <1>3

(* What registers ask for is a sequence of pairs.                          *)
LEMMA AskedType ==
  ASSUME DmaSizes, NEW s, ChOK(s)
  PROVE  D!Asked(s, s.csr) \in Seq(Pairs)
<1>0. s \in ChRecord
  BY DEF ChOK
<1>1. CASE "USE_ED" \in s.csr
  BY <1>0, <1>1, ListIs DEF D!Asked
<1>2. CASE "USE_ED" \notin s.csr
  <2>1. PICK m0 \in AllMasks : m0 = IF "INC_SRC" \in s.csr THEN s.am0 ELSE 0
    BY <1>0, MaskFacts DEF ChRecord
  <2>2. PICK m1 \in AllMasks : m1 = IF "INC_DST" \in s.csr THEN s.am1 ELSE 0
    BY <1>0, MaskFacts DEF ChRecord
  <2>3. D!Words(s.tot, s.a0, m0, s.a1, m1) \in Seq(Pairs)
    BY <1>0, WordsType DEF ChRecord
  <2> QED BY <1>2, <2>1, <2>2, <2>3 DEF D!Asked
<1> QED BY <1>1, <1>2

(* A write of the CSR keeps the invariant.                                 *)
LEMMA WriteCsrOK ==
  ASSUME DmaSizes, DmaInv, NEW c \in D!Channels, dma_observed = "copy" => c = 1,
         NEW value \in D!Csrs(c), D!dma_write_ch_csr(c, value)
  PROVE  DmaInv'
<1>0. ChannelsOK /\ IrqOK /\ CopyInv /\ ChOK(chan[c]) /\ dma_observed \in {"copy", "irq"}
  BY DEF DmaInv, ChannelsOK, CopyInv
<1>1. /\ value \in SUBSET Flags /\ "BUSY" \notin value /\ "DONE" \notin value
      /\ dma_observed = "copy" => "MODE" \notin value
  BY <1>0, CsrsFacts
<1>2. PICK o : o = chan[c]
  OBVIOUS
<1>3. o \in ChRecord /\ ChOK(o)
  BY <1>0, <1>2 DEF ChOK
<1>4. PICK csr : csr = (o.csr \cap D!ReadOnly) \cup value
  OBVIOUS
<1>5. /\ csr \in SUBSET Flags /\ ("BUSY" \in csr <=> "BUSY" \in o.csr)
      /\ \A f \in {"CH_EN", "MODE", "USE_ED", "INC_SRC", "INC_DST"} : f \in csr <=> f \in value
  BY <1>1, <1>3, <1>4 DEF D!ReadOnly, ChRecord, Flags
<1>6. PICK s : s = [o EXCEPT !.csr = csr]
  OBVIOUS
<1>7. s \in ChRecord
  <2> HIDE DEF Flags
  <2> QED BY <1>3, <1>5, <1>6 DEF ChRecord
<1>8. /\ s.csr = csr /\ s.words = o.words /\ s.total = o.total /\ s.load_next = o.load_next
      /\ s.desc = o.desc /\ s.am0 = o.am0 /\ s.am1 = o.am1 /\ s.source = o.source
      /\ s.destination = o.destination /\ s.smask = o.smask /\ s.dmask = o.dmask
      /\ s.tot = o.tot /\ s.a0 = o.a0 /\ s.a1 = o.a1
  BY <1>3, <1>6 DEF ChRecord
<1>9. ChOK(s)
  BY <1>3, <1>5, <1>7, <1>8 DEF ChOK
<1>10. /\ chan' = [chan EXCEPT ![c] = s]
       /\ parked' = IF "CH_EN" \in value THEN parked ELSE parked \ {c}
       /\ D!Expect(c, value) /\ UNCHANGED <<int_msk_a, D!irq, dma_observed>>
  <2>1. chan' = [chan EXCEPT ![c].csr = (chan[c].csr \cap D!ReadOnly) \cup value]
    BY DEF D!dma_write_ch_csr
  <2>2. chan' = [chan EXCEPT ![c] = [chan[c] EXCEPT !.csr = (chan[c].csr \cap D!ReadOnly) \cup value]]
    BY <2>1
  <2> QED BY <1>2, <1>4, <1>6, <2>2 DEF D!dma_write_ch_csr
<1>11. PICK k \in Int : k = dma_jobs[c]
  BY <1>0 DEF ChannelsOK
<1>12. k = IF "CH_EN" \in o.csr /\ c \notin parked THEN 1 ELSE 0
  BY <1>0, <1>2, <1>11 DEF ChannelsOK, D!JobsExact
<1>13. c \in parked => Parked(o)
  BY <1>0, <1>2 DEF ChannelsOK
<1>14. PICK j : /\ dma_jobs' = [dma_jobs EXCEPT ![c] = j]
                /\ j = IF "CH_EN" \notin o.csr /\ "CH_EN" \in value THEN k + 1
                       ELSE IF "CH_EN" \notin value /\ k > 0 THEN k - 1 ELSE k
  BY <1>2, <1>11 DEF D!dma_write_ch_csr
<1>15. j \in Int /\ j = IF "CH_EN" \in s.csr /\ c \notin parked' THEN 1 ELSE 0
  <2>1. CASE "CH_EN" \in value
    <3>1. parked' = parked /\ "CH_EN" \in s.csr
      BY <1>5, <1>8, <1>10, <2>1
    <3>2. CASE "CH_EN" \notin o.csr
      <4>1. c \notin parked /\ k = 0 /\ j = k + 1
        BY <1>12, <1>13, <1>14, <2>1, <3>2 DEF Parked
      <4> QED BY <3>1, <4>1
    <3>3. CASE "CH_EN" \in o.csr
      BY <1>12, <1>14, <2>1, <3>1, <3>3
    <3> QED BY <3>2, <3>3
  <2>2. CASE "CH_EN" \notin value
    <3>1. "CH_EN" \notin s.csr
      BY <1>5, <1>8, <2>2
    <3>2. j = IF k > 0 THEN k - 1 ELSE k
      BY <1>14, <2>2
    <3> QED BY <1>12, <3>1, <3>2
  <2> QED BY <2>1, <2>2
<1>16. c \in parked' => Parked(s)
  <2> SUFFICES ASSUME c \in parked' PROVE Parked(s)
    OBVIOUS
  <2>1. "CH_EN" \in value /\ c \in parked
    BY <1>10
  <2> QED BY <1>5, <1>8, <1>13, <2>1 DEF Parked
<1>17. ChannelsOK'
  <2>1. parked' \subseteq D!Channels /\ \A d \in D!Channels : d # c => (d \in parked' <=> d \in parked)
    BY <1>0, <1>10 DEF ChannelsOK
  <2> QED BY <1>0, <1>9, <1>10, <1>14, <1>15, <1>16, <2>1, ChannelStep
<1>18. IrqOK'
  BY <1>0, <1>10, IrqSame
<1>19. CopyInv'
  <2> SUFFICES ASSUME dma_observed = "copy"
               PROVE  "CH_EN" \notin chan'[2].csr /\ CopyOK(chan'[1], parked', copied', want')
    BY <1>0, <1>10 DEF CopyInv
  <2>1. c = 1 /\ 1 \in D!Channels /\ 2 \in D!Channels
    BY DEF D!Channels
  <2>2. "CH_EN" \notin chan'[2].csr /\ chan'[1] = s
    BY <1>0, <1>10, <2>1 DEF ChannelsOK, CopyInv
  <2>3. CopyOK(o, parked, copied, want)
    BY <1>0, <1>2, <2>1 DEF CopyInv
  <2>4. copied \in Seq(Pairs) /\ want \in Seq(Pairs) /\ "MODE" \notin s.csr
    BY <1>1, <1>5, <1>8, <2>3 DEF CopyOK
  <2>5. D!ListWords(s) = D!ListWords(o)
    BY <1>8, ListSame
  <2>6. Rest(s) = Rest(o)
    BY <1>8, <2>5 DEF Rest
  <2>7. CASE "BUSY" \notin o.csr
    <3>0. 1 \notin parked /\ 1 \notin parked' /\ "BUSY" \notin s.csr
      BY <1>5, <1>8, <1>10, <1>13, <2>1, <2>7 DEF Parked
    <3>1. copied' = <<>> /\ want' = IF "CH_EN" \in value THEN D!Asked(o, value) ELSE <<>>
      BY <1>2, <1>10, <2>1, <2>7, <3>0 DEF D!Expect
    <3>2. copied' \in Seq(Pairs)
      BY <3>1
    <3>3. CASE "CH_EN" \notin value
      BY <1>5, <1>8, <2>2, <2>4, <3>0, <3>1, <3>2, <3>3 DEF CopyOK
    <3>4. CASE "CH_EN" \in value
      <4>1. D!Asked(o, value) = D!Asked(s, s.csr)
        BY <1>5, <1>8, <2>5 DEF D!Asked
      <4>2. D!Asked(s, s.csr) \in Seq(Pairs)
        BY <1>9, AskedType
      <4> QED BY <1>5, <1>8, <2>2, <2>4, <3>0, <3>1, <3>2, <3>4, <4>1, <4>2 DEF CopyOK
    <3> QED BY <3>3, <3>4
  <2>8. CASE "BUSY" \in o.csr /\ c \in parked /\ "CH_EN" \notin value
    <3>1. copied' = <<>> /\ want' = D!Words(o.total, o.source, o.smask, o.destination, o.dmask)
      BY <1>2, <1>10, <2>8 DEF D!Expect
    <3>2. o.words = 0 /\ ~ o.load_next
      BY <1>13, <2>8 DEF Parked
    <3>3. PICK x : x = D!Words(o.total, o.source, o.smask, o.destination, o.dmask)
      OBVIOUS
    <3>4. x \in Seq(Pairs)
      BY <1>3, <3>3, WordsType DEF ChRecord
    <3>5. o.total - o.words = o.total
      BY <1>3, <3>2 DEF ChRecord
    <3>6. Rest(o) = x \o <<>>
      BY <3>2, <3>3, <3>5 DEF Rest
    <3>7. x \o <<>> = x /\ <<>> \o x = x
      BY <3>4, ConcatEmptySeq
    <3>8. want' = <<>> \o Rest(s) /\ copied' \in Seq(Pairs) /\ want' \in Seq(Pairs)
      BY <2>6, <3>1, <3>3, <3>4, <3>6, <3>7
    <3>9. "BUSY" \in s.csr /\ 1 \notin parked'
      BY <1>5, <1>8, <1>10, <2>1, <2>8
    <3> QED BY <2>2, <2>4, <3>1, <3>8, <3>9 DEF CopyOK
  <2>9. CASE "BUSY" \in o.csr /\ ~ (c \in parked /\ "CH_EN" \notin value)
    <3>1. copied' = copied /\ want' = want
      BY <1>2, <1>10, <2>9 DEF D!Expect
    <3>2. "BUSY" \in s.csr
      BY <1>5, <1>8, <2>9
    <3>3. 1 \in parked' <=> 1 \in parked
      BY <1>10, <2>1, <2>9
    <3> QED BY <2>2, <2>3, <2>4, <2>6, <2>9, <3>1, <3>2, <3>3 DEF CopyOK
  <2> QED BY <2>7, <2>8, <2>9
<1> QED BY <1>17, <1>18, <1>19 DEF DmaInv

(* A write of another channel register keeps the invariant.                *)
LEMMA WriteOK ==
  ASSUME DmaSizes, DmaInv, NEW c \in D!Channels, dma_observed = "copy", c = 1,
         NEW n \in Sizes, NEW m \in Masks, D!dma_write_ch(c, D!Setting(chan[c], n, m))
  PROVE  DmaInv'
<1>0. ChannelsOK /\ IrqOK /\ CopyInv /\ ChOK(chan[c])
  BY DEF DmaInv, ChannelsOK
<1>1. PICK o : o = chan[c]
  OBVIOUS
<1>2. o \in ChRecord /\ ChOK(o)
  BY <1>0, <1>1 DEF ChOK
<1>3. PICK s : s = D!Setting(chan[c], n, m)
  OBVIOUS
<1>4. PICK d : /\ d = IF "BUSY" \in o.csr THEN o.desc ELSE n % 2
               /\ s = [o EXCEPT !.tot = n, !.a0 = n, !.a1 = n + 1, !.am0 = m, !.am1 = AddrMod - 1, !.desc = d]
  BY <1>1, <1>3 DEF D!Setting
<1>5. /\ n \in Nat \ {0} /\ n \in Addresses /\ n + 1 \in Addresses /\ m \in AllMasks
      /\ AddrMod - 1 \in AllMasks /\ d \in {0, 1}
  <2>1. n \in Nat /\ n % 2 \in {0, 1}
    BY DEF DmaSizes
  <2>2. d \in {0, 1}
    BY <1>2, <1>4, <2>1 DEF ChRecord
  <2> QED BY <2>2 DEF DmaSizes, Addresses, AllMasks
<1>6. s \in ChRecord
  BY <1>2, <1>4, <1>5 DEF ChRecord
<1>7. /\ s.csr = o.csr /\ s.words = o.words /\ s.total = o.total /\ s.load_next = o.load_next
      /\ s.source = o.source /\ s.destination = o.destination /\ s.smask = o.smask /\ s.dmask = o.dmask
  BY <1>2, <1>4 DEF ChRecord
<1>8. ChOK(s)
  BY <1>2, <1>6, <1>7 DEF ChOK
<1>9. /\ "CH_EN" \notin o.csr /\ chan' = [chan EXCEPT ![c] = s]
      /\ want' = (IF "BUSY" \in s.csr /\ s.load_next
                  THEN SubSeq(want, 1, (Len(copied) + s.total) - s.words) \o D!ListWords(s) ELSE want)
      /\ dma_jobs' = dma_jobs /\ int_msk_a' = int_msk_a /\ UNCHANGED D!irq /\ copied' = copied
      /\ parked' = parked /\ dma_observed' = dma_observed
  BY <1>1, <1>3 DEF D!dma_write_ch
<1>10. c \notin parked
  BY <1>0, <1>1, <1>9 DEF ChannelsOK, Parked
<1>11. PICK j \in Int : j = 0 /\ dma_jobs' = [dma_jobs EXCEPT ![c] = j]
  BY <1>0, <1>1, <1>9 DEF ChannelsOK, D!JobsExact
<1>12. ChannelsOK'
  <2>1. parked' \subseteq D!Channels /\ parked' = parked
    BY <1>0, <1>9 DEF ChannelsOK
  <2>2. j = IF "CH_EN" \in s.csr /\ c \notin parked' THEN 1 ELSE 0
    BY <1>7, <1>9, <1>11
  <2> QED BY <1>0, <1>8, <1>9, <1>10, <1>11, <2>1, <2>2, ChannelStep
<1>13. IrqOK'
  BY <1>0, <1>9, IrqSame
<1>14. CopyInv'
  <2>1. c = 1 /\ 1 \in D!Channels /\ 2 \in D!Channels
    BY <1>3 DEF D!Channels
  <2>2. "CH_EN" \notin chan'[2].csr /\ chan'[1] = s
    BY <1>0, <1>3, <1>9, <2>1 DEF ChannelsOK, CopyInv
  <2>3. CopyOK(o, parked, copied, want)
    BY <1>0, <1>1, <1>3, <2>1 DEF CopyInv
  <2>4. copied \in Seq(Pairs) /\ want \in Seq(Pairs) /\ "MODE" \notin s.csr
    BY <1>7, <2>3 DEF CopyOK
  <2>5. CopyOK(s, parked, copied, want')
    <3>1. CASE "BUSY" \notin s.csr
      BY <1>7, <1>9, <1>10, <2>1, <2>3, <2>4, <3>1 DEF CopyOK
    <3>2. CASE "BUSY" \in s.csr
      <4>1. PICK x : x = D!Words(s.total - s.words, s.source, s.smask, s.destination, s.dmask)
        OBVIOUS
      <4>2. x \in Seq(Pairs) /\ Len(x) = s.total - s.words
        <5>1. s.total - s.words \in Nat
          BY <1>6, <1>8 DEF ChOK, ChRecord
        <5>2. PICK k \in Nat : k = s.total - s.words
          BY <5>1
        <5>3. /\ s.source \in Addresses /\ s.smask \in AllMasks /\ s.destination \in Addresses
              /\ s.dmask \in AllMasks
          BY <1>6 DEF ChRecord
        <5>4. x = D!Words(k, s.source, s.smask, s.destination, s.dmask)
          BY <4>1, <5>2
        <5>5. x \in Seq(Pairs) /\ Len(x) = k
          BY <5>3, <5>4, WordsType
        <5> QED BY <5>2, <5>5
      <4>3. want = copied \o Rest(o)
        BY <1>7, <1>10, <2>1, <2>3, <3>2 DEF CopyOK
      <4>4. CASE s.load_next
        <5>1. PICK y : y = D!ListWords(o) /\ y \in Seq(Pairs)
          BY <1>2, ListIs
        <5>2. PICK z : z = D!ListWords(s) /\ z \in Seq(Pairs)
          BY <1>6, ListIs
        <5>3. Rest(o) = x \o y /\ Rest(s) = x \o z
          BY <1>7, <4>1, <4>4, <5>1, <5>2 DEF Rest
        <5>4. PICK h : h = copied \o x /\ h \in Seq(Pairs) /\ Len(h) = Len(copied) + Len(x)
          BY <2>4, <4>2, ConcatProperties
        <5>5. want = h \o y
          <6>1. (copied \o x) \o y = copied \o (x \o y)
            BY <2>4, <4>2, <5>1, ConcatAssociative
          <6> QED BY <4>3, <5>3, <5>4, <6>1
        <5>6. (Len(copied) + s.total) - s.words = Len(h)
          <6>1. Len(copied) \in Nat /\ s.total \in Nat /\ s.words \in Nat
            BY <1>6, <2>4 DEF ChRecord
          <6> QED BY <4>2, <5>4, <6>1
        <5>7. SubSeq(h \o y, 1, Len(h)) = h
          BY <5>1, <5>4, SubSeqOfConcat1, SubSeqFull
        <5>8. want' = h \o z
          BY <1>9, <3>2, <4>4, <5>2, <5>5, <5>6, <5>7
        <5>9. h \o z \in Seq(Pairs)
          BY <5>2, <5>4, ConcatProperties
        <5>10. h \o z = copied \o (x \o z)
          BY <2>4, <4>2, <5>2, <5>4, ConcatAssociative
        <5> QED BY <1>10, <2>1, <2>4, <3>2, <5>3, <5>8, <5>9, <5>10 DEF CopyOK
      <4>5. CASE ~ s.load_next
        <5>1. Rest(o) = Rest(s)
          BY <1>7, <4>5 DEF Rest
        <5>2. want' = want
          BY <1>9, <4>5
        <5> QED BY <1>10, <2>1, <2>4, <3>2, <4>3, <5>1, <5>2 DEF CopyOK
      <4> QED BY <4>4, <4>5
    <3> QED BY <3>1, <3>2
  <2> QED BY <1>0, <1>9, <2>2, <2>5 DEF CopyInv
<1> QED BY <1>12, <1>13, <1>14 DEF DmaInv

(* A sequence is the beginning of each that goes on from it.               *)
LEMMA PrefixIs ==
  ASSUME NEW S, NEW l \in Seq(S), NEW r \in Seq(S)
  PROVE  SubSeq(l, 1, Len(l)) = l /\ SubSeq(l \o r, 1, Len(l)) = l
<1>1. SubSeq(l, 1, Len(l)) = l
  BY SubSeqFull
<1>2. CASE Len(l) = 0
  <2>1. l = <<>>
    BY <1>2, EmptySeq
  <2>2. SubSeq(l \o r, 1, 0) = <<>>
    BY SubSeqEmpty
  <2> QED BY <1>1, <1>2, <2>1, <2>2
<1>3. CASE Len(l) # 0
  <2>1. PICK n \in 1 .. Len(l) : n = Len(l)
    BY <1>3, LenProperties
  <2>2. PICK o \in 1 .. Len(l) : o = 1
    BY <2>1
  <2>3. SubSeq(l \o r, o, n) = SubSeq(l, o, n)
    BY SubSeqOfConcat1
  <2> QED BY <1>1, <2>1, <2>2, <2>3
<1> QED BY <1>2, <1>3

(* What is left to move is a sequence of pairs.                            *)
LEMMA RestType ==
  ASSUME DmaSizes, NEW s, ChOK(s)
  PROVE  Rest(s) \in Seq(Pairs)
<1>0. s \in ChRecord
  BY DEF ChOK
<1>1. PICK k \in Nat : k = s.total - s.words
  BY <1>0 DEF ChOK, ChRecord
<1>2. PICK x : x = D!Words(k, s.source, s.smask, s.destination, s.dmask)
  OBVIOUS
<1>3. x \in Seq(Pairs)
  BY <1>0, <1>2, WordsType DEF ChRecord
<1>4. PICK y : y = (IF s.load_next THEN D!ListWords(s) ELSE <<>>) /\ y \in Seq(Pairs)
  <2>1. D!ListWords(s) \in Seq(Pairs)
    BY <1>0, ListIs
  <2>2. <<>> \in Seq(Pairs)
    OBVIOUS
  <2> QED BY <2>1, <2>2
<1>5. Rest(s) = x \o y
  BY <1>1, <1>2, <1>4 DEF Rest
<1> QED BY <1>3, <1>4, <1>5, ConcatProperties

(* A channel after a reset is idle.                                        *)
LEMMA ResetOK ==
  ASSUME DmaSizes
  PROVE  ChOK(D!ResetChannel) /\ D!ResetChannel.csr = {}
<1>1. 0 \in AllMasks /\ AddrMod - 1 \in AllMasks /\ 0 \in Addresses
  BY MaskFacts
<1>2. {} \in SUBSET Flags
  OBVIOUS
<1> HIDE DEF Flags
<1>3. D!ResetChannel \in ChRecord
  BY <1>1, <1>2 DEF ChRecord, D!ResetChannel
<1>4. D!ResetChannel.csr = {} /\ D!ResetChannel.words = 0 /\ D!ResetChannel.total = 0
  BY DEF D!ResetChannel
<1> QED BY <1>3, <1>4 DEF ChOK

(* The registers after a reset.                                            *)
AfterReset ==
  /\ chan = [c \in D!Channels |-> D!ResetChannel] /\ dma_jobs = [c \in D!Channels |-> 0]
  /\ int_msk_a = {} /\ int_src_a = {} /\ dma_line = FALSE
  /\ copied = <<>> /\ want = <<>> /\ dma_owed = {} /\ parked = {}
  /\ dma_observed \in {"copy", "irq"}

(* The invariant holds after a reset.                                      *)
LEMMA ResetInv ==
  DmaSizes /\ AfterReset => DmaInv
<1> SUFFICES ASSUME DmaSizes, AfterReset PROVE DmaInv
  OBVIOUS
<1>1. PICK s : s = D!ResetChannel /\ ChOK(s) /\ s.csr = {} /\ s \in ChRecord
  BY ResetOK DEF ChOK
<1>2. chan = [c \in D!Channels |-> s] /\ parked = {} /\ dma_jobs = [c \in D!Channels |-> 0]
  BY <1>1 DEF AfterReset
<1>3. ChannelsOK
  BY <1>1, <1>2 DEF ChannelsOK, D!JobsExact
<1>4. IrqOK
  BY DEF AfterReset, IrqOK, D!OwedIsActive
<1>5. chan[1] = s /\ chan[2] = s
  BY <1>2 DEF D!Channels
<1>6. copied \in Seq(Pairs) /\ want \in Seq(Pairs) /\ copied = want
  BY DEF AfterReset
<1>7. CopyOK(chan[1], parked, copied, want)
  BY <1>1, <1>2, <1>5, <1>6 DEF CopyOK
<1>8. CopyInv
  BY <1>1, <1>5, <1>7 DEF CopyInv, AfterReset
<1> QED BY <1>3, <1>4, <1>8 DEF DmaInv

(* Steps that leave the channels alone.                                    *)
LEMMA SameChannels ==
  ASSUME DmaInv, UNCHANGED <<chan, dma_jobs, copied, want, parked, dma_observed>>
  PROVE  ChannelsOK' /\ CopyInv'
<1>1. ChannelsOK'
  BY DEF DmaInv, ChannelsOK, D!JobsExact
<1>2. CopyInv'
  BY DEF DmaInv, CopyInv
<1> QED BY <1>1, <1>2

(* A device that changes its signals keeps the invariant.                  *)
LEMMA SignalsOK ==
  ASSUME DmaSizes, DmaInv, NEW req \in BOOLEAN, NEW nd \in BOOLEAN, D!set_dma_signals(1, req, nd)
  PROVE  DmaInv'
<1>0. ChannelsOK /\ IrqOK /\ CopyInv /\ 1 \in D!Channels /\ ChOK(chan[1])
  BY DEF DmaInv, ChannelsOK, D!Channels
<1>1. PICK o : o = chan[1] /\ o \in ChRecord
  BY <1>0 DEF ChOK
<1>2. PICK s : s = [o EXCEPT !.req = req, !.nd = nd]
  OBVIOUS
<1>3. s \in ChRecord /\ s.csr = o.csr /\ s.words = o.words /\ s.total = o.total /\ s.load_next = o.load_next
  BY <1>1, <1>2 DEF ChRecord
<1>4. ChOK(s) /\ (Parked(o) => Parked(s))
  BY <1>0, <1>1, <1>3 DEF ChOK, Parked
<1>5. /\ dma_observed = "irq" /\ chan' = [chan EXCEPT ![1] = s] /\ dma_jobs' = dma_jobs
      /\ int_msk_a' = int_msk_a /\ UNCHANGED D!irq /\ parked' = parked /\ dma_observed' = dma_observed
  BY <1>1, <1>2 DEF D!set_dma_signals
<1>6. PICK j \in Int : j = dma_jobs[1] /\ dma_jobs' = [dma_jobs EXCEPT ![1] = j]
  BY <1>0, <1>5 DEF ChannelsOK
<1>7. ChannelsOK'
  <2>1. j = IF "CH_EN" \in s.csr /\ 1 \notin parked' THEN 1 ELSE 0
    BY <1>0, <1>1, <1>3, <1>5, <1>6 DEF ChannelsOK, D!JobsExact
  <2>2. parked' \subseteq D!Channels /\ parked' = parked /\ (1 \in parked => Parked(s))
    BY <1>0, <1>1, <1>4, <1>5 DEF ChannelsOK
  <2> QED BY <1>0, <1>4, <1>5, <1>6, <2>1, <2>2, ChannelStep
<1>8. IrqOK'
  BY <1>0, <1>5, IrqSame
<1>9. CopyInv'
  BY <1>5 DEF CopyInv
<1> QED BY <1>7, <1>8, <1>9 DEF DmaInv

(* Every step keeps the invariant.                                         *)
LEMMA DmaNext ==
  ASSUME DmaSizes, DmaInv, [D!Next]_D!vars
  PROVE  DmaInv'
<1>0. dma_observed \in {"copy", "irq"} /\ IrqOK
  BY DEF DmaInv, CopyInv
<1>1. ASSUME NEW c \in D!Channels, D!dma_channel_clock(c) PROVE DmaInv'
  BY <1>1, AbortOK, TransferOK DEF D!dma_channel_clock
<1>2. ASSUME NEW c \in (IF dma_observed = "copy" THEN {1} ELSE D!Channels),
             NEW value \in D!Csrs(c), D!dma_write_ch_csr(c, value)
      PROVE  DmaInv'
  <2>1. c \in D!Channels /\ (dma_observed = "copy" => c = 1)
    BY DEF D!Channels
  <2> QED BY <1>2, <2>1, WriteCsrOK
<1>3. ASSUME NEW c \in (IF dma_observed = "copy" THEN {1} ELSE D!Channels),
             NEW n \in Sizes, NEW m \in Masks, dma_observed = "copy", D!dma_write_ch(c, D!Setting(chan[c], n, m))
      PROVE  DmaInv'
  <2>1. c \in D!Channels /\ c = 1
    BY <1>3 DEF D!Channels
  <2> QED BY <1>3, <2>1, WriteOK
<1>4. ASSUME NEW mask \in {{}, D!Channels}, D!dma_write_INT_MSK_A(mask) PROVE DmaInv'
  <2>1. /\ UNCHANGED <<chan, dma_jobs, copied, want, parked, dma_observed>>
        /\ UNCHANGED <<int_src_a, dma_line, dma_owed>> /\ int_msk_a' = mask
    BY <1>4 DEF D!dma_write_INT_MSK_A, D!irq
  <2>2. IrqOK'
    BY <1>0, <2>1 DEF IrqOK, D!OwedIsActive, D!Channels
  <2> QED BY <2>1, <2>2, SameChannels DEF DmaInv
<1>5. ASSUME NEW value \in {{2}}, D!dma_write_INT_SRC_A(value) PROVE DmaInv'
  <2>1. /\ UNCHANGED <<chan, dma_jobs, copied, want, parked, dma_observed>>
        /\ int_src_a' = {2} /\ dma_owed' = {} /\ UNCHANGED <<dma_line, int_msk_a>>
    BY <1>5 DEF D!dma_write_INT_SRC_A
  <2>2. IrqOK'
    BY <1>0, <2>1 DEF IrqOK, D!OwedIsActive, D!Channels
  <2> QED BY <2>1, <2>2, SameChannels DEF DmaInv
<1>6. ASSUME D!dma_read_INT_SRC_A PROVE DmaInv'
  <2>1. /\ UNCHANGED <<chan, dma_jobs, copied, want, parked, dma_observed>>
        /\ int_src_a' = {} /\ dma_owed' = {} /\ int_msk_a' = int_msk_a
        /\ dma_line' = (dma_line /\ int_src_a = {})
    BY <1>6 DEF D!dma_read_INT_SRC_A
  <2>2. dma_line' \in BOOLEAN
    BY <2>1
  <2>3. IrqOK'
    BY <1>0, <2>1, <2>2 DEF IrqOK, D!OwedIsActive, D!Channels
  <2> QED BY <2>1, <2>3, SameChannels DEF DmaInv
<1>7. ASSUME NEW req \in BOOLEAN, NEW nd \in BOOLEAN, D!set_dma_signals(1, req, nd) PROVE DmaInv'
  BY <1>7, SignalsOK
<1>8. ASSUME D!dma_reset PROVE DmaInv'
  <2>1. AfterReset'
    BY <1>0, <1>8 DEF D!dma_reset, AfterReset, D!Channels, D!ResetChannel
  <2>2. DmaSizes'
    BY DEF DmaSizes
  <2> QED BY <2>1, <2>2, ResetInv, PTL
<1>9. ASSUME UNCHANGED D!vars PROVE DmaInv'
  <2>1. /\ UNCHANGED <<chan, dma_jobs, copied, want, parked, dma_observed>>
        /\ UNCHANGED D!irq /\ int_msk_a' = int_msk_a
    BY <1>9 DEF D!vars, D!irq
  <2> QED BY <1>0, <2>1, SameChannels, IrqSame DEF DmaInv
<1> QED BY <1>1, <1>2, <1>3, <1>4, <1>5, <1>6, <1>7, <1>8, <1>9
        DEF D!Next, D!Clocks, D!Program, D!Device

(* The invariant always holds.                                             *)
LEMMA DmaInvHolds ==
  ASSUME DmaSizes
  PROVE  D!Spec => []DmaInv
<1>1. D!Init => DmaInv
  <2>1. D!Init => AfterReset
    BY DEF D!Init, AfterReset
  <2> QED BY <2>1, ResetInv
<1>2. DmaInv /\ [D!Next]_D!vars => DmaInv'
  BY DmaNext
<1> QED BY <1>1, <1>2, PTL DEF D!Spec

(* Channels move what they were told to, whatever the program does to the  *)
(* registers and in whatever order: see Dma.                               *)
THEOREM ChannelsAreExact ==
  ASSUME DmaSizes
  PROVE  D!Spec => []D!ChannelsExact
<1>1. DmaInv => D!ChannelsExact
  <2> SUFFICES ASSUME DmaInv PROVE D!ChannelsExact
    OBVIOUS
  <2>0. ChannelsOK /\ IrqOK /\ CopyInv
    BY DEF DmaInv
  <2>1. D!TypeOK
    <3>1. ASSUME NEW c \in D!Channels
          PROVE  /\ chan[c].source \in 0 .. AddrMod - 1 /\ chan[c].destination \in 0 .. AddrMod - 1
                 /\ chan[c].load_next \in BOOLEAN /\ chan[c].words \in 0 .. chan[c].total
                 /\ "BUSY" \in chan[c].csr => chan[c].words < chan[c].total
      <4>1. PICK s : s = chan[c] /\ ChOK(s)
        BY <2>0 DEF ChannelsOK
      <4>2. /\ s.source \in 0 .. AddrMod - 1 /\ s.destination \in 0 .. AddrMod - 1
            /\ s.load_next \in BOOLEAN /\ s.words \in Nat /\ s.total \in Nat
        BY <4>1 DEF ChOK, ChRecord, Addresses
      <4> QED BY <4>1, <4>2 DEF ChOK
    <3> QED BY <2>0, <3>1 DEF D!TypeOK, IrqOK
  <2>2. D!JobsExact
    BY <2>0 DEF ChannelsOK
  <2>3. D!CopyExact
    <3> SUFFICES ASSUME dma_observed = "copy"
                 PROVE  /\ D!IsPrefix(copied, want)
                        /\ "DONE" \in chan[1].csr /\ chan[1].csr \cap {"CH_EN", "BUSY"} = {} => copied = want
                        /\ 1 \in parked => copied = want
      BY DEF D!CopyExact
    <3>1. CopyOK(chan[1], parked, copied, want)
      BY <2>0 DEF CopyInv
    <3>2. copied \in Seq(Pairs) /\ want \in Seq(Pairs)
      BY <3>1 DEF CopyOK
    <3>3. PICK r \in Seq(Pairs) : want = copied \o r
      <4>1. copied \o <<>> = copied /\ <<>> \o want = want /\ <<>> \in Seq(Pairs)
        BY <3>2, ConcatEmptySeq
      <4>2. 1 \in D!Channels
        BY DEF D!Channels
      <4>3. CASE "BUSY" \in chan[1].csr /\ 1 \notin parked
        <5>1. want = copied \o Rest(chan[1])
          BY <3>1, <4>3 DEF CopyOK
        <5>2. Rest(chan[1]) \in Seq(Pairs)
          BY <2>0, <4>2, RestType DEF ChannelsOK
        <5> QED BY <5>1, <5>2
      <4>4. CASE 1 \in parked \/ ("BUSY" \notin chan[1].csr /\ "CH_EN" \notin chan[1].csr)
        BY <3>1, <4>1, <4>4 DEF CopyOK
      <4>5. CASE "BUSY" \notin chan[1].csr /\ "CH_EN" \in chan[1].csr
        <5>1. copied = <<>>
          BY <3>1, <4>5 DEF CopyOK
        <5> QED BY <3>2, <4>1, <5>1
      <4> QED BY <4>3, <4>4, <4>5
    <3>4. Len(copied) \in Nat /\ Len(r) \in Nat /\ Len(want) = Len(copied) + Len(r)
      BY <3>2, <3>3, ConcatProperties, LenProperties
    <3>5. SubSeq(copied, 1, Len(copied)) = copied /\ SubSeq(want, 1, Len(copied)) = copied
      BY <3>2, <3>3, PrefixIs
    <3>6. D!IsPrefix(copied, want)
      BY <3>4, <3>5 DEF D!IsPrefix
    <3> QED BY <3>1, <3>6 DEF CopyOK
  <2> QED BY <2>1, <2>2, <2>3 DEF D!ChannelsExact
<1> QED BY <1>1, DmaInvHolds, PTL

(* An interrupt that the program has not read yet holds the line: see Dma. *)
THEOREM DmaInterruptsHold ==
  ASSUME DmaSizes
  PROVE  D!Spec => []D!OwedIsActive
<1>1. DmaInv => D!OwedIsActive
  BY DEF DmaInv, IrqOK
<1> QED BY <1>1, DmaInvHolds, PTL

-----------------------------------------------------------------------------
(* The memory map.                                                         *)

(* The part of MemMapConstants that is needed.                             *)
MapSizes == NAreas \in Nat \ {0}

(* The remembered area is valid, unless it is the one that a reset found   *)
(* remembered; while the controller is being reset, it is.                 *)
MapInv ==
  /\ mc_at.at \in {"grab", "clear"} => before = cur_area
  /\ before \in {0, cur_area}
  /\ before = 0 /\ cur_area \in M!Areas => area[cur_area].valid

(* The first area of the list that fits is one that does.                  *)
LEMMA SearchFound ==
  ASSUME MapSizes, NEW addr
  PROVE  LET found == {a \in M!Areas : M!Match(a, addr) /\ area[a].valid}
         IN  IF found = {} THEN M!Search(addr) = 0 ELSE M!Search(addr) \in found
<1> DEFINE found == {a \in M!Areas : M!Match(a, addr) /\ area[a].valid}
<1>1. found = {} => M!Search(addr) = 0
  BY DEF M!Search, M!NULL
<1>2. ASSUME found # {} PROVE M!Search(addr) \in found
  <2>1. found \subseteq Nat
    BY DEF M!Areas, MapSizes
  <2>2. IsWellFoundedOn(OpToRel(<, Nat), Nat)
    BY NatLessThanWellFounded
  <2> HIDE DEF found
  <2>3. PICK x \in found : \A y \in found : ~ (<<y, x>> \in OpToRel(<, Nat))
    BY <1>2, <2>1, <2>2, WFMin
  <2>4. \A y \in found : x <= y
    <3>1. \A y \in found : ~ (y < x)
      BY <2>1, <2>3 DEF OpToRel
    <3> QED BY <2>1, <3>1
  <2>5. M!Search(addr) = M!Min(found)
    BY <1>2 DEF M!Search, found
  <2>6. M!Min(found) \in found
    BY <2>4 DEF M!Min
  <2> QED BY <2>5, <2>6
<1> QED BY <1>1, <1>2

(* The invariant holds initially.                                          *)
LEMMA MapInit ==
  ASSUME MapSizes, M!Init
  PROVE  MapInv
BY DEF M!Init, MapInv, M!NULL

(* Every step keeps the invariant.                                         *)
LEMMA MapNext ==
  ASSUME MapSizes, MapInv, [M!Next]_(M!vars)
  PROVE  MapInv'
<1> USE DEF M!NULL
<1>1. CASE UNCHANGED M!vars
  BY <1>1 DEF M!vars, M!registers, M!lists, MapInv, M!Areas
<1>2. ASSUME NEW addr, M!Access(addr) PROVE MapInv'
  <2>1. /\ mc_at.at = "run" /\ mc_at' = mc_at /\ area' = area
        /\ cur_area' = M!verify_memoryarea(addr)
        /\ before' = IF cur_area' = before THEN before ELSE 0
    BY <1>2 DEF M!Access, M!Idle
  <2>2. 0 \notin M!Areas
    BY DEF M!Areas, MapSizes
  <2>3. CASE cur_area \in M!Areas /\ M!Match(cur_area, addr)
    <3>1. cur_area' = cur_area
      BY <2>1, <2>3 DEF M!verify_memoryarea
    <3> QED BY <2>1, <2>2, <2>3, <3>1 DEF MapInv, M!Areas
  <2>4. CASE ~ (cur_area \in M!Areas /\ M!Match(cur_area, addr))
    <3>1. cur_area' = M!Search(addr)
      BY <2>1, <2>4 DEF M!verify_memoryarea
    <3>2. cur_area' \in M!Areas => area[cur_area'].valid
      BY <2>2, <3>1, SearchFound
    <3> QED BY <2>1, <3>2 DEF MapInv, M!Areas
  <2> QED BY <2>3, <2>4
<1>3. ASSUME M!ToRegisters, mc_at' = mc_at PROVE MapInv'
  <2>1. /\ mc_at.at = "run" /\ cur_area' = NAreas + 1 /\ before' = 0
        /\ NAreas + 1 \notin M!Areas
    BY <1>3 DEF M!ToRegisters, M!Idle, M!Registers, M!Areas, MapSizes
  <2> QED BY <1>3, <2>1 DEF MapInv, M!Areas
<1>4. ASSUME NEW cs, NEW value, M!mc_write_CSC(cs, value) PROVE MapInv'
  BY <1>3, <1>4 DEF M!mc_write_CSC
<1>5. ASSUME NEW mask, M!mc_write_BA_MASK(mask) PROVE MapInv'
  BY <1>3, <1>5 DEF M!mc_write_BA_MASK
<1>6. CASE M!sim_reset
  <2>1. /\ mc_at.at = "run" /\ mc_at' = [mc_at EXCEPT !.at = "start"]
        /\ UNCHANGED <<area, cur_area, before>>
    BY <1>6 DEF M!sim_reset, M!Idle
  <2>2. mc_at'.at = "start" \/ mc_at' = mc_at
    BY <2>1
  <2> QED BY <2>1, <2>2 DEF MapInv, M!Areas
<1>7. CASE M!mc_reset
  <2>1. before' = cur_area /\ UNCHANGED <<area, cur_area>>
    BY <1>7 DEF M!mc_reset
  <2>2. 0 \notin M!Areas
    BY DEF M!Areas, MapSizes
  <2> QED BY <2>1, <2>2 DEF MapInv, M!Areas
<1>8. ASSUME mc_at.at \in {"grab", "clear"}, UNCHANGED <<cur_area, before>> PROVE MapInv'
  <2>1. before = cur_area /\ before' = cur_area'
    BY <1>8 DEF MapInv
  <2>2. 0 \notin M!Areas
    BY DEF M!Areas, MapSizes
  <2> QED BY <2>1, <2>2 DEF MapInv, M!Areas
<1>9. CASE M!ResetStep
  BY <1>7, <1>8, <1>9
     DEF M!ResetStep, M!Grab, M!Pass, M!Grabbed, M!Clear, M!Cleared
<1> QED BY <1>1, <1>2, <1>4, <1>5, <1>6, <1>9 DEF M!Next

(* The memory map remembers the area of the last access without anybody    *)
(* noticing: for every number of memories and every sequence of register   *)
(* writes, resets and accesses, an address that is in at most one valid    *)
(* area is found there and nowhere else, except for the area that was      *)
(* remembered when the memory controller was reset.                        *)
THEOREM LookupIsExact ==
  ASSUME MapSizes
  PROVE  M!Spec => []M!LookupExact
<1>1. ASSUME MapInv PROVE M!LookupExact
  <2> SUFFICES ASSUME before = 0, NEW addr \in M!Regions,
                      NEW valid, valid = {a \in M!Areas : M!Match(a, addr) /\ area[a].valid},
                      M!Cardinality(valid) <= 1
               PROVE  valid = {M!verify_memoryarea(addr)} \ {0}
    BY DEF M!LookupExact, M!NULL
  <2>1. 0 \notin M!Areas /\ M!Areas \in SUBSET (1 .. NAreas) /\ IsFiniteSet(1 .. NAreas)
    BY FS_Interval DEF M!Areas, MapSizes
  <2>2. IsFiniteSet(valid)
    BY <2>1, FS_Subset
  <2>3. M!Cardinality(valid) = Cardinality(valid)
    BY DEF M!Cardinality, Cardinality
  <2>4. ASSUME NEW x \in valid PROVE valid = {x}
    <3>1. Cardinality(valid) \in Nat /\ Cardinality(valid) # 0
      BY <2>2, <2>4, FS_CardinalityType, FS_EmptySet
    <3>2. Cardinality(valid) = 1
      BY <2>3, <3>1
    <3> QED BY <2>2, <2>4, <3>2, FS_Singleton
  <2>5. CASE cur_area \in M!Areas /\ M!Match(cur_area, addr)
    <3>1. M!verify_memoryarea(addr) = cur_area
      BY <2>5 DEF M!verify_memoryarea
    <3>2. cur_area \in valid
      BY <1>1, <2>5 DEF MapInv
    <3> QED BY <2>1, <2>4, <3>1, <3>2
  <2>6. CASE ~ (cur_area \in M!Areas /\ M!Match(cur_area, addr))
    <3>1. M!verify_memoryarea(addr) = M!Search(addr)
      BY <2>6 DEF M!verify_memoryarea
    <3>2. IF valid = {} THEN M!Search(addr) = 0 ELSE M!Search(addr) \in valid
      BY SearchFound
    <3> QED BY <2>1, <2>4, <3>1, <3>2
  <2> QED BY <2>5, <2>6
<1> QED BY <1>1, MapInit, MapNext, PTL DEF M!Spec
-----------------------------------------------------------------------------
(* The memory controller.                                                  *)

(* MemMapConstants, of the instance.                                       *)
MapConfigured == MapSizes /\ Owned \subseteq SUBSET M!Areas

MapTyped ==
  /\ M!TypeOK /\ own \in Owned
  /\ mc_at = [at |-> mc_at.at, cur |-> mc_at.cur, prev |-> mc_at.prev]

(* The types of the areas and of the chip select registers.                *)
AreaTypes == [M!Areas -> [mask : BOOLEAN, compare : M!Regions, valid : BOOLEAN]]
CscTypes == [M!Areas -> [sel : M!Regions, en : BOOLEAN]]

(* The areas, the memories of the controller and their numbers.            *)
LEMMA AreaFacts ==
  ASSUME MapConfigured, own \in Owned
  PROVE  /\ NAreas \in Nat /\ NAreas >= 1 /\ M!Areas = 1 .. NAreas /\ 0 \notin own
         /\ M!Registers = NAreas + 1
         /\ \A a \in own : a \in M!Areas /\ a \in Nat /\ a >= 1 /\ a <= NAreas
BY DEF MapConfigured, MapSizes, M!Areas, M!Registers

(* The types before a step.                                                *)
LEMMA TypedFacts ==
  ASSUME MapTyped
  PROVE  /\ area \in AreaTypes /\ csc \in CscTypes /\ ba_mask \in BOOLEAN
         /\ mc_next \in [M!Areas -> M!Areas \cup {0}]
         /\ mc_areas \in M!Areas \cup {0} /\ mine \in M!Areas \cup {0}
         /\ mc_at.cur \in M!Areas \cup {0} /\ mc_at.prev \in M!Areas \cup {0}
         /\ mc_at.at \in {"run", "start", "grab", "clear"} /\ own \in Owned
         /\ cur_area \in 0 .. M!Registers /\ before \in 0 .. M!Registers
BY DEF MapTyped, M!TypeOK, AreaTypes, CscTypes, M!NULL

(* Setting a chip select up sets its area, if the controller has it, from  *)
(* the registers, and leaves the other areas alone.                        *)
LEMMA SetUp ==
  ASSUME area \in AreaTypes, NEW cs, NEW regs \in CscTypes, NEW mask \in BOOLEAN
  PROVE  /\ M!set_csc_tms(area, cs, regs, mask) \in AreaTypes
         /\ \A a \in M!Areas :
              M!set_csc_tms(area, cs, regs, mask)[a] =
                IF a = cs /\ a \in M!Listed(mine)
                THEN [mask |-> mask, compare |-> regs[a].sel, valid |-> regs[a].en]
                ELSE area[a]
<1>1. \A a \in M!Areas : [mask |-> mask, compare |-> regs[a].sel, valid |-> regs[a].en]
                           \in [mask : BOOLEAN, compare : M!Regions, valid : BOOLEAN]
  BY DEF CscTypes
<1>2. \A a \in M!Areas : area[a] \in [mask : BOOLEAN, compare : M!Regions, valid : BOOLEAN]
  BY DEF AreaTypes
<1>3. M!set_csc_tms(area, cs, regs, mask) =
        [a \in M!Areas |-> IF a = cs /\ a \in M!Listed(mine)
                           THEN [mask |-> mask, compare |-> regs[a].sel, valid |-> regs[a].en]
                           ELSE area[a]]
  BY DEF M!set_csc_tms
<1>4. ASSUME NEW a \in M!Areas
      PROVE  (IF a = cs /\ a \in M!Listed(mine)
              THEN [mask |-> mask, compare |-> regs[a].sel, valid |-> regs[a].en]
              ELSE area[a]) \in [mask : BOOLEAN, compare : M!Regions, valid : BOOLEAN]
  BY <1>1, <1>2
<1> QED BY <1>3, <1>4 DEF AreaTypes

(* The types that a step outside of mc_reset may change.                   *)
LEMMA IdleTyped ==
  ASSUME MapTyped, UNCHANGED <<own, mc_next, mc_areas, mine, mc_at>>,
         cur_area' \in 0 .. M!Registers, before' \in 0 .. M!Registers,
         area' \in AreaTypes, csc' \in CscTypes, ba_mask' \in BOOLEAN
  PROVE  MapTyped'
BY DEF MapTyped, M!TypeOK, AreaTypes, CscTypes, M!Areas, M!NULL

(* The types that a step of mc_reset may change.                           *)
LEMMA ResetTyped ==
  ASSUME MapTyped, UNCHANGED <<own, cur_area>>, before' \in {before, cur_area},
         area' \in AreaTypes, csc' \in CscTypes, ba_mask' \in BOOLEAN,
         mc_next' \in [M!Areas -> M!Areas \cup {0}],
         mc_areas' \in M!Areas \cup {0}, mine' \in M!Areas \cup {0},
         NEW at \in {"run", "start", "grab", "clear"},
         NEW cur \in M!Areas \cup {0}, NEW prev \in M!Areas \cup {0},
         mc_at' = [at |-> at, cur |-> cur, prev |-> prev]
  PROVE  MapTyped' /\ mc_at'.at = at /\ mc_at'.cur = cur /\ mc_at'.prev = prev
<1>1. mc_at'.at = at /\ mc_at'.cur = cur /\ mc_at'.prev = prev
  OBVIOUS
<1>2. mc_at' = [at |-> mc_at'.at, cur |-> mc_at'.cur, prev |-> mc_at'.prev]
  BY <1>1
<1>3. cur_area' \in 0 .. M!Registers /\ before' \in 0 .. M!Registers
  BY DEF MapTyped, M!TypeOK
<1>4. M!TypeOK'
  BY <1>1, <1>3 DEF M!TypeOK, AreaTypes, CscTypes, M!NULL
<1> QED BY <1>1, <1>2, <1>4 DEF MapTyped

(* An access moves only the remembered area.                               *)
LEMMA AccessStep ==
  ASSUME MapConfigured, MapTyped, NEW addr, M!Access(addr)
  PROVE  /\ MapTyped' /\ mc_at.at = "run"
         /\ UNCHANGED <<own, area, csc, ba_mask, mc_next, mc_areas, mine, mc_at>>
<1>1. mc_at.at = "run" /\ UNCHANGED <<own, area, csc, ba_mask, mc_next, mc_areas, mine, mc_at>>
  BY DEF M!Access, M!Idle, M!registers, M!lists
<1>2. NAreas \in Nat /\ M!Areas = 1 .. NAreas /\ M!Registers = NAreas + 1
  BY AreaFacts, TypedFacts
<1>3. M!Search(addr) \in M!Areas \cup {0}
  BY SearchFound DEF MapConfigured
<1>4. cur_area' \in 0 .. M!Registers
  <2>1. cur_area' = M!verify_memoryarea(addr)
    BY DEF M!Access
  <2>2. cur_area' \in {cur_area, M!Search(addr)}
    BY <2>1 DEF M!verify_memoryarea
  <2>3. M!Areas \cup {0} \subseteq 0 .. M!Registers
    BY <1>2
  <2> QED BY <1>3, <2>2, <2>3, TypedFacts
<1>5. before' \in 0 .. M!Registers
  <2>1. before' \in {before, 0} /\ 0 \in 0 .. M!Registers
    BY <1>2 DEF M!Access, M!NULL
  <2> QED BY <2>1, TypedFacts
<1> QED BY <1>1, <1>4, <1>5, IdleTyped, TypedFacts

(* A write to the registers remembers their area.                          *)
LEMMA RegistersRemembered ==
  ASSUME MapConfigured, M!ToRegisters
  PROVE  mc_at.at = "run" /\ cur_area' \in 0 .. M!Registers /\ before' \in 0 .. M!Registers
BY DEF M!ToRegisters, M!Idle, M!Registers, M!NULL, MapConfigured, MapSizes

(* A write to a chip select register moves its area with it.               *)
LEMMA CscStep ==
  ASSUME MapConfigured, MapTyped, NEW cs \in M!Areas,
         NEW value \in [sel : M!Regions, en : BOOLEAN], M!mc_write_CSC(cs, value)
  PROVE  /\ MapTyped' /\ mc_at.at = "run" /\ csc' \in CscTypes
         /\ UNCHANGED <<own, ba_mask, mc_next, mc_areas, mine, mc_at>>
         /\ csc' = [csc EXCEPT ![cs] = value]
         /\ \A a \in M!Areas : area'[a] =
              IF a = cs /\ a \in M!Listed(mine)
              THEN [mask |-> ba_mask, compare |-> csc'[a].sel, valid |-> csc'[a].en]
              ELSE area[a]
<1>1. /\ mc_at.at = "run" /\ cur_area' \in 0 .. M!Registers /\ before' \in 0 .. M!Registers
      /\ UNCHANGED <<own, ba_mask, mc_next, mc_areas, mine, mc_at>>
      /\ csc' = [csc EXCEPT ![cs] = value]
      /\ area' = M!set_csc_tms(area, cs, csc', ba_mask)
  BY RegistersRemembered DEF M!mc_write_CSC, M!lists
<1>2. area \in AreaTypes /\ csc \in CscTypes /\ ba_mask \in BOOLEAN
  BY TypedFacts
<1>3. PICK regs \in CscTypes : regs = csc'
  <2>1. csc' \in CscTypes
    BY <1>1, <1>2 DEF CscTypes
  <2> QED BY <2>1
<1>4. PICK ar : ar = M!set_csc_tms(area, cs, regs, ba_mask)
  OBVIOUS
<1>5. /\ ar \in AreaTypes
      /\ \A a \in M!Areas : ar[a] =
           IF a = cs /\ a \in M!Listed(mine)
           THEN [mask |-> ba_mask, compare |-> regs[a].sel, valid |-> regs[a].en]
           ELSE area[a]
  BY <1>2, <1>4, SetUp
<1>6. area' = ar
  BY <1>1, <1>3, <1>4
<1>7. MapTyped'
  BY <1>1, <1>2, <1>3, <1>5, <1>6, IdleTyped
<1> QED BY <1>1, <1>3, <1>5, <1>6, <1>7

(* A write to the mask sets every area of the controller up again.         *)
LEMMA MaskStep ==
  ASSUME MapConfigured, MapTyped, NEW mask \in BOOLEAN, M!mc_write_BA_MASK(mask)
  PROVE  /\ MapTyped' /\ mc_at.at = "run"
         /\ UNCHANGED <<own, csc, mc_next, mc_areas, mine, mc_at>>
         /\ ba_mask' = mask
         /\ \A a \in M!Areas \cap M!Listed(mine) :
              area'[a] = [mask |-> mask, compare |-> csc[a].sel, valid |-> csc[a].en]
<1>1. /\ mc_at.at = "run" /\ cur_area' \in 0 .. M!Registers /\ before' \in 0 .. M!Registers
      /\ UNCHANGED <<own, csc, mc_next, mc_areas, mine, mc_at>>
      /\ ba_mask' = mask
      /\ area' = [a \in M!Areas |-> M!set_csc_tms(area, a, csc, mask)[a]]
  BY RegistersRemembered DEF M!mc_write_BA_MASK, M!lists
<1>2. area \in AreaTypes /\ csc \in CscTypes
  BY TypedFacts
<1>3. ASSUME NEW a \in M!Areas
      PROVE  /\ area'[a] \in [mask : BOOLEAN, compare : M!Regions, valid : BOOLEAN]
             /\ a \in M!Listed(mine) =>
                  area'[a] = [mask |-> mask, compare |-> csc[a].sel, valid |-> csc[a].en]
  <2>1. area'[a] = M!set_csc_tms(area, a, csc, mask)[a]
    BY <1>1
  <2>2. /\ M!set_csc_tms(area, a, csc, mask) \in AreaTypes
        /\ M!set_csc_tms(area, a, csc, mask)[a] =
             IF a = a /\ a \in M!Listed(mine)
             THEN [mask |-> mask, compare |-> csc[a].sel, valid |-> csc[a].en]
             ELSE area[a]
    BY <1>2, SetUp
  <2> QED BY <2>1, <2>2 DEF AreaTypes
<1>4. area' \in AreaTypes
  <2>1. area' = [a \in M!Areas |-> area'[a]]
    BY <1>1
  <2> QED BY <1>3, <2>1 DEF AreaTypes
<1>5. MapTyped'
  BY <1>1, <1>2, <1>4, IdleTyped
<1> QED BY <1>1, <1>3, <1>5

(* A reset begins.                                                         *)
LEMMA ResetStarts ==
  ASSUME MapTyped, M!sim_reset
  PROVE  /\ MapTyped' /\ mc_at.at = "run" /\ mc_at'.at = "start"
         /\ UNCHANGED <<own, mc_next, mc_areas, mine>>
<1>1. /\ mc_at.at = "run" /\ mc_at' = [mc_at EXCEPT !.at = "start"]
      /\ UNCHANGED <<own, area, cur_area, before, csc, ba_mask, mc_next, mc_areas, mine>>
  BY DEF M!sim_reset, M!Idle, M!registers, M!lists
<1>2. mc_at' = [at |-> "start", cur |-> mc_at.cur, prev |-> mc_at.prev]
  BY <1>1 DEF MapTyped
<1> QED BY <1>1, <1>2, TypedFacts, ResetTyped

(* mc_reset sets the registers and starts at the head of the list.         *)
LEMMA McResetStep ==
  ASSUME MapConfigured, MapTyped, M!mc_reset
  PROVE  /\ MapTyped' /\ mc_at.at = "start" /\ mc_at'.at = "grab"
         /\ mc_at'.cur = mc_areas /\ mc_at'.prev = 0
         /\ ba_mask' = FALSE /\ csc' = [a \in M!Areas |-> [sel |-> 0, en |-> a = 1]]
         /\ UNCHANGED <<own, mc_next, mc_areas, mine>>
<1>1. /\ mc_at.at = "start" /\ csc' = [a \in M!Areas |-> [sel |-> 0, en |-> a = 1]]
      /\ ba_mask' = FALSE /\ mc_at' = [at |-> "grab", cur |-> mc_areas, prev |-> 0]
      /\ before' = cur_area
      /\ UNCHANGED <<own, area, cur_area, mc_next, mc_areas, mine>>
  BY DEF M!mc_reset, M!lists, M!NULL
<1>2. csc' \in CscTypes
  <2>1. 0 \in M!Regions
    BY AreaFacts, TypedFacts DEF M!Regions
  <2>2. \A a \in M!Areas : [sel |-> 0, en |-> a = 1] \in [sel : M!Regions, en : BOOLEAN]
    BY <2>1, Zenon
  <2> QED BY <1>1, <2>2 DEF CscTypes
<1>3. MapTyped' /\ mc_at'.at = "grab" /\ mc_at'.cur = mc_areas /\ mc_at'.prev = 0
  BY <1>1, <1>2, TypedFacts, ResetTyped
<1> QED BY <1>1, <1>3

(* A memory c of the controller is taken over, and mc_reset goes on with   *)
(* what followed it.                                                       *)
LEMMA GrabStep ==
  ASSUME MapConfigured, MapTyped, M!Grab
  PROVE  /\ MapTyped' /\ mc_at.at = "grab" /\ mc_at'.at = "grab" /\ mc_at.cur \in own
         /\ UNCHANGED <<own, area, csc, ba_mask>>
         /\ mine' = mc_at.cur /\ mc_at'.prev = mc_at.cur
         /\ mc_areas' = IF mc_at.prev = 0 THEN mc_next[mc_at.cur] ELSE mc_areas
         /\ \E unlinked :
              /\ unlinked = IF mc_at.prev # 0
                            THEN [mc_next EXCEPT ![mc_at.prev] = mc_next[mc_at.cur]] ELSE mc_next
              /\ mc_next' = [unlinked EXCEPT ![mc_at.cur] = mine]
              /\ mc_at'.cur = unlinked[mc_at.cur]
<1>1. mc_at.at = "grab" /\ mc_at.cur \in own
  BY DEF M!Grab
<1>2. PICK c \in own : c = mc_at.cur
  BY <1>1
<1>3. PICK prev \in M!Areas \cup {0} : prev = mc_at.prev
  BY TypedFacts
<1>4. PICK unlinked : unlinked = IF prev # 0 THEN [mc_next EXCEPT ![prev] = mc_next[c]] ELSE mc_next
  OBVIOUS
<1>5. /\ mc_areas' = IF prev = 0 THEN mc_next[c] ELSE mc_areas
      /\ mc_next' = [unlinked EXCEPT ![c] = mine]
      /\ mc_at' = [mc_at EXCEPT !.cur = unlinked[c], !.prev = c]
      /\ mine' = c /\ UNCHANGED <<own, area, cur_area, before, csc, ba_mask>>
  BY <1>2, <1>3, <1>4 DEF M!Grab, M!registers, M!NULL
<1>6. c \in M!Areas /\ c \in M!Areas \cup {0}
  BY AreaFacts, TypedFacts
<1>7. mc_next[c] \in M!Areas \cup {0} /\ unlinked \in [M!Areas -> M!Areas \cup {0}]
  BY <1>4, <1>6, TypedFacts
<1>8. /\ mc_next' \in [M!Areas -> M!Areas \cup {0}]
      /\ mc_areas' \in M!Areas \cup {0} /\ mine' \in M!Areas \cup {0}
  BY <1>5, <1>6, <1>7, TypedFacts
<1>9. PICK cur \in M!Areas \cup {0} : cur = unlinked[c]
  BY <1>6, <1>7
<1>10. mc_at' = [at |-> "grab", cur |-> cur, prev |-> c]
  BY <1>1, <1>5, <1>9 DEF MapTyped
<1>11. MapTyped' /\ mc_at'.at = "grab" /\ mc_at'.cur = cur /\ mc_at'.prev = c
  BY <1>5, <1>6, <1>8, <1>10, TypedFacts, ResetTyped
<1> QED BY <1>1, <1>2, <1>3, <1>4, <1>5, <1>9, <1>11

(* A memory that is not the controller's stays where it is.                *)
LEMMA PassStep ==
  ASSUME MapTyped, M!Pass
  PROVE  /\ MapTyped' /\ mc_at.at = "grab" /\ mc_at'.at = "grab" /\ mc_at.cur \in M!Areas \ own
         /\ mc_at'.cur = mc_next[mc_at.cur] /\ mc_at'.prev = mc_at.cur
         /\ UNCHANGED <<own, area, csc, ba_mask, mc_next, mc_areas, mine>>
<1>1. /\ mc_at.at = "grab" /\ mc_at.cur \in M!Areas \ own
      /\ mc_at' = [mc_at EXCEPT !.cur = mc_next[mc_at.cur], !.prev = mc_at.cur]
      /\ UNCHANGED <<own, area, cur_area, before, csc, ba_mask, mc_next, mc_areas, mine>>
  BY DEF M!Pass, M!registers, M!lists
<1>2. PICK cur \in M!Areas : cur = mc_at.cur
  BY <1>1
<1>3. PICK nxt : nxt = mc_next[cur]
  OBVIOUS
<1>4. nxt \in M!Areas \cup {0} /\ cur \in M!Areas \cup {0}
  BY <1>2, <1>3, TypedFacts
<1>5. mc_at' = [at |-> "grab", cur |-> nxt, prev |-> cur]
  BY <1>1, <1>2, <1>3 DEF MapTyped
<1>6. MapTyped' /\ mc_at'.at = "grab" /\ mc_at'.cur = nxt /\ mc_at'.prev = cur
  BY <1>1, <1>4, <1>5, TypedFacts, ResetTyped
<1> QED BY <1>1, <1>2, <1>3, <1>6

(* The end of the list.                                                    *)
LEMMA GrabbedStep ==
  ASSUME MapConfigured, MapTyped, M!Grabbed
  PROVE  /\ MapTyped' /\ mc_at.at = "grab" /\ mc_at.cur = 0
         /\ mc_at'.at = "clear" /\ mc_at'.cur = mine
         /\ UNCHANGED <<own, area, csc, ba_mask, mc_next, mc_areas, mine>>
<1>1. /\ mc_at.at = "grab" /\ mc_at.cur = 0
      /\ mc_at' = [at |-> "clear", cur |-> mine, prev |-> 0]
      /\ UNCHANGED <<own, area, cur_area, before, csc, ba_mask, mc_next, mc_areas, mine>>
  BY DEF M!Grabbed, M!registers, M!lists, M!NULL
<1>2. MapTyped' /\ mc_at'.at = "clear" /\ mc_at'.cur = mine /\ mc_at'.prev = 0
  BY <1>1, TypedFacts, ResetTyped
<1> QED BY <1>1, <1>2

(* One area of the controller's list after the other is switched off.      *)
LEMMA ClearStep ==
  ASSUME MapConfigured, MapTyped, M!Clear
  PROVE  /\ MapTyped' /\ mc_at.at = "clear" /\ mc_at'.at = "clear"
         /\ mc_at.cur \in M!Areas /\ mc_at'.cur = mc_next[mc_at.cur]
         /\ ~ area'[mc_at.cur].valid
         /\ \A a \in M!Areas : a # mc_at.cur => area'[a] = area[a]
         /\ UNCHANGED <<own, csc, ba_mask, mc_next, mc_areas, mine>>
<1>1. /\ mc_at.at = "clear" /\ mc_at.cur # 0
      /\ area' = [area EXCEPT ![mc_at.cur].valid = FALSE]
      /\ mc_at' = [mc_at EXCEPT !.cur = mc_next[mc_at.cur]]
      /\ UNCHANGED <<own, cur_area, before, csc, ba_mask, mc_next, mc_areas, mine>>
  BY DEF M!Clear, M!registers, M!lists, M!NULL
<1>2. PICK cur \in M!Areas : cur = mc_at.cur
  BY <1>1, TypedFacts
<1>3. PICK nxt \in M!Areas \cup {0} : nxt = mc_next[cur]
  BY TypedFacts
<1>4. mc_at' = [at |-> "clear", cur |-> nxt, prev |-> mc_at.prev]
  BY <1>1, <1>2, <1>3 DEF MapTyped
<1>5. area' \in AreaTypes /\ ~ area'[cur].valid /\ \A a \in M!Areas : a # cur => area'[a] = area[a]
  <2>1. area \in AreaTypes
    BY TypedFacts
  <2> QED BY <1>1, <1>2, <2>1 DEF AreaTypes
<1>6. MapTyped' /\ mc_at'.at = "clear" /\ mc_at'.cur = nxt
  BY <1>1, <1>4, <1>5, TypedFacts, ResetTyped
<1> QED BY <1>1, <1>2, <1>3, <1>5, <1>6

(* Chip select 0 is set up again.                                          *)
LEMMA ClearedStep ==
  ASSUME MapConfigured, MapTyped, M!Cleared
  PROVE  /\ MapTyped' /\ mc_at.at = "clear" /\ mc_at.cur = 0 /\ mc_at'.at = "run"
         /\ UNCHANGED <<own, csc, ba_mask, mc_next, mc_areas, mine>>
         /\ \A a \in M!Areas : area'[a] =
              IF a = 1 /\ a \in M!Listed(mine)
              THEN [mask |-> ba_mask, compare |-> csc[a].sel, valid |-> csc[a].en]
              ELSE area[a]
<1>1. /\ mc_at.at = "clear" /\ mc_at.cur = 0
      /\ area' = M!set_csc_tms(area, 1, csc, ba_mask)
      /\ mc_at' = [at |-> "run", cur |-> 0, prev |-> 0]
      /\ UNCHANGED <<own, cur_area, before, csc, ba_mask, mc_next, mc_areas, mine>>
  BY DEF M!Cleared, M!registers, M!lists, M!NULL, M!Running
<1>2. /\ M!set_csc_tms(area, 1, csc, ba_mask) \in AreaTypes
      /\ \A a \in M!Areas :
           M!set_csc_tms(area, 1, csc, ba_mask)[a] =
             IF a = 1 /\ a \in M!Listed(mine)
             THEN [mask |-> ba_mask, compare |-> csc[a].sel, valid |-> csc[a].en]
             ELSE area[a]
  BY TypedFacts, SetUp
<1>3. MapTyped' /\ mc_at'.at = "run"
  BY <1>1, <1>2, TypedFacts, ResetTyped
<1> QED BY <1>1, <1>2, <1>3, Zenon

(* Types hold initially.                                                   *)
LEMMA TypedInit ==
  ASSUME MapConfigured, M!Init
  PROVE  MapTyped
<1> USE DEF M!Init, M!NULL
<1>1. NAreas \in Nat /\ NAreas >= 1 /\ M!Areas = 1 .. NAreas
  BY AreaFacts
<1>2. area \in [M!Areas -> [mask : BOOLEAN, compare : M!Regions, valid : BOOLEAN]]
  BY <1>1 DEF M!Regions
<1>3. csc \in [M!Areas -> [sel : M!Regions, en : BOOLEAN]] /\ ba_mask \in BOOLEAN
  <2>1. 0 \in M!Regions
    BY <1>1 DEF M!Regions
  <2>2. M!Off \in [sel : M!Regions, en : BOOLEAN]
    BY <2>1, Zenon DEF M!Off
  <2>3. csc = [a \in M!Areas |-> M!Off] /\ ba_mask = FALSE
    OBVIOUS
  <2> QED BY <2>2, <2>3
<1>4. cur_area \in 0 .. M!Registers /\ before \in 0 .. M!Registers
  BY <1>1 DEF M!Registers
<1>5. /\ mc_next \in [M!Areas -> M!Areas \cup {0}]
      /\ {mc_areas, mine, mc_at.cur, mc_at.prev} \subseteq M!Areas \cup {0}
      /\ mc_at.at \in {"run", "start", "grab", "clear"}
  BY <1>1
<1>6. M!TypeOK
  BY <1>2, <1>3, <1>4, <1>5 DEF M!TypeOK
<1> QED BY <1>6 DEF MapTyped

(* The steps that concern the lists.                                       *)
ListsAlone == UNCHANGED <<own, mc_next, mc_areas, mine>>
Quiet == ListsAlone /\ mc_at' = mc_at
ResetOver ==
  /\ ListsAlone
  /\ mc_at.at \in {"run", "clear"} /\ mc_at'.at \in {"run", "start", "clear"}

(* Every step keeps the types, and is one of them.                         *)
LEMMA TypedNext ==
  ASSUME MapConfigured, MapTyped, [M!Next]_(M!vars)
  PROVE  /\ MapTyped' /\ own' = own
         /\ Quiet \/ ResetOver \/ M!mc_reset \/ M!Grab \/ M!Pass \/ M!Grabbed
<1> USE DEF Quiet, ListsAlone
<1>1. CASE UNCHANGED M!vars
  <2>1. UNCHANGED <<own, area, cur_area, csc, ba_mask, mc_next, mc_areas, mine, mc_at, before>>
    BY <1>1 DEF M!vars, M!registers, M!lists
  <2> QED BY <2>1, TypedFacts, IdleTyped
<1>2. ASSUME NEW addr, M!Access(addr) PROVE MapTyped' /\ Quiet
  BY <1>2, AccessStep
<1>3. ASSUME NEW cs \in M!Areas, NEW sel \in M!Regions, NEW en \in BOOLEAN,
             M!mc_write_CSC(cs, [sel |-> sel, en |-> en])
      PROVE  MapTyped' /\ Quiet
  <2>1. PICK value \in [sel : M!Regions, en : BOOLEAN] : value = [sel |-> sel, en |-> en]
    OBVIOUS
  <2>2. M!mc_write_CSC(cs, value)
    BY <1>3, <2>1
  <2> QED BY <2>2, CscStep
<1>4. ASSUME NEW mask \in BOOLEAN, M!mc_write_BA_MASK(mask) PROVE MapTyped' /\ Quiet
  BY <1>4, MaskStep
<1>5. CASE M!sim_reset
  BY <1>5, ResetStarts DEF ResetOver
<1>6. CASE M!mc_reset
  BY <1>6, McResetStep
<1>7. CASE M!Grab
  BY <1>7, GrabStep
<1>8. CASE M!Pass
  BY <1>8, PassStep
<1>9. CASE M!Grabbed
  BY <1>9, GrabbedStep
<1>10. CASE M!Clear
  BY <1>10, ClearStep DEF ResetOver
<1>11. CASE M!Cleared
  BY <1>11, ClearedStep DEF ResetOver
<1> QED BY <1>1, <1>2, <1>3, <1>4, <1>5, <1>6, <1>7, <1>8, <1>9, <1>10, <1>11
        DEF M!Next, M!ResetStep

(* The registers while mc_reset runs, and the areas it has switched off:   *)
(* those that are not in the rest of the controller's list.                *)
MapCleared ==
  /\ mc_at.at \in {"grab", "clear"} =>
       ba_mask = FALSE /\ csc = [a \in M!Areas |-> [sel |-> 0, en |-> a = 1]]
  /\ mc_at.at = "clear" =>
       \A a \in own : a \in M!Listed(mc_at.cur) \/ ~ area[a].valid

(* The controller has its memories once mc_reset has walked the list.      *)
ListsDone == mc_at.at \in {"run", "clear"} => M!Listed(mine) = own

(* The list from a memory on is that memory and the list behind it.        *)
LEMMA ListedBehind ==
  ASSUME NEW cur \in M!Areas, NEW nxt, nxt = mc_next[cur],
         NEW a, a \in M!Listed(cur), a # cur
  PROVE  a \in M!Listed(nxt)
<1> DEFINE Closed(head, S) == {head} \cup {mc_next[b] : b \in S} \subseteq S \cup {0}
<1>1. \A head : M!Listed(head) = {b \in M!Areas : \A S \in SUBSET M!Areas : Closed(head, S) => b \in S}
  BY DEF M!Listed, M!NULL
<1>2. ASSUME NEW S \in SUBSET M!Areas, Closed(nxt, S) PROVE a \in S
  <2>1. S \cup {cur} \in SUBSET M!Areas /\ Closed(cur, S \cup {cur})
    BY <1>2
  <2>2. a \in S \cup {cur}
    BY <1>1, <2>1
  <2> QED BY <2>2
<1>3. a \in M!Areas
  BY <1>1
<1> QED BY <1>1, <1>2, <1>3

(* Nothing is behind the end of a list.                                    *)
LEMMA ListedNull ==
  ASSUME NEW a
  PROVE  a \notin M!Listed(0)
<1>1. {} \in SUBSET M!Areas /\ {0} \cup {mc_next[b] : b \in {}} \subseteq {} \cup {0}
  OBVIOUS
<1> QED BY <1>1 DEF M!Listed, M!NULL

(* The areas of the controller are where its registers say, after every    *)
(* step, if it has its memories.                                           *)
LEMMA AreasNext ==
  ASSUME MapConfigured, MapTyped, ListsDone, ListsDone', MapCleared, M!FollowsRegisters,
         [M!Next]_(M!vars)
  PROVE  MapCleared' /\ M!FollowsRegisters'
<1>1. /\ NAreas \in Nat /\ M!Areas = 1 .. NAreas
      /\ \A a \in own : a \in M!Areas
  BY AreaFacts, TypedFacts
<1> DEFINE Placed(a) ==
      /\ area[a].valid = csc[a].en
      /\ csc[a].en => area[a].mask = ba_mask /\ area[a].compare = csc[a].sel
<1>2. mc_at.at = "run" => \A a \in own : Placed(a)
  BY DEF M!FollowsRegisters, M!Idle
<1>3. ASSUME UNCHANGED mc_next PROVE \A h : M!Listed(h)' = M!Listed(h)
  BY <1>3 DEF M!Listed
<1>4. CASE UNCHANGED M!vars
  <2>1. UNCHANGED <<own, area, csc, ba_mask, mc_next, mc_at>>
    BY <1>4 DEF M!vars, M!registers, M!lists
  <2> QED BY <2>1, <1>3 DEF MapCleared, M!FollowsRegisters, M!Idle, M!Areas
<1>5. ASSUME NEW addr, M!Access(addr) PROVE MapCleared' /\ M!FollowsRegisters'
  <2>1. mc_at.at = "run" /\ UNCHANGED <<own, area, csc, ba_mask, mc_at>>
    BY <1>5, AccessStep
  <2> QED BY <2>1 DEF MapCleared, M!FollowsRegisters, M!Idle
<1>6. ASSUME NEW cs \in M!Areas, NEW sel \in M!Regions, NEW en \in BOOLEAN,
             M!mc_write_CSC(cs, [sel |-> sel, en |-> en])
      PROVE  MapCleared' /\ M!FollowsRegisters'
  <2>1. PICK value \in [sel : M!Regions, en : BOOLEAN] : value = [sel |-> sel, en |-> en]
    OBVIOUS
  <2>2. M!mc_write_CSC(cs, value)
    BY <1>6, <2>1
  <2>3. /\ mc_at.at = "run" /\ UNCHANGED <<own, ba_mask, mc_at>>
        /\ csc' = [csc EXCEPT ![cs] = value] /\ csc \in CscTypes
        /\ \A a \in M!Areas : area'[a] =
             IF a = cs /\ a \in M!Listed(mine)
             THEN [mask |-> ba_mask, compare |-> csc'[a].sel, valid |-> csc'[a].en]
             ELSE area[a]
    BY <2>2, CscStep, TypedFacts
  <2>4. M!Listed(mine) = own
    BY <2>3 DEF ListsDone
  <2>5. ASSUME NEW a \in own
        PROVE  /\ area'[a].valid = csc'[a].en
               /\ csc'[a].en => area'[a].mask = ba_mask /\ area'[a].compare = csc'[a].sel
    <3>1. CASE a = cs
      <4>1. area'[a] = [mask |-> ba_mask, compare |-> csc'[a].sel, valid |-> csc'[a].en]
        BY <1>1, <2>3, <2>4, <3>1
      <4> QED BY <4>1
    <3>2. CASE a # cs
      <4>1. area'[a] = area[a] /\ csc'[a] = csc[a]
        BY <1>1, <2>3, <3>2 DEF CscTypes
      <4>2. Placed(a)
        BY <1>2, <2>3
      <4> QED BY <4>1, <4>2
    <3> QED BY <3>1, <3>2
  <2> QED BY <2>3, <2>5 DEF MapCleared, M!FollowsRegisters, M!Idle
<1>7. ASSUME NEW mask \in BOOLEAN, M!mc_write_BA_MASK(mask) PROVE MapCleared' /\ M!FollowsRegisters'
  <2>1. /\ mc_at.at = "run" /\ UNCHANGED <<own, csc, mc_at>> /\ ba_mask' = mask
        /\ \A a \in M!Areas \cap M!Listed(mine) :
             area'[a] = [mask |-> mask, compare |-> csc[a].sel, valid |-> csc[a].en]
    BY <1>7, MaskStep
  <2>2. M!Listed(mine) = own
    BY <2>1 DEF ListsDone
  <2>3. ASSUME NEW a \in own
        PROVE  /\ area'[a].valid = csc[a].en
               /\ csc[a].en => area'[a].mask = mask /\ area'[a].compare = csc[a].sel
    <3>1. area'[a] = [mask |-> mask, compare |-> csc[a].sel, valid |-> csc[a].en]
      BY <1>1, <2>1, <2>2
    <3> QED BY <3>1
  <2> QED BY <2>1, <2>3 DEF MapCleared, M!FollowsRegisters, M!Idle
<1>8. CASE M!sim_reset
  <2>1. mc_at'.at = "start"
    BY <1>8, ResetStarts
  <2> QED BY <2>1 DEF MapCleared, M!FollowsRegisters, M!Idle
<1>9. CASE M!mc_reset
  <2>1. /\ mc_at'.at = "grab"
        /\ ba_mask' = FALSE /\ csc' = [a \in M!Areas |-> [sel |-> 0, en |-> a = 1]]
    BY <1>9, McResetStep
  <2> QED BY <2>1 DEF MapCleared, M!FollowsRegisters, M!Idle, M!Areas
<1>10. CASE M!Grab \/ M!Pass
  <2>1. mc_at.at = "grab" /\ mc_at'.at = "grab" /\ UNCHANGED <<csc, ba_mask>>
    BY <1>10, GrabStep, PassStep
  <2> QED BY <2>1 DEF MapCleared, M!FollowsRegisters, M!Idle, M!Areas
<1>11. CASE M!Grabbed
  <2>1. /\ mc_at.at = "grab" /\ mc_at'.at = "clear" /\ mc_at'.cur = mine
        /\ UNCHANGED <<own, area, csc, ba_mask, mc_next, mine>>
    BY <1>11, GrabbedStep
  <2>2. M!Listed(mine)' = own'
    BY <2>1 DEF ListsDone
  <2>3. M!Listed(mc_at.cur)' = own'
    BY <2>1, <2>2 DEF M!Listed
  <2> QED BY <2>1, <2>3 DEF MapCleared, M!FollowsRegisters, M!Idle, M!Areas
<1>12. CASE M!Clear
  <2>1. /\ mc_at.at = "clear" /\ mc_at'.at = "clear"
        /\ mc_at.cur \in M!Areas /\ mc_at'.cur = mc_next[mc_at.cur]
        /\ ~ area'[mc_at.cur].valid
        /\ \A a \in M!Areas : a # mc_at.cur => area'[a] = area[a]
        /\ UNCHANGED <<own, csc, ba_mask, mc_next>>
    BY <1>12, ClearStep
  <2>2. PICK cur \in M!Areas : cur = mc_at.cur
    BY <2>1
  <2>3. PICK nxt : nxt = mc_next[cur]
    OBVIOUS
  <2>4. ASSUME NEW a \in own PROVE a \in M!Listed(nxt) \/ ~ area'[a].valid
    <3>1. CASE a = cur
      BY <2>1, <2>2, <3>1
    <3>2. CASE a # cur /\ a \in M!Listed(cur)
      BY <2>2, <2>3, <3>2, ListedBehind
    <3>3. CASE a # cur /\ a \notin M!Listed(cur)
      <4>1. ~ area[a].valid
        BY <2>1, <2>2, <2>4, <3>3 DEF MapCleared
      <4>2. area'[a] = area[a]
        BY <1>1, <2>1, <2>2, <3>3
      <4> QED BY <4>1, <4>2
    <3> QED BY <3>1, <3>2, <3>3
  <2>5. M!Listed(mc_at.cur)' = M!Listed(nxt)
    BY <2>1, <2>2, <2>3 DEF M!Listed
  <2> QED BY <2>1, <2>4, <2>5 DEF MapCleared, M!FollowsRegisters, M!Idle, M!Areas
<1>13. CASE M!Cleared
  <2>1. /\ mc_at.at = "clear" /\ mc_at.cur = 0 /\ mc_at'.at = "run"
        /\ UNCHANGED <<own, csc, ba_mask>>
        /\ \A a \in M!Areas : area'[a] =
             IF a = 1 /\ a \in M!Listed(mine)
             THEN [mask |-> ba_mask, compare |-> csc[a].sel, valid |-> csc[a].en]
             ELSE area[a]
    BY <1>13, ClearedStep
  <2>2. M!Listed(mine) = own /\ csc = [a \in M!Areas |-> [sel |-> 0, en |-> a = 1]]
    BY <2>1 DEF ListsDone, MapCleared
  <2>3. ASSUME NEW a \in own
        PROVE  /\ area'[a].valid = csc[a].en
               /\ csc[a].en => area'[a].mask = ba_mask /\ area'[a].compare = csc[a].sel
    <3>1. CASE a = 1
      <4>1. area'[a] = [mask |-> ba_mask, compare |-> csc[a].sel, valid |-> csc[a].en]
        BY <1>1, <2>1, <2>2, <3>1
      <4> QED BY <4>1
    <3>2. CASE a # 1
      <4>1. area'[a] = area[a]
        BY <1>1, <2>1, <3>2
      <4>2. ~ area[a].valid
        <5>1. a \notin M!Listed(mc_at.cur)
          BY <2>1, ListedNull
        <5> QED BY <2>1, <2>3, <5>1 DEF MapCleared
      <4>3. area[a].valid = FALSE
        <5>1. area[a].valid \in BOOLEAN
          BY <1>1, TypedFacts DEF AreaTypes
        <5> QED BY <4>2, <5>1
      <4>4. csc[a].en = FALSE
        BY <1>1, <2>2, <3>2
      <4> QED BY <4>1, <4>3, <4>4
    <3> QED BY <3>1, <3>2
  <2> QED BY <2>1, <2>3 DEF MapCleared, M!FollowsRegisters, M!Idle
<1> QED BY <1>4, <1>5, <1>6, <1>7, <1>8, <1>9, <1>10, <1>11, <1>12, <1>13
        DEF M!Next, M!ResetStep

-----------------------------------------------------------------------------
(* No two memories of the controller register right after one another.     *)
MapApart == MapConfigured /\ \A a \in own : a + 1 \notin own

(* The memories of the controller that mc_reset has taken over when it has *)
(* come down to memory c, and the one that follows x among them.           *)
Above(c) == {a \in own : a > c}
IsNext(x, y) ==
  \/ y = 0 /\ Above(x) = {}
  \/ y \in Above(x) /\ \A a \in Above(x) : y <= a

(* The memory before b in the order of registration, without them.         *)
Before(c, b) == IF b - 1 \in Above(c) THEN b - 2 ELSE b - 1

(* The lists then: what was taken over, from c on; and the others.         *)
MapLists(c) ==
  /\ IsNext(c, mine)
  /\ \A a \in Above(c) : IsNext(a, mc_next[a])
  /\ \A b \in M!Areas : b \in Above(c) \/ mc_next[b] = Before(c, b)
  /\ mc_areas = IF NAreas \in Above(c) THEN NAreas - 1 ELSE NAreas

(* How far mc_reset has come: nothing is taken over before the first one,  *)
(* everything after it.                                                    *)
MapPhase(c) ==
  /\ mc_at.at = "start" => c \in {NAreas, 0}
  /\ mc_at.at = "grab" =>
       \/ mc_at.cur = c /\ mc_at.prev = (IF c = NAreas THEN 0 ELSE c + 1)
       \/ c = 0 /\ mc_at.cur \notin own
  /\ mc_at.at \in {"run", "clear"} => c = 0

(* The inductive invariant, of the memory that mc_reset has come down to.  *)
ControlInv(c) == MapLists(c) /\ MapPhase(c)

(* The areas, the memories of the controller and their numbers.            *)
LEMMA OwnFacts ==
  ASSUME MapApart, own \in Owned
  PROVE  /\ NAreas \in Nat /\ NAreas >= 1 /\ M!Areas = 1 .. NAreas /\ 0 \notin own
         /\ \A a \in own : a \in M!Areas /\ a \in Nat /\ a >= 1 /\ a <= NAreas /\ a + 1 \notin own
BY AreaFacts DEF MapApart

(* Every memory that was taken over is in the controller's list, and no    *)
(* other: the last one in a set of memories that lacks one has a successor *)
(* outside of the set.                                                     *)
LEMMA ListedIsOwn ==
  ASSUME MapApart, own \in Owned, MapLists(0)
  PROVE  M!Listed(mine) = own
<1> DEFINE Closed(S) == {mine} \cup {mc_next[a] : a \in S} \subseteq S \cup {0}
<1>1. M!Listed(mine) = {a \in M!Areas : \A S \in SUBSET M!Areas : Closed(S) => a \in S}
  BY DEF M!Listed, M!NULL
<1>2. /\ NAreas \in Nat /\ M!Areas = 1 .. NAreas /\ own \subseteq M!Areas /\ own \subseteq Nat
      /\ \A a \in own : a > 0
  BY OwnFacts
<1>3. Above(0) = own
  BY <1>2 DEF Above
<1>4. IsNext(0, mine) /\ \A a \in own : IsNext(a, mc_next[a])
  BY <1>3 DEF MapLists
<1>5. Closed(own)
  <2>1. mine \in own \cup {0}
    BY <1>4 DEF IsNext, Above
  <2>2. \A a \in own : mc_next[a] \in own \cup {0}
    BY <1>4 DEF IsNext, Above
  <2> QED BY <2>1, <2>2
<1>6. ASSUME NEW a \in own, NEW S \in SUBSET M!Areas, Closed(S), a \notin S PROVE FALSE
  <2> DEFINE Gap == {a - p : p \in {q \in own : q \in S /\ q < a}}
  <2>1. mine \in S /\ mine \in own /\ mine < a
    <3>1. a \in Above(0)
      BY <1>3
    <3>2. mine \in own /\ mine <= a /\ mine # 0
      BY <1>2, <1>3, <1>4, <3>1 DEF IsNext
    <3>3. mine \in S
      BY <1>6, <3>2
    <3> QED BY <1>2, <1>6, <3>2, <3>3
  <2>2. Gap \subseteq Nat /\ a - mine \in Gap
    BY <1>2, <2>1
  <2>3. IsWellFoundedOn(OpToRel(<, Nat), Nat)
    BY NatLessThanWellFounded
  <2>4. PICK d \in Gap : \A e \in Gap : ~ (<<e, d>> \in OpToRel(<, Nat))
    <3> HIDE DEF Gap
    <3> QED BY <2>2, <2>3, WFMin
  <2>5. PICK p \in own : p \in S /\ p < a /\ d = a - p
    BY <2>4
  <2>6. \A q \in own : q \in S /\ q < a => q <= p
    <3> SUFFICES ASSUME NEW q \in own, q \in S, q < a, q > p PROVE FALSE
      BY <1>2, <2>5
    <3>1. a - q \in Gap /\ a - q < d
      BY <1>2, <2>5
    <3>2. a - q \in Nat /\ d \in Nat
      BY <2>2, <2>4, <3>1
    <3> HIDE DEF Gap
    <3> QED BY <2>4, <3>1, <3>2 DEF OpToRel
  <2>7. a \in Above(p)
    BY <2>5 DEF Above
  <2>8. mc_next[p] \in Above(p) /\ mc_next[p] <= a
    BY <1>4, <2>5, <2>7 DEF IsNext
  <2>9. mc_next[p] \in S
    <3>1. mc_next[p] \in S \cup {0}
      BY <1>6, <2>5
    <3> QED BY <1>2, <2>8, <3>1 DEF Above
  <2>10. PICK n \in own : n = mc_next[p] /\ n > p /\ n <= a /\ n \in S
    BY <2>8, <2>9 DEF Above
  <2>11. n \in Nat /\ a \in Nat /\ p \in Nat /\ n # a
    BY <1>2, <1>6, <2>10
  <2> QED BY <2>6, <2>10, <2>11
<1>7. M!Listed(mine) \subseteq own
  BY <1>1, <1>2, <1>5
<1>8. own \subseteq M!Listed(mine)
  BY <1>1, <1>2, <1>6
<1> QED BY <1>7, <1>8

(* A memory that is not the controller's is passed.                        *)
LEMMA PassLists ==
  ASSUME MapApart, own \in Owned, NEW c \in M!Areas, c \notin own, MapLists(c)
  PROVE  MapLists(c - 1)
<1>1. Above(c - 1) = Above(c)
  <2>1. c \in Nat /\ \A a \in own : a \in Nat /\ a # c
    BY OwnFacts
  <2>2. \A a \in own : a > c - 1 <=> a > c
    BY <2>1
  <2> QED BY <2>2 DEF Above
<1> QED BY <1>1 DEF MapLists, IsNext, Before

(* One that is the controller's goes from the one list to the other.       *)
LEMMA GrabLists ==
  ASSUME MapApart, own \in Owned, own' = own, NEW c \in own, MapLists(c),
         mc_next \in [M!Areas -> M!Areas \cup {0}],
         NEW prev, prev = (IF c = NAreas THEN 0 ELSE c + 1), mine' = c,
         mc_areas' = IF prev = 0 THEN mc_next[c] ELSE mc_areas,
         NEW unlinked, unlinked = IF prev # 0 THEN [mc_next EXCEPT ![prev] = mc_next[c]] ELSE mc_next,
         mc_next' = [unlinked EXCEPT ![c] = mine]
  PROVE  MapLists(c - 1)' /\ unlinked[c] = c - 1
<1>1. /\ NAreas \in Nat /\ NAreas >= 1 /\ M!Areas = 1 .. NAreas /\ own \subseteq M!Areas
      /\ c \in M!Areas /\ c \in Nat /\ c >= 1 /\ c <= NAreas /\ c + 1 \notin own /\ c - 1 \notin own
      /\ own \subseteq Nat /\ \A a \in own : a >= 1 /\ a <= NAreas
  <2>1. c \in Nat /\ \A a \in own : a + 1 # c
    BY OwnFacts
  <2>2. (c - 1) + 1 = c
    BY <2>1
  <2> QED BY OwnFacts, <2>1, <2>2
<1>2. Above(c - 1) = Above(c) \cup {c} /\ c \notin Above(c) /\ c - 1 \notin Above(c) /\ c + 1 \notin Above(c)
  <2>1. \A a \in own : a > c - 1 <=> a > c \/ a = c
    BY <1>1
  <2>2. c > c - 1 /\ ~ (c > c)
    BY <1>1
  <2> QED BY <1>1, <2>1, <2>2 DEF Above
<1>3. mc_next[c] = c - 1
  BY <1>1, <1>2 DEF MapLists, Before
<1>4. prev # 0 => prev = c + 1 /\ prev \in M!Areas /\ prev # c
  BY <1>1
<1>5. unlinked[c] = c - 1
  BY <1>1, <1>3, <1>4
<1>6. \A b \in M!Areas : mc_next'[b] = IF b = c THEN mine
                                      ELSE IF b = c + 1 THEN c - 1 ELSE mc_next[b]
  BY <1>1, <1>3, <1>4
<1>7. \A x : Above(x)' = Above(x)
  BY DEF Above
<1>8. \A a \in Above(c) : a \in own /\ a \in M!Areas /\ a # c /\ a # c + 1
  BY <1>1, <1>2 DEF Above
<1>9. IsNext(c - 1, mine)'
  <2>1. c \in Above(c - 1) /\ \A a \in Above(c - 1) : c <= a
    BY <1>1, <1>2 DEF Above
  <2> QED BY <1>7, <2>1 DEF IsNext
<1>10. ASSUME NEW a \in Above(c - 1)' PROVE IsNext(a, mc_next[a])'
  <2>1. CASE a = c
    <3>1. mc_next'[a] = mine
      BY <1>1, <1>6, <2>1
    <3>2. IsNext(a, mine)
      BY <2>1 DEF MapLists
    <3> QED BY <1>7, <3>1, <3>2 DEF IsNext
  <2>2. CASE a # c
    <3>1. a \in Above(c)
      BY <1>2, <1>7, <1>10, <2>2
    <3>2. mc_next'[a] = mc_next[a]
      BY <1>6, <1>8, <3>1
    <3>3. IsNext(a, mc_next[a])
      BY <3>1 DEF MapLists
    <3> QED BY <1>7, <3>2, <3>3 DEF IsNext
  <2> QED BY <2>1, <2>2
<1>11. ASSUME NEW b \in M!Areas, b \notin Above(c - 1)' PROVE mc_next'[b] = Before(c - 1, b)'
  <2>1. b # c /\ b \notin Above(c) /\ b \in Nat /\ b >= 1
    BY <1>1, <1>2, <1>7, <1>11
  <2>2. CASE b = c + 1
    BY <1>1, <1>2, <1>6, <1>7, <2>1, <2>2 DEF Before
  <2>3. CASE b # c + 1
    <3>1. mc_next'[b] = Before(c, b)
      BY <1>6, <2>1, <2>3 DEF MapLists
    <3>2. b - 1 # c
      BY <1>1, <2>1, <2>3
    <3> QED BY <1>2, <1>7, <3>1, <3>2 DEF Before
  <2> QED BY <2>2, <2>3
<1>12. mc_areas' = IF NAreas \in Above(c - 1)' THEN NAreas - 1 ELSE NAreas
  <2>1. CASE c = NAreas
    <3>1. mc_areas' = c - 1
      BY <1>3, <2>1
    <3>2. c \in Above(c - 1)'
      BY <1>2, <1>7
    <3> QED BY <2>1, <3>1, <3>2
  <2>2. CASE c # NAreas
    <3>1. mc_areas' = mc_areas
      BY <1>1, <2>2
    <3>2. NAreas \in Above(c - 1)' <=> NAreas \in Above(c)
      BY <1>2, <1>7, <2>2
    <3> QED BY <3>1, <3>2 DEF MapLists
  <2> QED BY <2>1, <2>2
<1> QED BY <1>5, <1>9, <1>10, <1>11, <1>12 DEF MapLists

(* What steps that leave the lists alone keep.                             *)
LEMMA ListsKept ==
  ASSUME NEW c, MapLists(c), ListsAlone
  PROVE  MapLists(c)'
BY DEF ListsAlone, MapLists, IsNext, Above, Before

(* Nothing is the controller's before the first reset.                     *)
LEMMA ControlInit ==
  ASSUME MapApart, M!Init
  PROVE  ControlInv(NAreas)
<1> USE DEF M!Init, M!NULL
<1>1. NAreas \in Nat /\ NAreas >= 1 /\ M!Areas = 1 .. NAreas
      /\ \A a \in own : a \in Nat /\ a <= NAreas
  BY OwnFacts
<1>2. Above(NAreas) = {}
  BY <1>1 DEF Above
<1>3. MapLists(NAreas)
  BY <1>1, <1>2 DEF MapLists, IsNext, Before
<1>4. MapPhase(NAreas)
  BY DEF MapPhase
<1> QED BY <1>3, <1>4 DEF ControlInv

(* mc_reset starts at the head of the list: at the last memory, or at the  *)
(* last one that is not the controller's.                                  *)
LEMMA ControlMcReset ==
  ASSUME MapApart, MapTyped, NEW c, ControlInv(c), M!mc_reset
  PROVE  ControlInv(c)'
<1>1. /\ mc_at.at = "start" /\ mc_at'.at = "grab" /\ mc_at'.cur = mc_areas /\ mc_at'.prev = 0
      /\ ListsAlone
  BY McResetStep DEF MapApart, ListsAlone
<1>2. MapLists(c) /\ MapPhase(c) /\ own \in Owned
  BY TypedFacts DEF ControlInv
<1>3. c \in {NAreas, 0}
  BY <1>1, <1>2 DEF MapPhase
<1>6. MapLists(c)'
  BY <1>1, <1>2, ListsKept
<1>7. \/ mc_areas = c /\ c = NAreas
      \/ c = 0 /\ mc_areas \notin own
  <2>1. mc_areas = IF NAreas \in Above(c) THEN NAreas - 1 ELSE NAreas
    BY <1>2 DEF MapLists
  <2>2. CASE c = NAreas
    BY <1>2, <2>1, <2>2, OwnFacts DEF Above
  <2>3. CASE c = 0
    <3>1. NAreas \in Above(0) <=> NAreas \in own
      BY <1>2, OwnFacts DEF Above
    <3>2. CASE NAreas \in own
      <4>1. mc_areas = NAreas - 1 /\ NAreas \in Nat /\ \A a \in own : a + 1 # NAreas
        BY <1>2, <2>1, <2>3, <3>1, <3>2, OwnFacts
      <4>2. mc_areas + 1 = NAreas
        BY <4>1
      <4> QED BY <2>3, <4>1, <4>2
    <3>3. CASE NAreas \notin own
      BY <2>1, <2>3, <3>1, <3>3
    <3> QED BY <3>2, <3>3
  <2> QED BY <1>3, <2>2, <2>3
<1>8. MapPhase(c)'
  BY <1>1, <1>7 DEF MapPhase, ListsAlone
<1> QED BY <1>6, <1>8 DEF ControlInv

(* A memory of the controller is taken over, in the first reset only.      *)
LEMMA ControlGrab ==
  ASSUME MapApart, MapTyped, NEW c \in 0 .. NAreas, ControlInv(c), M!Grab
  PROVE  \E d \in 0 .. NAreas : ControlInv(d)'
<1>1. MapLists(c) /\ MapPhase(c) /\ own \in Owned
  BY TypedFacts DEF ControlInv
<1>2. /\ mc_at.at = "grab" /\ mc_at'.at = "grab" /\ mc_at.cur \in own
      /\ own' = own /\ mine' = mc_at.cur /\ mc_at'.prev = mc_at.cur
      /\ mc_areas' = IF mc_at.prev = 0 THEN mc_next[mc_at.cur] ELSE mc_areas
  BY GrabStep DEF MapApart
<1>3. mc_at.cur = c /\ mc_at.prev = (IF c = NAreas THEN 0 ELSE c + 1) /\ c \in own
  BY <1>1, <1>2 DEF MapPhase
<1>4. PICK unlinked :
        /\ unlinked = IF mc_at.prev # 0
                      THEN [mc_next EXCEPT ![mc_at.prev] = mc_next[mc_at.cur]] ELSE mc_next
        /\ mc_next' = [unlinked EXCEPT ![mc_at.cur] = mine]
        /\ mc_at'.cur = unlinked[mc_at.cur]
  BY GrabStep DEF MapApart
<1>5. PICK prev : prev = mc_at.prev
  OBVIOUS
<1>6. /\ mc_areas' = IF prev = 0 THEN mc_next[c] ELSE mc_areas
      /\ mc_next' = [unlinked EXCEPT ![c] = mine]
      /\ unlinked = IF prev # 0 THEN [mc_next EXCEPT ![prev] = mc_next[c]] ELSE mc_next
      /\ mine' = c /\ own' = own
  BY <1>2, <1>3, <1>4, <1>5
<1>7. prev = (IF c = NAreas THEN 0 ELSE c + 1) /\ mc_next \in [M!Areas -> M!Areas \cup {0}]
  BY <1>3, <1>5, TypedFacts
<1>8. MapLists(c - 1)' /\ unlinked[c] = c - 1
  BY <1>1, <1>3, <1>6, <1>7, GrabLists
<1>9. c \in Nat /\ c >= 1 /\ c <= NAreas /\ NAreas \in Nat
  BY <1>1, <1>3, OwnFacts
<1>10. c - 1 \in 0 .. NAreas /\ c - 1 # NAreas /\ (c - 1) + 1 = c
  BY <1>9
<1>11. mc_at'.cur = c - 1 /\ mc_at'.prev = c
  BY <1>2, <1>3, <1>4, <1>8
<1>12. MapPhase(c - 1)'
  BY <1>2, <1>10, <1>11 DEF MapPhase
<1> QED BY <1>8, <1>10, <1>12 DEF ControlInv

(* A memory that is not the controller's stays where it is; what follows   *)
(* it in a later reset is not the controller's either.                     *)
LEMMA ControlPass ==
  ASSUME MapApart, MapTyped, NEW c \in 0 .. NAreas, ControlInv(c), M!Pass
  PROVE  \E d \in 0 .. NAreas : ControlInv(d)'
<1>1. MapLists(c) /\ MapPhase(c) /\ own \in Owned
  BY TypedFacts DEF ControlInv
<1>2. /\ mc_at.at = "grab" /\ mc_at'.at = "grab" /\ mc_at.cur \in M!Areas \ own
      /\ mc_at'.cur = mc_next[mc_at.cur] /\ mc_at'.prev = mc_at.cur
      /\ ListsAlone /\ own' = own
  BY PassStep DEF ListsAlone
<1>3. PICK cur \in M!Areas : cur = mc_at.cur
  BY <1>2
<1>4. PICK nxt : nxt = mc_next[cur]
  OBVIOUS
<1>7. mc_at'.at = "grab" /\ mc_at'.cur = nxt /\ mc_at'.prev = cur
  BY <1>2, <1>3, <1>4
<1>9. cur \in Nat /\ cur >= 1 /\ cur <= NAreas /\ NAreas \in Nat /\ cur \notin own
      /\ \A a \in own : a \in Nat /\ a >= 1 /\ a + 1 \notin own
  BY <1>1, <1>2, <1>3, OwnFacts
<1>10. nxt = IF cur - 1 \in Above(c) THEN cur - 2 ELSE cur - 1
  <2>1. cur \in Above(c) \/ mc_next[cur] = Before(c, cur)
    BY <1>1 DEF MapLists
  <2>2. cur \notin Above(c)
    BY <1>9 DEF Above
  <2> QED BY <1>4, <2>1, <2>2 DEF Before
<1>11. CASE cur = c
  <2>1. nxt = c - 1
    <3>1. c - 1 \notin Above(c)
      BY <1>9, <1>11 DEF Above
    <3> QED BY <1>10, <1>11, <3>1
  <2>2. MapLists(c - 1)
    BY <1>1, <1>9, <1>11, PassLists
  <2>3. PICK d : d = c - 1
    OBVIOUS
  <2>4. d \in 0 .. NAreas /\ d # NAreas /\ d + 1 = c
    BY <1>9, <1>11, <2>3
  <2>5. MapLists(d)'
    BY <1>2, <2>2, <2>3, ListsKept
  <2>6. MapPhase(d)'
    BY <1>7, <1>11, <2>1, <2>3, <2>4 DEF MapPhase
  <2> QED BY <2>4, <2>5, <2>6 DEF ControlInv
<1>12. CASE cur # c
  <2>1. c = 0
    BY <1>1, <1>2, <1>3, <1>12 DEF MapPhase
  <2>2. nxt \notin own
    <3>1. Above(c) = own
      BY <1>9, <2>1 DEF Above
    <3>2. (cur - 2) + 1 = cur - 1
      BY <1>9
    <3> QED BY <1>9, <1>10, <3>1, <3>2
  <2>3. MapLists(c)'
    BY <1>1, <1>2, ListsKept
  <2>4. MapPhase(c)'
    BY <1>2, <1>7, <2>1, <2>2 DEF MapPhase
  <2> QED BY <2>3, <2>4 DEF ControlInv
<1> QED BY <1>11, <1>12

(* Every step keeps the invariant of the lists.                            *)
LEMMA ControlNext ==
  ASSUME MapApart, MapTyped, \E c \in 0 .. NAreas : ControlInv(c), [M!Next]_(M!vars)
  PROVE  \E c \in 0 .. NAreas : ControlInv(c)'
<1>1. PICK c \in 0 .. NAreas : ControlInv(c)
  OBVIOUS
<1>2. CASE Quiet
  <2>1. MapLists(c)'
    BY <1>1, <1>2, ListsKept DEF ControlInv, Quiet
  <2>2. MapPhase(c)'
    BY <1>1, <1>2 DEF ControlInv, MapPhase, Quiet, ListsAlone
  <2> QED BY <2>1, <2>2 DEF ControlInv
<1>3. CASE ResetOver
  <2>1. MapLists(c)'
    BY <1>1, <1>3, ListsKept DEF ControlInv, ResetOver
  <2>2. MapPhase(c)'
    BY <1>1, <1>3 DEF ControlInv, MapPhase, ResetOver
  <2> QED BY <2>1, <2>2 DEF ControlInv
<1>4. CASE M!mc_reset
  BY <1>1, <1>4, ControlMcReset
<1>5. CASE M!Grab
  BY <1>1, <1>5, ControlGrab
<1>6. CASE M!Pass
  BY <1>1, <1>6, ControlPass
<1>7. CASE M!Grabbed
  <2>1. mc_at.at = "grab" /\ mc_at.cur = 0 /\ mc_at'.at = "clear" /\ ListsAlone
    BY <1>7, GrabbedStep DEF ListsAlone, MapApart
  <2>2. c = 0
    BY <1>1, <2>1 DEF ControlInv, MapPhase
  <2>3. MapLists(c)'
    BY <1>1, <2>1, ListsKept DEF ControlInv
  <2>4. MapPhase(c)'
    BY <2>1, <2>2 DEF MapPhase
  <2> QED BY <2>3, <2>4 DEF ControlInv
<1>8. Quiet \/ ResetOver \/ M!mc_reset \/ M!Grab \/ M!Pass \/ M!Grabbed
  BY TypedNext DEF MapApart
<1> QED BY <1>2, <1>3, <1>4, <1>5, <1>6, <1>7, <1>8

-----------------------------------------------------------------------------
(* The controller has the first two memories, and no other.                *)
MapPair == MapConfigured /\ own = {1, 2}

(* The other memories, in order, and behind them memory x.                 *)
Leads(x) ==
  /\ NAreas >= 3 => mc_areas = NAreas /\ mc_next[3] = x
  /\ NAreas < 3 => mc_areas = x
  /\ \A b \in 4 .. NAreas : mc_next[b] = b - 1

(* The two memories stay in the list of the others: f and behind it g.     *)
(* Between resets it is also the controller's list.                        *)
PairWalk(f, g) ==
  /\ Leads(f) /\ mc_next[f] = g /\ mc_next[g] = 0 /\ mine \in {f, 0}
  /\ mc_at.at \in {"run", "clear"} => mine = f
  /\ mc_at.at = "grab" =>
       \/ mc_at.cur = 0 /\ mine = f
       \/ mc_at.cur \in 3 .. NAreas
       \/ mc_at.cur = f /\ mc_at.prev = (IF NAreas >= 3 THEN 3 ELSE 0)

(* While mc_reset goes from f to g the list begins at g.                   *)
PairHalf(f, g) ==
  /\ Leads(g) /\ mc_next[g] = 0 /\ mine = f
  /\ mc_at.at = "grab" /\ mc_at.cur = g /\ mc_at.prev = f

PairInv ==
  \E f, g \in {1, 2} : f # g /\ (PairWalk(f, g) \/ PairHalf(f, g))

(* The numbers of the two and of the others.                               *)
LEMMA PairFacts ==
  ASSUME MapPair, MapTyped
  PROVE  /\ NAreas \in Nat /\ NAreas >= 2 /\ M!Areas = 1 .. NAreas
         /\ \A b \in 3 .. NAreas : b \in M!Areas /\ b \in Nat /\ b # 1 /\ b # 2 /\ b >= 3
         /\ mc_next \in [M!Areas -> M!Areas \cup {0}]
<1>1. /\ NAreas \in Nat /\ NAreas >= 1 /\ M!Areas = 1 .. NAreas
      /\ \A a \in own : a \in M!Areas /\ a \in Nat /\ a >= 1 /\ a <= NAreas
  BY AreaFacts, TypedFacts DEF MapPair
<1>2. 2 \in own
  BY DEF MapPair
<1> QED BY <1>1, <1>2, TypedFacts

(* The memories are in their initial order before the first reset.         *)
LEMMA PairInit ==
  ASSUME MapPair, M!Init
  PROVE  PairInv
<1>1. /\ NAreas \in Nat /\ NAreas >= 2 /\ M!Areas = 1 .. NAreas
  BY PairFacts, TypedInit DEF MapPair
<1>2. /\ mc_next = [a \in M!Areas |-> a - 1] /\ mc_areas = NAreas /\ mine = 0 /\ mc_at.at = "start"
  BY DEF M!Init, M!NULL
<1>3. \A b \in 1 .. NAreas : mc_next[b] = b - 1
  BY <1>1, <1>2
<1>4. Leads(2)
  BY <1>1, <1>2, <1>3 DEF Leads
<1>5. mc_next[2] = 1 /\ mc_next[1] = 0
  BY <1>1, <1>3
<1>6. PairWalk(2, 1)
  BY <1>2, <1>4, <1>5 DEF PairWalk
<1> QED BY <1>6 DEF PairInv

(* Both memories are the controller's once the list has been walked.       *)
LEMMA PairListed ==
  ASSUME MapPair, MapTyped, PairInv
  PROVE  ListsDone
<1> SUFFICES ASSUME mc_at.at \in {"run", "clear"} PROVE M!Listed(mine) = own
  BY DEF ListsDone
<1> DEFINE Closed(S) == {mine} \cup {mc_next[a] : a \in S} \subseteq S \cup {0}
<1>1. M!Listed(mine) = {a \in M!Areas : \A S \in SUBSET M!Areas : Closed(S) => a \in S}
  BY DEF M!Listed, M!NULL
<1>2. PICK f \in {1, 2}, g \in {1, 2} : f # g /\ mine = f /\ mc_next[f] = g /\ mc_next[g] = 0
  BY DEF PairInv, PairWalk, PairHalf
<1>3. own = {f, g} /\ own \in SUBSET M!Areas /\ f # 0 /\ g # 0
  BY <1>2, PairFacts DEF MapPair
<1>4. Closed(own)
  BY <1>2, <1>3
<1>5. ASSUME NEW S \in SUBSET M!Areas, Closed(S) PROVE f \in S /\ g \in S
  <2>1. f \in S
    BY <1>2, <1>3, <1>5
  <2>2. mc_next[f] \in S \cup {0}
    BY <1>5, <2>1
  <2> QED BY <1>2, <1>3, <2>1, <2>2
<1> QED BY <1>1, <1>3, <1>4, <1>5

(* The first of the two is taken out of the list of the others, and put at *)
(* the head of the controller's.                                           *)
LEMMA PairGrabFirst ==
  ASSUME MapPair, MapTyped, NEW f \in {1, 2}, NEW g \in {1, 2}, f # g, PairWalk(f, g), M!Grab
  PROVE  PairHalf(f, g)'
<1>1. /\ NAreas \in Nat /\ NAreas >= 2 /\ M!Areas = 1 .. NAreas /\ f \in M!Areas /\ g \in M!Areas
      /\ mc_next \in [M!Areas -> M!Areas \cup {0}]
  BY PairFacts
<1>2. /\ mc_at.at = "grab" /\ mc_at'.at = "grab" /\ mc_at.cur \in {1, 2}
      /\ mine' = mc_at.cur /\ mc_at'.prev = mc_at.cur
      /\ mc_areas' = IF mc_at.prev = 0 THEN mc_next[mc_at.cur] ELSE mc_areas
  BY GrabStep DEF MapPair
<1>3. /\ mc_at.cur = f /\ mc_at.prev = (IF NAreas >= 3 THEN 3 ELSE 0)
      /\ mc_next[f] = g /\ mc_next[g] = 0 /\ Leads(f)
  BY <1>2, PairFacts DEF PairWalk
<1>4. PICK unlinked :
        /\ unlinked = IF mc_at.prev # 0
                      THEN [mc_next EXCEPT ![mc_at.prev] = mc_next[mc_at.cur]] ELSE mc_next
        /\ mc_next' = [unlinked EXCEPT ![mc_at.cur] = mine]
        /\ mc_at'.cur = unlinked[mc_at.cur]
  BY GrabStep DEF MapPair
<1>5. CASE NAreas >= 3
  <2>1. unlinked = [mc_next EXCEPT ![3] = g] /\ mc_next' = [unlinked EXCEPT ![f] = mine] /\ 3 \in M!Areas
    BY <1>1, <1>3, <1>4, <1>5
  <2>2. /\ mc_next'[3] = g /\ mc_next'[g] = 0 /\ mc_at'.cur = g
        /\ \A b \in 4 .. NAreas : mc_next'[b] = mc_next[b]
    BY <1>1, <1>3, <1>4, <2>1
  <2>3. Leads(g)'
    BY <1>1, <1>2, <1>3, <1>5, <2>2 DEF Leads
  <2> QED BY <1>2, <1>3, <2>2, <2>3 DEF PairHalf
<1>6. CASE ~ (NAreas >= 3)
  <2>1. NAreas = 2 /\ unlinked = mc_next /\ mc_next' = [mc_next EXCEPT ![f] = mine] /\ mc_areas' = g
    BY <1>1, <1>2, <1>3, <1>4, <1>6
  <2>2. mc_next'[g] = 0 /\ mc_at'.cur = g
    BY <1>1, <1>3, <1>4, <2>1
  <2>3. Leads(g)'
    BY <2>1 DEF Leads
  <2> QED BY <1>2, <1>3, <2>2, <2>3 DEF PairHalf
<1> QED BY <1>5, <1>6

(* The second one is unlinked behind the first, where it is not, and put   *)
(* before it: the order of the two is exchanged, in both lists.            *)
LEMMA PairGrabSecond ==
  ASSUME MapPair, MapTyped, NEW f \in {1, 2}, NEW g \in {1, 2}, f # g, PairHalf(f, g), M!Grab
  PROVE  PairWalk(g, f)'
<1>1. /\ NAreas \in Nat /\ NAreas >= 2 /\ M!Areas = 1 .. NAreas /\ f \in M!Areas /\ g \in M!Areas
      /\ mc_next \in [M!Areas -> M!Areas \cup {0}]
  BY PairFacts
<1>2. /\ mc_at'.at = "grab" /\ mine' = mc_at.cur
      /\ mc_areas' = IF mc_at.prev = 0 THEN mc_next[mc_at.cur] ELSE mc_areas
  BY GrabStep DEF MapPair
<1>3. mc_at.cur = g /\ mc_at.prev = f /\ mc_next[g] = 0 /\ Leads(g) /\ mine = f /\ f # 0
  BY DEF PairHalf
<1>4. PICK unlinked :
        /\ unlinked = IF mc_at.prev # 0
                      THEN [mc_next EXCEPT ![mc_at.prev] = mc_next[mc_at.cur]] ELSE mc_next
        /\ mc_next' = [unlinked EXCEPT ![mc_at.cur] = mine]
        /\ mc_at'.cur = unlinked[mc_at.cur]
  BY GrabStep DEF MapPair
<1>5. unlinked = [mc_next EXCEPT ![f] = 0] /\ mc_next' = [unlinked EXCEPT ![g] = f]
  BY <1>3, <1>4
<1>6. /\ mc_next'[g] = f /\ mc_next'[f] = 0 /\ mc_at'.cur = 0 /\ mc_areas' = mc_areas
      /\ \A b \in 3 .. NAreas : mc_next'[b] = mc_next[b]
  BY <1>1, <1>2, <1>3, <1>4, <1>5
<1>7. Leads(g)'
  BY <1>1, <1>3, <1>6 DEF Leads
<1> QED BY <1>2, <1>3, <1>6, <1>7 DEF PairWalk

(* Every step keeps the invariant of the lists.                            *)
LEMMA PairNext ==
  ASSUME MapPair, MapTyped, PairInv, [M!Next]_(M!vars)
  PROVE  PairInv'
<1>1. PICK f \in {1, 2}, g \in {1, 2} : f # g /\ (PairWalk(f, g) \/ PairHalf(f, g))
  BY DEF PairInv
<1>2. /\ NAreas \in Nat /\ NAreas >= 2 /\ M!Areas = 1 .. NAreas
      /\ \A b \in 3 .. NAreas : b \in M!Areas /\ b \in Nat /\ b # 1 /\ b # 2 /\ b >= 3
  BY PairFacts
<1>3. ASSUME ListsAlone PROVE \A x : Leads(x) => Leads(x)'
  BY <1>3 DEF ListsAlone, Leads
<1>4. CASE Quiet
  <2>1. PairWalk(f, g) => PairWalk(f, g)'
    BY <1>3, <1>4 DEF PairWalk, Quiet, ListsAlone
  <2>2. PairHalf(f, g) => PairHalf(f, g)'
    BY <1>3, <1>4 DEF PairHalf, Quiet, ListsAlone
  <2> QED BY <1>1, <2>1, <2>2 DEF PairInv
<1>5. CASE ResetOver
  <2>1. PairWalk(f, g) /\ mine = f
    BY <1>1, <1>5 DEF PairWalk, PairHalf, ResetOver
  <2>2. PairWalk(f, g)'
    BY <1>3, <1>5, <2>1 DEF PairWalk, ResetOver, ListsAlone
  <2> QED BY <1>1, <2>2 DEF PairInv
<1>6. CASE M!mc_reset
  <2>1. /\ mc_at.at = "start" /\ mc_at'.at = "grab" /\ mc_at'.cur = mc_areas /\ mc_at'.prev = 0
        /\ ListsAlone
    BY <1>6, McResetStep DEF MapPair, ListsAlone
  <2>2. PairWalk(f, g)
    BY <1>1, <2>1 DEF PairHalf
  <2>3. mc_areas \in 3 .. NAreas \/ (mc_areas = f /\ ~ (NAreas >= 3))
    BY <1>2, <2>2 DEF PairWalk, Leads
  <2>4. PairWalk(f, g)'
    BY <1>3, <2>1, <2>2, <2>3 DEF PairWalk, ListsAlone
  <2> QED BY <1>1, <2>4 DEF PairInv
<1>7. CASE M!Grab
  <2>1. CASE PairWalk(f, g)
    BY <1>1, <1>7, <2>1, PairGrabFirst DEF PairInv
  <2>2. CASE PairHalf(f, g)
    BY <1>1, <1>7, <2>2, PairGrabSecond DEF PairInv
  <2> QED BY <1>1, <2>1, <2>2
<1>8. CASE M!Pass
  <2>1. /\ mc_at.at = "grab" /\ mc_at'.at = "grab" /\ mc_at.cur \in M!Areas \ {1, 2}
        /\ mc_at'.cur = mc_next[mc_at.cur] /\ mc_at'.prev = mc_at.cur
        /\ ListsAlone
    BY <1>8, PassStep DEF MapPair, ListsAlone
  <2>2. PairWalk(f, g)
    BY <1>1, <2>1 DEF PairHalf
  <2>3. mc_at.cur \in 3 .. NAreas
    BY <1>2, <2>1
  <2>4. \/ mc_at'.cur \in 3 .. NAreas
        \/ mc_at'.cur = f /\ mc_at'.prev = 3 /\ NAreas >= 3
    <3>1. CASE mc_at.cur = 3
      BY <1>2, <2>1, <2>2, <2>3, <3>1 DEF PairWalk, Leads
    <3>2. CASE mc_at.cur # 3
      <4>1. PICK b \in 4 .. NAreas : b = mc_at.cur
        BY <1>2, <2>3, <3>2
      <4>2. mc_next[b] = b - 1
        BY <2>2 DEF PairWalk, Leads
      <4>3. b - 1 \in 3 .. NAreas
        BY <1>2
      <4> QED BY <2>1, <4>1, <4>2, <4>3
    <3> QED BY <3>1, <3>2
  <2>5. PairWalk(f, g)'
    BY <1>3, <2>1, <2>2, <2>4 DEF PairWalk, ListsAlone
  <2> QED BY <1>1, <2>5 DEF PairInv
<1>9. CASE M!Grabbed
  <2>1. mc_at.at = "grab" /\ mc_at.cur = 0 /\ mc_at'.at = "clear" /\ ListsAlone
    BY <1>9, GrabbedStep DEF ListsAlone, MapPair
  <2>2. PairWalk(f, g) /\ mine = f
    BY <1>1, <1>2, <2>1 DEF PairWalk, PairHalf
  <2>3. PairWalk(f, g)'
    BY <1>3, <2>1, <2>2 DEF PairWalk, ListsAlone
  <2> QED BY <1>1, <2>3 DEF PairInv
<1>10. Quiet \/ ResetOver \/ M!mc_reset \/ M!Grab \/ M!Pass \/ M!Grabbed
  BY TypedNext DEF MapPair
<1> QED BY <1>4, <1>5, <1>6, <1>7, <1>8, <1>9, <1>10

-----------------------------------------------------------------------------
(* The lists of a configuration that mc_reset copes with.                  *)
CopesInv ==
  \/ MapApart /\ \E c \in 0 .. NAreas : ControlInv(c)
  \/ MapPair /\ PairInv

(* The controller then has its memories.                                   *)
LEMMA CopesListed ==
  ASSUME MapTyped, CopesInv
  PROVE  ListsDone
<1>1. CASE MapPair /\ PairInv
  BY <1>1, PairListed
<1>2. CASE MapApart /\ \E c \in 0 .. NAreas : ControlInv(c)
  <2> SUFFICES ASSUME mc_at.at \in {"run", "clear"} PROVE M!Listed(mine) = own
    BY DEF ListsDone
  <2>1. PICK c \in 0 .. NAreas : MapLists(c) /\ MapPhase(c)
    BY <1>2 DEF ControlInv
  <2>2. c = 0
    BY <2>1 DEF MapPhase
  <2> QED BY <1>2, <2>1, <2>2, ListedIsOwn, TypedFacts
<1> QED BY <1>1, <1>2 DEF CopesInv

(* Whatever memories are configured for the memory controller, the links   *)
(* and the areas stay sound; and where mc_reset copes with them (the first *)
(* two of all memories, or any set without two that register one right     *)
(* after the other) the controller has exactly those memories after every  *)
(* reset and they are where its registers say, for every number of         *)
(* memories and every sequence of register writes, accesses and resets.    *)
THEOREM ControllerIsExact ==
  ASSUME MapConfigured
  PROVE  M!Spec => []M!ControllerExact
<1> DEFINE Inv == MapTyped /\ (M!Copes => CopesInv /\ MapCleared /\ M!FollowsRegisters)
<1>1. M!Init => Inv
  <2> SUFFICES ASSUME M!Init PROVE Inv
    OBVIOUS
  <2>1. MapTyped
    BY TypedInit
  <2>2. mc_at.at = "start"
    BY DEF M!Init
  <2>3. MapCleared /\ M!FollowsRegisters
    BY <2>2 DEF MapCleared, M!FollowsRegisters, M!Idle
  <2>4. ASSUME M!Copes PROVE CopesInv
    <3>1. CASE own = {1, 2}
      BY <3>1, PairInit DEF MapPair, CopesInv
    <3>2. CASE \A a \in own : a + 1 \notin own
      <4>1. MapApart
        BY <3>2 DEF MapApart
      <4>2. NAreas \in 0 .. NAreas
        BY DEF MapConfigured, MapSizes
      <4> QED BY <4>1, <4>2, ControlInit DEF CopesInv
    <3> QED BY <2>4, <3>1, <3>2 DEF M!Copes
  <2> QED BY <2>1, <2>3, <2>4
<1>2. Inv /\ [M!Next]_(M!vars) => Inv'
  <2> SUFFICES ASSUME Inv, [M!Next]_(M!vars) PROVE Inv'
    OBVIOUS
  <2>1. MapTyped' /\ own' = own
    BY TypedNext
  <2>2. ASSUME M!Copes' PROVE CopesInv' /\ MapCleared' /\ M!FollowsRegisters'
    <3>1. M!Copes
      BY <2>1, <2>2 DEF M!Copes
    <3>2. CopesInv'
      <4>1. CASE MapPair /\ PairInv
        <5>1. PairInv'
          BY <4>1, PairNext
        <5> QED BY <2>1, <4>1, <5>1 DEF CopesInv, MapPair
      <4>2. CASE MapApart /\ \E c \in 0 .. NAreas : ControlInv(c)
        <5>1. \E c \in 0 .. NAreas : ControlInv(c)'
          BY <4>2, ControlNext
        <5>2. MapApart'
          BY <2>1, <4>2 DEF MapApart
        <5> QED BY <5>1, <5>2 DEF CopesInv
      <4> QED BY <3>1, <4>1, <4>2 DEF CopesInv
    <3>3. ListsDone
      BY <3>1, CopesListed
    <3>4. ListsDone'
      BY <2>1, <3>2, CopesListed, PTL
    <3> QED BY <3>1, <3>2, <3>3, <3>4, AreasNext
  <2> QED BY <2>1, <2>2
<1>3. Inv => M!ControllerExact
  <2> SUFFICES ASSUME Inv PROVE M!ControllerExact
    OBVIOUS
  <2>1. M!TypeOK
    BY DEF MapTyped
  <2>2. ASSUME M!Copes PROVE M!Controlled /\ M!FollowsRegisters
    <3>1. ListsDone
      BY <2>2, CopesListed
    <3> QED BY <2>2, <3>1 DEF ListsDone, M!Controlled, M!Idle
  <2> QED BY <2>1, <2>2 DEF M!ControllerExact
<1> HIDE DEF Inv
<1> QED BY <1>1, <1>2, <1>3, PTL DEF M!Spec
=============================================================================
