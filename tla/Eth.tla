--------------------------------- MODULE Eth ---------------------------------
(***************************************************************************)
(* The Ethernet controller (peripheral/eth.c): two rings of buffer         *)
(* descriptors in one memory, the periodic jobs eth_controller_tx_clock    *)
(* and eth_controller_rx_clock, the interrupt line with its shadow         *)
(* int_line_stat, and the register writes of a driver that runs            *)
(* concurrently with the jobs.                                             *)
(*                                                                         *)
(* Descriptors are numbered from 0 (the code counts words, two per         *)
(* descriptor), those below TX_BD_NUM are for transmission.  A packet is a *)
(* number modulo PacketMod.  The driver keeps the protocol of the device:  *)
(* it takes the descriptors of a ring in order, touches only those that    *)
(* are its own while the ring is enabled, changes TX_BD_NUM only while     *)
(* both are disabled, and sets WRAP in the last descriptor (rx_bd_index    *)
(* is not tested against the end of bd_ram before it is used).             *)
(*                                                                         *)
(* What a behaviour observes is the packets of one ring, the other being   *)
(* disabled, or the interrupts of both: then packets are not told apart,   *)
(* and only then there are descriptors without IRQ and failures of the     *)
(* host, and TX_BD_NUM keeps its reset value.                              *)
(***************************************************************************)
EXTENDS Naturals, Sequences, FiniteSets

CONSTANTS
  NBD,             \* ETH_BD_COUNT / 2 = 128: number of descriptors
  TxBdNums,        \* bound: the values the driver writes to TX_BD_NUM
  TxBdReset,       \* 64: TX_BD_NUM after a reset
  MaxWaiting,      \* bound: packets waiting at the TAP device
  PacketMod        \* bound: numbers that tell packets apart

ASSUME EthConstants ==
  /\ NBD \in Nat /\ PacketMod \in Nat /\ PacketMod >= NBD
  /\ TxBdNums \subseteq 1 .. NBD - 1 /\ TxBdReset \in 1 .. NBD - 1
  /\ MaxWaiting \in Nat

VARIABLES
  eth,             \* registers, descriptors and jobs of the device
  line,            \* what the PIC holds of the interrupt line
  rtx_type,        \* "FILE" or "TAP"
  waiting,         \* packets waiting at the TAP device
  drv,             \* the driver's place in the observed ring, and history
  owed,            \* history: interrupts the driver has still to see
  observed         \* "tx", "rx" or "irq"

vars == <<eth, line, rtx_type, waiting, drv, owed, observed>>
host == <<rtx_type, waiting, observed>>

Sources == {"TXB", "TXE", "RXB", "RXE", "BUSY"}
None == PacketMod
Packets == 0 .. PacketMod - 1
Inc(p) == (p + 1) % PacketMod

EmptyBD == [ready |-> FALSE, irq |-> FALSE, pkt |-> None]
Wrap(i) == i = NBD - 1

(* The two rings, as the i-th descriptor after a given one.                *)
TxRing(e) == 0 .. e.tx_bd_num - 1
RxRing(e) == e.tx_bd_num .. NBD - 1
TxAfter(e, start, i) == (start + i) % e.tx_bd_num
RxAfter(e, start, i) == e.tx_bd_num + ((start - e.tx_bd_num + i) % (NBD - e.tx_bd_num))

(* The registers after eth_reset.                                          *)
ResetRegs ==
  [moder |-> {}, int_source |-> {}, int_mask |-> {}, int_line_stat |-> FALSE,
   tx_bd_num |-> TxBdReset, tx_bd_index |-> 0, rx_bd_index |-> TxBdReset,
   bd |-> [i \in 0 .. NBD - 1 |-> EmptyBD], jobs |-> [rx_clock |-> 0, tx_clock |-> 0]]

NoHistory == [pos |-> 0, count |-> 0, next |-> 0, clean |-> FALSE]

Init ==
  /\ eth = ResetRegs
  /\ line = FALSE
  /\ rtx_type \in {"FILE", "TAP"}
  /\ waiting = 0
  /\ drv = NoHistory /\ owed = {}
  /\ observed \in {"tx", "rx", "irq"}

-----------------------------------------------------------------------------
(* The controller.                                                         *)

(* A source becomes pending.  If its condition holds and no interrupt is   *)
(* active, the line is reported; if one is active, a warning is printed.   *)
Reports(e, source, irq) == source \in e.int_mask /\ irq /\ ~e.int_line_stat
Raised(e, source, irq) ==
  [e EXCEPT !.int_source = @ \cup {source}, !.int_line_stat = @ \/ Reports(e, source, irq)]
Owing(e, source, irq) == IF source \in e.int_mask /\ irq THEN owed \cup {source} ELSE owed

Signal(e, source, irq) ==
  /\ eth' = Raised(e, source, irq)
  /\ line' = (line \/ Reports(e, source, irq))
  /\ owed' = Owing(e, source, irq)

(* Faulty variant: the driver's buffer is given back, the index stays.     *)
eth_flush_bd_stay(written) ==
  LET i == eth.tx_bd_index
  IN  /\ Signal([eth EXCEPT !.bd[i].ready = FALSE],
                IF written THEN "TXB" ELSE "TXE", eth.bd[i].irq)
      /\ drv' = IF observed = "tx" THEN [drv EXCEPT !.next = Inc(eth.bd[i].pkt)] ELSE drv

(* The packet is written to the host, in whole or not; either way the      *)
(* descriptor is done.                                                     *)
eth_flush_bd(written) ==
  LET i == eth.tx_bd_index
  IN  /\ Signal([eth EXCEPT !.bd[i].ready = FALSE,
                            !.tx_bd_index = IF Wrap(i) \/ i >= eth.tx_bd_num - 1 THEN 0 ELSE i + 1],
                IF written THEN "TXB" ELSE "TXE", eth.bd[i].irq)
      /\ drv' = IF observed = "tx" THEN [drv EXCEPT !.next = Inc(eth.bd[i].pkt)] ELSE drv

eth_controller_tx_clock ==
  /\ eth.jobs.tx_clock > 0
  /\ ~eth.int_line_stat
  /\ eth.bd[eth.tx_bd_index].ready
  /\ \E written \in BOOLEAN : (written \/ observed = "irq") /\ eth_flush_bd(written)
  /\ UNCHANGED host

(* Faulty variant: the next packet goes to the same descriptor.           *)
Fill_stay ==
  LET i == eth.rx_bd_index
      p == IF observed = "rx" THEN drv.count ELSE 0
  IN  /\ Signal([eth EXCEPT !.bd[i] = [@ EXCEPT !.ready = FALSE, !.pkt = p]],
                "RXB", eth.bd[i].irq)
      /\ drv' = IF observed = "rx" THEN [drv EXCEPT !.count = Inc(@)] ELSE drv

(* eth_fill_bd when eth_read_packet returned a packet that is for us.      *)
Fill ==
  LET i == eth.rx_bd_index
      p == IF observed = "rx" THEN drv.count ELSE 0
  IN  /\ Signal([eth EXCEPT !.bd[i] = [@ EXCEPT !.ready = FALSE, !.pkt = p],
                            !.rx_bd_index = IF Wrap(i) THEN eth.tx_bd_num ELSE i + 1],
                "RXB", eth.bd[i].irq)
      /\ drv' = IF observed = "rx" THEN [drv EXCEPT !.count = Inc(@)] ELSE drv

(* eth_fill_bd: a packet for us (or any, with MODER[PRO]); one for         *)
(* somebody else, which is dropped; a read error of the TAP device.  End   *)
(* of file, and an error of the file, change nothing.                      *)
eth_fill_bd ==
  /\ rtx_type = "TAP" => waiting > 0
  /\ \/ /\ Fill
        /\ waiting' = IF rtx_type = "TAP" THEN waiting - 1 ELSE waiting
     \/ /\ waiting' = IF rtx_type = "TAP" THEN waiting - 1 ELSE waiting
        /\ UNCHANGED <<eth, line, owed, drv>>
     \/ /\ rtx_type = "TAP" /\ observed = "irq"
        /\ Signal(eth, "RXE", TRUE)
        /\ UNCHANGED <<waiting, drv>>
  /\ UNCHANGED <<rtx_type, observed>>

(* With a descriptor that is not ready nothing happens: that branch is for *)
(* rtx_type FILE, whose rtx_fd is -1, so that eth_ignore_tap_packets finds *)
(* nothing to ignore and BUSY is never set.                                *)
eth_controller_rx_clock ==
  /\ eth.jobs.rx_clock > 0
  /\ ~eth.int_line_stat
  /\ eth.bd[eth.rx_bd_index].ready
  /\ eth_fill_bd

(* Packets come in from the network whenever they like.                    *)
NetArrives ==
  /\ rtx_type = "TAP" /\ waiting < MaxWaiting
  /\ waiting' = waiting + 1
  /\ UNCHANGED <<eth, line, rtx_type, drv, owed, observed>>

-----------------------------------------------------------------------------
(* Register writes.                                                        *)

Enabled(m, bit) == bit \notin eth.moder /\ bit \in m

(* Faulty variant: disabling leaves the job in the queue.                  *)
Rescheduled_enable(m) ==
  LET Count(n, bit) == IF Enabled(m, bit) THEN n + 1 ELSE n
  IN  [rx_clock |-> Count(eth.jobs.rx_clock, "RXEN"), tx_clock |-> Count(eth.jobs.tx_clock, "TXEN")]

(* A job is added when its bit goes up, whether one is queued or not; when *)
(* the bit goes down the first one that is found is removed.               *)
Rescheduled(m) ==
  LET Count(n, bit) == CASE Enabled(m, bit) -> n + 1
                         [] bit \in eth.moder \ m /\ n > 0 -> n - 1
                         [] OTHER -> n
  IN  [rx_clock |-> Count(eth.jobs.rx_clock, "RXEN"), tx_clock |-> Count(eth.jobs.tx_clock, "TXEN")]

(* Enabling reception flushes what waits at a TAP device, until a read     *)
(* fails, which is signalled as in eth_fill_bd.  A reset comes after the   *)
(* jobs were changed, leaves them alone, and does not take back the line.  *)
write_MODER(m, rst, fails) ==
  /\ fails => Enabled(m, "RXEN") /\ rtx_type = "TAP" /\ waiting > 0 /\ observed = "irq"
  /\ LET d == IF fails THEN Raised(eth, "RXE", TRUE) ELSE eth
         e == [d EXCEPT !.jobs = Rescheduled(m),
                        !.rx_bd_index = IF Enabled(m, "RXEN") THEN eth.tx_bd_num ELSE @,
                        !.tx_bd_index = IF Enabled(m, "TXEN") THEN 0 ELSE @]
         f == IF rst THEN [ResetRegs EXCEPT !.jobs = e.jobs] ELSE e
     IN  /\ eth' = [f EXCEPT !.moder = m]
         /\ drv' = CASE observed = "tx" /\ (Enabled(m, "TXEN") \/ rst) ->
                          [NoHistory EXCEPT !.clean = \A i \in TxRing(f) : ~f.bd[i].ready]
                     [] observed = "rx" /\ (Enabled(m, "RXEN") \/ rst) ->
                          [NoHistory EXCEPT !.pos = f.tx_bd_num,
                                            !.clean = \A i \in RxRing(f) : f.bd[i].pkt = None]
                     [] OTHER -> drv
  /\ line' = (line \/ (fails /\ Reports(eth, "RXE", TRUE)))
  /\ owed' = CASE rst -> {} [] fails /\ ~rst -> Owing(eth, "RXE", TRUE) [] OTHER -> owed
  /\ waiting' \in IF fails THEN 1 .. waiting ELSE {IF Enabled(m, "RXEN") THEN 0 ELSE waiting}
  /\ UNCHANGED <<rtx_type, observed>>

(* Faulty variant: the line goes down while another source is pending.     *)
write_INT_SOURCE_any(value) ==
  /\ eth' = [eth EXCEPT !.int_source = @ \ value, !.int_line_stat = FALSE]
  /\ line' = (line /\ ~eth.int_line_stat)
  /\ owed' = owed \ value
  /\ UNCHANGED <<host, drv>>

(* Faulty variant: the shadow of the line is left set.                     *)
write_INT_SOURCE_shadow(value) ==
  /\ eth' = [eth EXCEPT !.int_source = @ \ value]
  /\ line' = (line /\ (eth.int_source \ value) \cap eth.int_mask # {})
  /\ owed' = owed \ value
  /\ UNCHANGED <<host, drv>>

write_INT_SOURCE(value) ==
  /\ LET clear == (eth.int_source \ value) \cap eth.int_mask = {} /\ eth.int_line_stat
     IN  /\ eth' = [eth EXCEPT !.int_source = @ \ value, !.int_line_stat = @ /\ ~clear]
         /\ line' = (line /\ ~clear)
  /\ owed' = owed \ value
  /\ UNCHANGED <<host, drv>>

(* A pending source that is enabled is not reported; an active line is     *)
(* taken back.                                                             *)
write_INT_MASK(mask) ==
  /\ eth' = [eth EXCEPT !.int_mask = mask, !.int_line_stat = FALSE]
  /\ line' = (line /\ ~eth.int_line_stat)
  /\ owed' = {}
  /\ UNCHANGED <<host, drv>>

write_TX_BD_NUM(n) ==
  /\ eth.moder = {} /\ observed # "irq"
  /\ eth' = [eth EXCEPT !.tx_bd_num = n, !.rx_bd_index = n]
  /\ UNCHANGED <<host, line, drv, owed>>

(* The driver sets up a descriptor of a disabled ring.                     *)
write_BD(i) ==
  /\ (IF i \in TxRing(eth) THEN "TXEN" ELSE "RXEN") \notin eth.moder
  /\ eth' = [eth EXCEPT !.bd[i] = IF i \in TxRing(eth) THEN EmptyBD
                                  ELSE [EmptyBD EXCEPT !.ready = TRUE, !.irq = TRUE]]
  /\ UNCHANGED <<host, line, drv, owed>>

(* The driver hands a packet to the next descriptor of the transmit ring.  *)
SendPacket(i, irq) ==
  /\ "TXEN" \in eth.moder /\ i \in TxRing(eth) /\ ~eth.bd[i].ready
  /\ observed = "tx" => i = drv.pos
  /\ irq \/ observed = "irq"
  /\ eth' = [eth EXCEPT !.bd[i] = [ready |-> TRUE, irq |-> irq,
                                   pkt |-> IF observed = "tx" THEN drv.count ELSE 0]]
  /\ drv' = IF observed = "tx"
            THEN [drv EXCEPT !.pos = TxAfter(eth, i, 1), !.count = Inc(@)] ELSE drv
  /\ UNCHANGED <<host, line, owed>>

(* The driver takes a packet from the next descriptor of the receive ring  *)
(* and gives the descriptor back.                                          *)
TakePacket(i, irq) ==
  /\ "RXEN" \in eth.moder /\ i \in RxRing(eth) /\ ~eth.bd[i].ready /\ eth.bd[i].pkt # None
  /\ observed = "rx" => i = drv.pos
  /\ irq \/ observed = "irq"
  /\ eth' = [eth EXCEPT !.bd[i] = [ready |-> TRUE, irq |-> irq, pkt |-> None]]
  /\ drv' = IF observed = "rx"
            THEN [drv EXCEPT !.pos = RxAfter(eth, i, 1), !.next = Inc(eth.bd[i].pkt)] ELSE drv
  /\ UNCHANGED <<host, line, owed>>

(* sim_reset: the scheduler's queue and the PIC are reset too.             *)
sim_reset ==
  /\ eth' = ResetRegs
  /\ line' = FALSE
  /\ drv' = NoHistory /\ owed' = {}
  /\ UNCHANGED host

Clocks == eth_controller_tx_clock \/ eth_controller_rx_clock

Bits == CASE observed = "tx" -> {"TXEN"} [] observed = "rx" -> {"RXEN"} [] OTHER -> {"RXEN", "TXEN"}

Driver ==
  \/ \E m \in SUBSET Bits, rst, fails \in BOOLEAN : write_MODER(m, rst, fails)
  \/ \E value \in {Sources, {"TXB", "TXE"}, {"RXB", "RXE"}} : write_INT_SOURCE(value)
  \/ \E mask \in {{}, Sources} : write_INT_MASK(mask)
  \/ \E n \in TxBdNums : write_TX_BD_NUM(n)
  \/ \E i \in 0 .. NBD - 1 : write_BD(i)
  \/ \E i \in 0 .. NBD - 1, irq \in BOOLEAN : SendPacket(i, irq) \/ TakePacket(i, irq)

Next == Clocks \/ NetArrives \/ Driver \/ sim_reset

(* The jobs run every RTX_RESCHED_PERIOD cycles; the driver's handler      *)
(* acknowledges an active interrupt.                                       *)
Acknowledge == eth.int_line_stat /\ write_INT_SOURCE(Sources)
Fairness ==
  /\ WF_vars(eth_controller_tx_clock) /\ WF_vars(eth_controller_rx_clock)
  /\ WF_vars(Acknowledge)

Spec == Init /\ [][Next]_vars
FairSpec == Spec /\ Fairness

-----------------------------------------------------------------------------
BDs == [ready : BOOLEAN, irq : BOOLEAN, pkt : Packets \cup {None}]

(* Types; the indices stay inside their rings.                             *)
TypeOK ==
  /\ eth.moder \subseteq {"RXEN", "TXEN"}
  /\ eth.int_source \subseteq Sources /\ eth.int_mask \subseteq Sources
  /\ eth.int_line_stat \in BOOLEAN /\ line \in BOOLEAN
  /\ eth.tx_bd_num \in 1 .. NBD - 1
  /\ eth.bd \in [0 .. NBD - 1 -> BDs]
  /\ waiting \in 0 .. MaxWaiting
  /\ "TXEN" \in eth.moder => eth.tx_bd_index \in TxRing(eth)
  /\ eth.rx_bd_index \in RxRing(eth)

(* Each clock job is queued once while its enable bit is set and not at    *)
(* all otherwise, through every sequence of MODER writes, resets of the    *)
(* device included.                                                        *)
JobsFollowModer ==
  /\ eth.jobs.rx_clock = IF "RXEN" \in eth.moder THEN 1 ELSE 0
  /\ eth.jobs.tx_clock = IF "TXEN" \in eth.moder THEN 1 ELSE 0

(* No interrupt is dropped: as long as the driver has neither cleared the  *)
(* source nor rewritten the mask since, an interrupt that a completed      *)
(* descriptor asked for holds the line, in the device and at the PIC.      *)
(* The code prints "Interrupt active during ..." where it would drop one.  *)
OwedIsActive == owed # {} => eth.int_line_stat /\ line

(* The consecutive packets from a to before b.                             *)
Run(a, b) == [i \in 1 .. (b + PacketMod - a) % PacketMod |-> (a + i - 1) % PacketMod]

(* Transmission: the ready descriptors from tx_bd_index on are those that  *)
(* the driver filled and the controller has not sent, in order, none       *)
(* twice, and the driver continues behind them.                            *)
TxStream ==
  observed = "tx" /\ drv.clean /\ "TXEN" \in eth.moder =>
    LET k == Cardinality({i \in TxRing(eth) : eth.bd[i].ready})
        At(j) == eth.bd[TxAfter(eth, eth.tx_bd_index, j - 1)]
    IN  /\ \A j \in 1 .. k : At(j).ready
        /\ [j \in 1 .. k |-> At(j).pkt] = Run(drv.next, drv.count)
        /\ drv.pos = TxAfter(eth, eth.tx_bd_index, k)

(* Reception: the filled descriptors from the driver's place on are the    *)
(* packets that arrived since the last one it took, in order, none twice,  *)
(* and the controller continues behind them.                               *)
RxStream ==
  observed = "rx" /\ drv.clean /\ "RXEN" \in eth.moder =>
    LET k == Cardinality({i \in RxRing(eth) : eth.bd[i].pkt # None})
        At(j) == eth.bd[RxAfter(eth, drv.pos, j - 1)]
    IN  /\ [j \in 1 .. k |-> At(j).pkt] = Run(drv.next, drv.count)
        /\ eth.rx_bd_index = RxAfter(eth, drv.pos, k)

(* Each enabled ring is served, and in the order of its driver.            *)
RingsExact == TypeOK /\ JobsFollowModer /\ TxStream /\ RxStream

(* A descriptor that is ready and next is sent, unless transmission is     *)
(* disabled or reception holds the line: a receive interrupt before every  *)
(* transmit clock does keep the transmitter waiting.                       *)
TxReady(i) == "TXEN" \in eth.moder /\ eth.tx_bd_index = i /\ eth.bd[i].ready
TxProceeds ==
  \A i \in 0 .. NBD - 1 : TxReady(i) ~> (~TxReady(i) \/ owed \cap {"RXB", "RXE"} # {})
==============================================================================
