-------------------------------- MODULE Uart --------------------------------
(***************************************************************************)
(* The UART (peripheral/16450.c) on a host channel: transmitter, receiver, *)
(* FIFOs, interrupt identification, character timeout, break and loopback, *)
(* with the jobs it keeps in the scheduler's queue.                        *)
(*                                                                         *)
(* A job added with time 0 is in u.now: it runs before the next            *)
(* instruction.  One added with a number of character times is in u.later: *)
(* it may run at any moment, before or after jobs in u.now, because the    *)
(* program chooses the divisor (0 after a reset).  The functions of the    *)
(* device work on a record that holds its registers and are composed as    *)
(* the code calls them.                                                    *)
(*                                                                         *)
(* A character is its number modulo CharMod; one that was looped back is   *)
(* Looped.  What a behaviour observes is one of the receiver, the          *)
(* transmitter and the modem lines: characters of a direction that is not  *)
(* observed are all 0, and programs drive the modem lines only when these  *)
(* are.  The test-vector interface (VAPI), which alone makes breaks,       *)
(* parity and framing errors arrive, is left out: OVRRUN is the only       *)
(* receive error.                                                          *)
(***************************************************************************)
EXTENDS Naturals, Sequences, FiniteSets

CONSTANTS
  FIFO_LEN,        \* 16: length of both FIFOs in 16550 mode
  Triggers,        \* {1, 4, 8, 14}: the values of UART_FIFO_TRIGGER
  uart16550,       \* the configured mode after a reset
  ModemLines,      \* outputs of MCR that the program uses
  IERs,            \* bound: the values that programs write to IER
  CharMod          \* bound: numbers that tell characters apart

ASSUME UartConstants ==
  /\ FIFO_LEN \in Nat /\ FIFO_LEN > 1
  /\ Triggers \subseteq Nat \ {0} /\ 1 \in Triggers
  /\ uart16550 \in BOOLEAN
  /\ ModemLines \subseteq {"AUX2", "AUX1", "RTS", "DTR"}
  /\ IERs \subseteq SUBSET {"MSI", "THRI", "RDI", "RLSI"}
  /\ CharMod \in Nat /\ CharMod > FIFO_LEN + 1

VARIABLES
  u,               \* registers, FIFOs and queued jobs of the device; history in
                   \* u.stale (see uart_next_int) and u.twice (see SchedNow)
  channel,         \* the channel still delivers
  rx,              \* history of the receiver: see RxStream
  tx,              \* history of the transmitter: see TxStream
  observed         \* "rx", "tx" or "modem"

vars == <<u, channel, rx, tx, observed>>

Looped == CharMod
Inc(c) == (c + 1) % CharMod

(* Interrupts by priority, UART_IIR_NO_INT below all of them.              *)
Rank == [NO_INT |-> 0, MSI |-> 1, THRI |-> 2, CTI |-> 3, RDI |-> 4, RLSI |-> 5]
Interrupts == DOMAIN Rank \ {"NO_INT"}
EnableBit(i) == IF i = "CTI" THEN "RDI" ELSE i
Signalled(v) == {i \in v.ints : EnableBit(i) \in v.ier}
Highest(is) == CHOOSE i \in is : \A j \in is : Rank[j] <= Rank[i]

(* uart_reset, with the scheduler's queue just emptied.                    *)
uart_reset ==
  [ints |-> {}, ier |-> {}, iir |-> "NO_INT", line |-> FALSE,
   lsr |-> {"TXBUFE", "TXSERE"}, sbc |-> FALSE,
   loop |-> FALSE, mcr |-> {}, msr |-> {}, delta |-> {},
   trigger |-> 1, fifo_len |-> IF uart16550 THEN FIFO_LEN ELSE 1,
   txbuf |-> <<>>, txser |-> 0, rxbuf |-> <<>>, rxser |-> 0,
   receiveing |-> FALSE, now |-> {}, later |-> {"check_char"},
   stale |-> FALSE, twice |-> FALSE]

Fresh == [count |-> 0, next |-> 0, clean |-> TRUE]

Init ==
  /\ u = uart_reset
  /\ channel = TRUE
  /\ rx = Fresh /\ tx = Fresh
  /\ observed \in {"rx", "tx", "modem"}

(* SCHED_ADD, with time 0 and with a number of character times.  A job     *)
(* that is already queued would be in the scheduler's queue twice, and     *)
(* SCHED_FIND_REMOVE removes one entry: the history twice remembers it.    *)
SchedNow(v, job) == [v EXCEPT !.now = @ \cup {job}, !.twice = @ \/ job \in v.now]
SchedLater(v, job) == [v EXCEPT !.later = @ \cup {job}, !.twice = @ \/ job \in v.later]

-----------------------------------------------------------------------------
(* Interrupts.                                                             *)

(* Faulty variant: a lower interrupt replaces a higher one.                *)
Raise_always(v, i) ==
  IF EnableBit(i) \in v.ier
  THEN [v EXCEPT !.ints = @ \cup {i}, !.iir = i, !.line = TRUE, !.stale = FALSE]
  ELSE [v EXCEPT !.ints = @ \cup {i}]

(* uart_int_msi, uart_int_thri, uart_int_cti, uart_int_rdi, uart_int_rlsi: *)
(* pending; if enabled and IIR holds nothing higher, identified and        *)
(* reported to the PIC.                                                    *)
Raise(v, i) ==
  IF EnableBit(i) \in v.ier /\ Rank[v.iir] <= Rank[i]
  THEN [v EXCEPT !.ints = @ \cup {i}, !.iir = i, !.line = TRUE, !.stale = FALSE]
  ELSE [v EXCEPT !.ints = @ \cup {i}]

uart_check_rlsi(v) == IF "OVRRUN" \in v.lsr THEN Raise(v, "RLSI") ELSE v

uart_check_rdi(v) == IF Len(v.rxbuf) >= v.trigger THEN Raise(v, "RDI") ELSE v

(* "Raises the next highest priority interrupt", when the one in IIR was   *)
(* cleared or IER changed.  As the functions that raise it give way to a   *)
(* higher IIR, IIR stays as it is if that was higher: it is stale, and     *)
(* remains so until an interrupt is written to it or none is left.         *)
uart_next_int(v) ==
  IF Signalled(v) # {}
  THEN LET i == Highest(Signalled(v))
       IN  Raise([v EXCEPT !.stale = Rank[v.iir] > Rank[i]], i)
  ELSE [v EXCEPT !.line = FALSE, !.iir = "NO_INT", !.stale = FALSE]

(* Faulty variant: a timeout that still runs is left in the queue.         *)
uart_clear_int_keep(v, i) ==
  LET w == [v EXCEPT !.ints = @ \ {i}]
  IN  IF i = v.iir THEN uart_next_int(w) ELSE w

uart_clear_int(v, i) ==
  LET w == [v EXCEPT !.ints = @ \ {i},
                     !.later = IF i = "CTI" THEN @ \ {"int_cti"} ELSE @]
  IN  IF i = v.iir THEN uart_next_int(w) ELSE w

(* MSR follows MCR in loopback mode; RI only notices a trailing edge.      *)
uart_loopback(v) ==
  LET w == [v EXCEPT !.delta = @ \cup {l \in ModemLines : \/ l \in v.msr \ v.mcr
                                                          \/ l \in v.mcr \ v.msr /\ l # "AUX1"},
                     !.msr = v.mcr]
  IN  CASE ~v.loop       -> v
        [] w.delta = {}  -> w
        [] OTHER         -> Raise(w, "MSI")

-----------------------------------------------------------------------------
(* Transmitter.                                                            *)

(* Faulty variant: the newest character goes first.                        *)
uart_tx_send_last(v) ==
  LET w == [v EXCEPT !.txser = v.txbuf[Len(v.txbuf)], !.txbuf = SubSeq(@, 1, Len(@) - 1),
                     !.lsr = @ \ {"TXSERE"}]
      x == IF v.sbc THEN SchedNow(w, "send_break") ELSE SchedLater(w, "char_clock")
  IN  IF x.txbuf = <<>> THEN Raise([x EXCEPT !.lsr = @ \cup {"TXBUFE"}], "THRI") ELSE x

(* The next character goes to the shift register, to leave it after one    *)
(* character time, or at once while a break is sent.                       *)
uart_tx_send(v) ==
  LET w == [v EXCEPT !.txser = Head(v.txbuf), !.txbuf = Tail(@), !.lsr = @ \ {"TXSERE"}]
      x == IF v.sbc THEN SchedNow(w, "send_break") ELSE SchedLater(w, "char_clock")
  IN  IF x.txbuf = <<>> THEN Raise([x EXCEPT !.lsr = @ \cup {"TXBUFE"}], "THRI") ELSE x

(* Faulty variant: the next character waits for another write.             *)
ShiftedOut_stop(v) == [v EXCEPT !.lsr = @ \cup {"TXSERE"}]

(* The shift register is empty: the end of uart_char_clock and             *)
(* uart_send_break.                                                        *)
ShiftedOut(v) ==
  IF v.txbuf = <<>> THEN [v EXCEPT !.lsr = @ \cup {"TXSERE"}] ELSE uart_tx_send(v)

(* The history tx: count characters were accepted, next is the one that    *)
(* must leave first; loss says that this step may lose one, and an empty   *)
(* transmitter starts afresh.                                              *)
TxHistory(v, count, next, loss) ==
  LET idle == v.txbuf = <<>> /\ "TXSERE" \in v.lsr
      clean == tx.clean /\ ~loss
  IN  tx' = IF observed = "tx" /\ ~idle
            THEN [count |-> count, next |-> IF clean THEN next ELSE 0, clean |-> clean]
            ELSE Fresh

-----------------------------------------------------------------------------
(* Receiver.                                                               *)

(* Faulty variant: a character is stored where the next one is read.       *)
uart_add_char_front(v, ch) ==
  LET w == uart_clear_int([v EXCEPT !.lsr = @ \cup {"RDRDY"}], "CTI")
      x == SchedLater(w, "int_cti")
  IN  uart_check_rdi(
        CASE Len(x.rxbuf) + 1 > x.fifo_len ->
               Raise([x EXCEPT !.lsr = @ \cup {"OVRRUN"}], "RLSI")
          [] x.rxbuf = <<>> -> uart_check_rlsi([x EXCEPT !.rxbuf = << ch >>])
          [] OTHER -> [x EXCEPT !.rxbuf = << ch >> \o @])

(* Restarts the character timeout, then stores the character or records an *)
(* overrun.                                                                *)
uart_add_char(v, ch) ==
  LET w == uart_clear_int([v EXCEPT !.lsr = @ \cup {"RDRDY"}], "CTI")
      x == SchedLater(w, "int_cti")
  IN  uart_check_rdi(
        CASE Len(x.rxbuf) + 1 > x.fifo_len ->
               Raise([x EXCEPT !.lsr = @ \cup {"OVRRUN"}], "RLSI")
          [] x.rxbuf = <<>> -> uart_check_rlsi([x EXCEPT !.rxbuf = << ch >>])
          [] OTHER -> [x EXCEPT !.rxbuf = Append(@, ch)])

(* The history rx, as TxHistory.                                           *)
RxHistory(v, count, next, loss) ==
  LET idle == v.rxbuf = <<>> /\ ~v.receiveing
      clean == rx.clean /\ ~loss
  IN  rx' = IF observed = "rx" /\ ~idle
            THEN [count |-> count, next |-> IF clean THEN next ELSE 0, clean |-> clean]
            ELSE Fresh

-----------------------------------------------------------------------------
(* Jobs.                                                                   *)

(* Faulty variant: the shift register waits while a character arrives.     *)
uart_char_clock_half ==
  /\ "char_clock" \in u.later
  /\ ~u.receiveing
  /\ u' = ShiftedOut([u EXCEPT !.later = @ \ {"char_clock"}])
  /\ TxHistory(u', tx.count, Inc(u.txser), FALSE)
  /\ UNCHANGED <<channel, rx, observed>>

uart_char_clock ==
  /\ "char_clock" \in u.later
  /\ u' = ShiftedOut([u EXCEPT !.later = @ \ {"char_clock"}])
  /\ TxHistory(u', tx.count, Inc(u.txser), FALSE)
  /\ UNCHANGED <<channel, rx, observed>>

uart_send_break ==
  /\ "send_break" \in u.now
  /\ u' = ShiftedOut([u EXCEPT !.now = @ \ {"send_break"}])
  /\ TxHistory(u', tx.count, tx.next, TRUE)
  /\ UNCHANGED <<channel, rx, observed>>

tx_send_job ==
  /\ "tx_send" \in u.now
  /\ u' = uart_tx_send([u EXCEPT !.now = @ \ {"tx_send"}])
  /\ TxHistory(u', tx.count, tx.next, FALSE)
  /\ UNCHANGED <<channel, rx, observed>>

uart_int_cti ==
  /\ "int_cti" \in u.later
  /\ u' = Raise([u EXCEPT !.later = @ \ {"int_cti"}], "CTI")
  /\ UNCHANGED <<channel, rx, tx, observed>>

(* The character that arrives finds the FIFO full and is dropped: for the  *)
(* history it never came.                                                  *)
Overrun == observed = "rx" /\ rx.clean /\ ~u.loop /\ Len(u.rxbuf) = u.fifo_len

(* In loopback mode the next character is what was looped back last.       *)
uart_recv_char ==
  /\ "recv_char" \in u.later
  /\ LET v == [u EXCEPT !.later = @ \ {"recv_char"}]
     IN  u' = uart_add_char(
                IF u.loop
                THEN SchedLater([v EXCEPT !.rxser = IF observed = "rx" THEN Looped ELSE 0],
                                "recv_char")
                ELSE SchedLater([v EXCEPT !.receiveing = FALSE], "check_char"),
                u.rxser)
  /\ RxHistory(u', IF Overrun THEN u.rxser ELSE rx.count, rx.next, u.loop)
  /\ UNCHANGED <<channel, tx, observed>>

(* channel_read returns a character, nothing, or an error, after which the *)
(* channel is not polled again.                                            *)
uart_check_char ==
  /\ "check_char" \in u.later
  /\ \/ /\ u' = SchedLater([u EXCEPT !.rxser = rx.count, !.receiveing = TRUE,
                                     !.later = @ \ {"check_char"}],
                           "recv_char")
        /\ RxHistory(u', Inc(rx.count), rx.next, FALSE)
        /\ UNCHANGED channel
     \/ UNCHANGED <<u, channel, rx>>
     \/ /\ u' = [u EXCEPT !.later = @ \ {"check_char"}]
        /\ channel' = FALSE
        /\ UNCHANGED rx
  /\ UNCHANGED <<tx, observed>>

-----------------------------------------------------------------------------
(* Register accesses, each by an instruction: do_scheduler has returned.   *)
Insn == u.now = {}

(* Faulty variant: the write does not withdraw the THRI interrupt.         *)
write_TXBUF_thri ==
  /\ Insn
  /\ LET v == [u EXCEPT !.lsr = @ \ {"TXBUFE"},
                        !.txbuf = IF Len(@) < u.fifo_len THEN Append(@, tx.count)
                                                         ELSE [@ EXCEPT ![1] = tx.count]]
     IN  u' = IF u.txbuf = <<>> /\ "TXSERE" \in u.lsr THEN SchedNow(v, "tx_send") ELSE v
  /\ TxHistory(u', Inc(tx.count), tx.next, Len(u.txbuf) = u.fifo_len)
  /\ UNCHANGED <<channel, rx, observed>>

(* Written to a full FIFO, the character replaces the oldest one: head and *)
(* tail are equal.                                                         *)
write_TXBUF ==
  /\ Insn
  /\ LET v == [u EXCEPT !.lsr = @ \ {"TXBUFE"},
                        !.txbuf = IF Len(@) < u.fifo_len THEN Append(@, tx.count)
                                                         ELSE [@ EXCEPT ![1] = tx.count]]
     IN  u' = uart_clear_int(IF u.txbuf = <<>> /\ "TXSERE" \in u.lsr
                             THEN SchedNow(v, "tx_send") ELSE v, "THRI")
  /\ TxHistory(u', Inc(tx.count), tx.next, Len(u.txbuf) = u.fifo_len)
  /\ UNCHANGED <<channel, rx, observed>>

ResetTx(v) ==
  LET w == [v EXCEPT !.txbuf = <<>>, !.lsr = @ \cup {"TXBUFE"}]
      x == IF w.fifo_len = FIFO_LEN THEN Raise(w, "THRI") ELSE w
  IN  [x EXCEPT !.now = @ \ {"tx_send"}]

ResetRx(v) ==
  LET w == uart_clear_int([v EXCEPT !.rxbuf = <<>>, !.lsr = @ \ {"RDRDY"}], "RDI")
  IN  uart_clear_int(w, "CTI")

(* A change of the FIFO mode resets both FIFOs.                            *)
write_FCR(fie, rrxfi, rtxfi, trigger) ==
  /\ Insn
  /\ LET len == IF fie THEN FIFO_LEN ELSE 1
         both == len # u.fifo_len
         v == [u EXCEPT !.trigger = trigger, !.fifo_len = len]
         w == IF rtxfi \/ both THEN ResetTx(v) ELSE v
     IN  /\ u' = IF rrxfi \/ both THEN ResetRx(w) ELSE w
         /\ RxHistory(u', rx.count, IF u'.rxbuf = <<>> /\ u.receiveing THEN u.rxser ELSE rx.next, FALSE)
         /\ TxHistory(u', tx.count, tx.next, rtxfi \/ both)
  /\ UNCHANGED <<channel, observed>>

write_IER(ier) ==
  /\ Insn
  /\ u' = uart_next_int([u EXCEPT !.ier = ier])
  /\ UNCHANGED <<channel, rx, tx, observed>>

(* LCR[SBC], the only bit of LCR with an effect on control.                *)
write_LCR(sbc) ==
  /\ Insn
  /\ sbc # u.sbc
  /\ LET v == [u EXCEPT !.sbc = sbc]
         w == [v EXCEPT !.later = @ \ {"char_clock"}]
     IN  u' = IF "TXSERE" \in u.lsr THEN v
              ELSE SchedNow(w, IF sbc THEN "send_break" ELSE "tx_send")
  /\ TxHistory(u', tx.count, tx.next, TRUE)
  /\ UNCHANGED <<channel, rx, observed>>

write_MCR(loop, out) ==
  /\ Insn
  /\ observed = "modem" \/ out = {}
  /\ u' = uart_loopback([u EXCEPT !.loop = loop, !.mcr = out])
  /\ UNCHANGED <<channel, rx, tx, observed>>

(* Faulty variant: characters left in the FIFO have no timeout.            *)
read_RXBUF_timeout ==
  /\ Insn
  /\ LET v == uart_clear_int(uart_clear_int([u EXCEPT !.rxbuf = IF @ = <<>> THEN @ ELSE Tail(@)],
                                            "RDI"), "CTI")
     IN  u' = IF v.rxbuf # <<>> THEN uart_check_rdi(uart_check_rlsi(v))
                                ELSE [v EXCEPT !.lsr = @ \ {"RDRDY"}]
  /\ RxHistory(u', rx.count, IF u.rxbuf = <<>> THEN rx.next ELSE Inc(u.rxbuf[1]), FALSE)
  /\ UNCHANGED <<channel, tx, observed>>

read_RXBUF ==
  /\ Insn
  /\ LET v == uart_clear_int(uart_clear_int([u EXCEPT !.rxbuf = IF @ = <<>> THEN @ ELSE Tail(@)],
                                            "RDI"), "CTI")
     IN  u' = IF v.rxbuf # <<>>
              THEN uart_check_rdi(uart_check_rlsi(
                     SchedLater([v EXCEPT !.lsr = @ \cup {"RDRDY"}], "int_cti")))
              ELSE [v EXCEPT !.lsr = @ \ {"RDRDY"}]
  /\ RxHistory(u', rx.count, IF u.rxbuf = <<>> THEN rx.next ELSE Inc(u.rxbuf[1]), FALSE)
  /\ UNCHANGED <<channel, tx, observed>>

read_IIR ==
  /\ Insn
  /\ u' = IF u.iir = "THRI" THEN uart_clear_int(u, "THRI") ELSE u
  /\ UNCHANGED <<channel, rx, tx, observed>>

read_LSR ==
  /\ Insn
  /\ u' = uart_clear_int([u EXCEPT !.lsr = @ \ {"OVRRUN"}], "RLSI")
  /\ UNCHANGED <<channel, rx, tx, observed>>

read_MSR ==
  /\ Insn
  /\ u' = uart_loopback(uart_clear_int([u EXCEPT !.msr = {}, !.delta = {}], "MSI"))
  /\ UNCHANGED <<channel, rx, tx, observed>>

(* sim_reset, typed at a prompt: channel_close and channel_open.           *)
sim_reset ==
  /\ u' = uart_reset
  /\ channel' = TRUE
  /\ rx' = Fresh /\ tx' = Fresh
  /\ UNCHANGED observed

Jobs == uart_char_clock \/ uart_send_break \/ tx_send_job \/ uart_int_cti
          \/ uart_recv_char \/ uart_check_char

Program ==
  \/ write_TXBUF \/ read_RXBUF \/ read_IIR \/ read_LSR \/ read_MSR
  \/ \E fie, rrxfi, rtxfi \in BOOLEAN, t \in Triggers : write_FCR(fie, rrxfi, rtxfi, t)
  \/ \E ier \in IERs : write_IER(ier)
  \/ \E sbc \in BOOLEAN : write_LCR(sbc)
  \/ \E loop \in BOOLEAN, out \in SUBSET ModemLines : write_MCR(loop, out)

Next == Jobs \/ Program \/ sim_reset

(* do_scheduler reaches every queued job; nothing is assumed of the        *)
(* program, the channel or the user.                                       *)
Fairness ==
  /\ WF_vars(uart_char_clock) /\ WF_vars(uart_send_break) /\ WF_vars(tx_send_job)

Spec == Init /\ [][Next]_vars
FairSpec == Spec /\ Fairness

-----------------------------------------------------------------------------
Chars == 0 .. CharMod

(* Types, and the FIFOs never hold more than fifo_len characters.          *)
TypeOK ==
  /\ u.ints \subseteq Interrupts /\ u.iir \in DOMAIN Rank /\ u.line \in BOOLEAN
  /\ u.ier \subseteq Interrupts \ {"CTI"}
  /\ u.lsr \subseteq {"TXBUFE", "TXSERE", "RDRDY", "OVRRUN"}
  /\ u.sbc \in BOOLEAN /\ u.loop \in BOOLEAN
  /\ u.mcr \subseteq ModemLines /\ u.msr \subseteq ModemLines /\ u.delta \subseteq ModemLines
  /\ u.trigger \in Triggers /\ u.fifo_len \in {1, FIFO_LEN}
  /\ u.txbuf \in Seq(Chars) /\ Len(u.txbuf) <= u.fifo_len /\ u.txser \in Chars
  /\ u.rxbuf \in Seq(Chars) /\ Len(u.rxbuf) <= u.fifo_len /\ u.rxser \in Chars
  /\ u.receiveing \in BOOLEAN /\ channel \in BOOLEAN
  /\ u.stale \in BOOLEAN /\ u.twice \in BOOLEAN
  /\ u.now \subseteq {"tx_send", "send_break"}
  /\ u.later \subseteq {"char_clock", "int_cti", "recv_char", "check_char"}

(* Interrupt identification, whatever order interrupts are raised, cleared,*)
(* enabled and disabled in: the line to the PIC is asserted exactly while  *)
(* IIR names an interrupt; no enabled pending interrupt has a higher       *)
(* priority than the one named; and that one is pending and enabled, so    *)
(* that it is the highest, unless IIR is stale.  While it is, the program  *)
(* is interrupted for something that is over, and one that goes by IIR     *)
(* does not see what is pending: here uart_next_int does not do what its   *)
(* comment, 16450.c:396, says.                                             *)
Identified ==
  /\ u.line = (u.iir # "NO_INT")
  /\ \A i \in Signalled(u) : Rank[i] <= Rank[u.iir]
  /\ u.stale \/ u.iir \in Signalled(u) \cup {"NO_INT"}

(* The pending bits agree with the state they stand for: an overrun is     *)
(* pending exactly while LSR shows it; receive interrupts only while there *)
(* is something to receive; THRI only while the transmit FIFO is empty.    *)
PendingIsReal ==
  /\ "RLSI" \in u.ints <=> "OVRRUN" \in u.lsr
  /\ "RDI" \in u.ints => u.rxbuf # <<>>
  /\ "THRI" \in u.ints => u.txbuf = <<>>
  /\ "TXBUFE" \in u.lsr <=> u.txbuf = <<>>
  /\ "RDRDY" \in u.lsr <=> u.rxbuf # <<>>

(* Together: an enabled pending interrupt interrupts the processor, and a  *)
(* pending one has a cause; IIR misses the highest one only if clearing or *)
(* disabling a higher one left it stale.                                   *)
InterruptsExact == TypeOK /\ Identified /\ PendingIsReal

(* A received character is never left unannounced: while the receive FIFO  *)
(* holds one, and only then, its timeout runs or has come.                 *)
TimeoutExact == u.rxbuf # <<>> <=> ("int_cti" \in u.later \/ "CTI" \in u.ints)

(* The consecutive characters from a to before b.                          *)
Run(a, b) == [i \in 1 .. (b + CharMod - a) % CharMod |-> (a + i - 1) % CharMod]

(* Reception: unless there was loopback since the receiver was last empty, *)
(* the characters in the FIFO and in the serial register are those that    *)
(* arrived after the last one read, in order and once each, except for     *)
(* those that found the FIFO full: an overrun costs the character that     *)
(* arrives and none of those already received.                             *)
RxStream ==
  observed = "rx" /\ rx.clean =>
    (IF u.receiveing THEN Append(u.rxbuf, u.rxser) ELSE u.rxbuf) = Run(rx.next, rx.count)

(* Transmission: unless the program wrote to a full FIFO, reset it or sent *)
(* a break since the transmitter was last empty, what has still to leave   *)
(* is what was written after the last character that left.                 *)
TxStream ==
  observed = "tx" /\ tx.clean => (IF "TXSERE" \in u.lsr THEN u.txbuf ELSE << u.txser >> \o u.txbuf)
                = Run(tx.next, tx.count)

(* Both directions deliver what was put into them.                         *)
StreamsExact == RxStream /\ TxStream

(* The jobs are the ones the state needs: a busy shift register has one    *)
(* job that empties it, an idle one in front of a filled FIFO has the job  *)
(* that fills it, and the receiver has one job while the channel works.    *)
ShiftJobs ==
  /\ "TXSERE" \notin u.lsr <=> ("char_clock" \in u.later) # ("send_break" \in u.now)
  /\ "TXSERE" \in u.lsr => ("tx_send" \in u.now <=> u.txbuf # <<>>)
  /\ "tx_send" \in u.now => u.txbuf # <<>> /\ "TXSERE" \in u.lsr
  /\ channel <=> ("recv_char" \in u.later) # ("check_char" \in u.later)
  /\ u.receiveing <=> "recv_char" \in u.later

(* Every job that the device needs is queued, once, and no other one.      *)
JobsExact == ShiftJobs /\ TimeoutExact /\ ~u.twice

(* A character in the transmit FIFO leaves it, unless the program does one *)
(* of the things that lose characters.  (They are numbered modulo CharMod; *)
(* 0 stands for any of them.)                                              *)
InTxBuf(c) == observed = "tx" /\ tx.clean /\ \E i \in 1 .. Len(u.txbuf) : u.txbuf[i] = c
TxLeaves == InTxBuf(0) ~> ~InTxBuf(0)

=============================================================================
