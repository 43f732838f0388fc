--------------------------------- MODULE Dma ---------------------------------
(***************************************************************************)
(* The DMA controller (peripheral/dma.c): per channel the registers, the   *)
(* inner state of a transfer and the job dma_channel_clock, which moves    *)
(* one word and reschedules itself; the shared interrupt source register;  *)
(* a program and a device that act between the clocks.                     *)
(*                                                                         *)
(* Addresses are word numbers, masks are 2^k - 1 words; what was copied is *)
(* the sequence of <<source, destination>> pairs.  A program writes the    *)
(* registers of a channel while CH_EN is clear.  TOT_SZ is not 0: the code *)
(* takes a remainder by the chunk size, which would be 0 then.             *)
(*                                                                         *)
(* A behaviour observes the words one channel copies, or the interrupts    *)
(* and jobs of two; then words are not told apart, and only then a device  *)
(* drives dma_req_i and dma_nd_i.                                          *)
(***************************************************************************)
EXTENDS Naturals, SequencesExt

CONSTANTS
  AddrMod,         \* bound: number of word addresses
  Sizes,           \* bound: values of SZ[TOT_SZ]
  Masks            \* bound: values of AM0 and AM1, in words

(* There are the addresses that the descriptors and programs name, and a   *)
(* mask leaves blocks of them.                                             *)
ASSUME DmaConstants ==
  /\ AddrMod \in Nat /\ AddrMod > 5
  /\ Sizes \subseteq 1 .. AddrMod - 2
  /\ Masks \subseteq 0 .. AddrMod - 1
  /\ \A m \in Masks : AddrMod % (m + 1) = 0

Channels == {1, 2}

VARIABLES
  ch,              \* registers and inner state of the channels
  jobs,            \* how often dma_channel_clock is queued, per channel
  int_msk_a, int_src_a,
  line,            \* what the PIC holds of the interrupt line
  log,             \* history: words moved since channel 1 was started
  want,            \* history: words channel 1 was started to move
  owed,            \* history: channels whose interrupt was not yet read
  parked,          \* history: channels whose transfer auto-restarted
  observed         \* "copy" or "irq"

vars == <<ch, jobs, int_msk_a, int_src_a, line, log, want, owed, parked, observed>>
irq == <<int_src_a, line, owed>>

-----------------------------------------------------------------------------
(* The descriptors in memory: a list of two, entered at either.            *)
FirstDescriptor ==
  [eol |-> FALSE, inc |-> {"INC_SRC", "INC_DST"}, tot |-> 2, a0 |-> 1, a1 |-> 5, next |-> 1]
LastDescriptor == [eol |-> TRUE, inc |-> {"INC_DST"}, tot |-> 1, a0 |-> 0, a1 |-> 2, next |-> 0]
Descriptors == [d \in {0, 1} |-> IF d = 0 THEN FirstDescriptor ELSE LastDescriptor]

(* DMA_CH_CSR_WRITE_MASK leaves these to the controller.  INE stands for   *)
(* INE_DONE and INE_ERR.  ERR, INT_DONE and INT_ERR are left out: nothing  *)
(* depends on them, and reading the CSR clears just them.                  *)
ReadOnly == {"BUSY", "DONE"}
Incs == {"INC_SRC", "INC_DST"}

ResetChannel ==
  [csr |-> {}, tot |-> 1, a0 |-> 0, a1 |-> 0, am0 |-> AddrMod - 1, am1 |-> AddrMod - 1, desc |-> 0,
   load_next |-> FALSE, source |-> 0, destination |-> 0, smask |-> 0, dmask |-> 0,
   total |-> 0, words |-> 0, req |-> FALSE, nd |-> FALSE]

(* A channel that is not BUSY: its inner state is dead, since the first    *)
(* clock of a transfer sets it up.                                         *)
Idle(s, csr) ==
  [s EXCEPT !.csr = csr, !.load_next = FALSE, !.source = 0, !.destination = 0,
            !.smask = 0, !.dmask = 0, !.total = 0, !.words = 0]

Init ==
  /\ ch = [c \in Channels |-> ResetChannel]
  /\ jobs = [c \in Channels |-> 0]
  /\ int_msk_a = {} /\ int_src_a = {} /\ line = FALSE
  /\ log = <<>> /\ want = <<>> /\ owed = {} /\ parked = {}
  /\ observed \in {"copy", "irq"}

(* Faulty variant: the bits outside the mask are lost.                     *)
masked_increase_carry(value, mask) == (value + 1) % (mask + 1)

(* Add one word to the bits of value under the mask.                       *)
masked_increase(value, mask) == (value - (value % (mask + 1))) + ((value + 1) % (mask + 1))

(* Copy the fields of the descriptor to the registers.                     *)
dma_load_descriptor(s) ==
  LET d == Descriptors[s.desc]
  IN  [s EXCEPT !.load_next = ~d.eol, !.csr = (@ \ Incs) \cup d.inc, !.tot = d.tot,
                !.a0 = d.a0, !.a1 = d.a1, !.desc = d.next]

dma_init_transfer(s) ==
  [s EXCEPT !.source = s.a0, !.destination = s.a1,
            !.smask = IF "INC_SRC" \in s.csr THEN s.am0 ELSE 0,
            !.dmask = IF "INC_DST" \in s.csr THEN s.am1 ELSE 0,
            !.total = s.tot, !.words = 0]

Next_descriptor(s) ==
  "MODE" \in s.csr /\ "USE_ED" \in s.csr /\ s.nd

(* Faulty variant: an interrupt of a masked channel.                       *)
Interrupt_masked(c, asked) ==
  IF asked
  THEN int_src_a' = {c} /\ line' = TRUE /\ owed' = owed \cup (int_msk_a \cap {c})
  ELSE UNCHANGED irq

(* The interrupt of a channel that ends.  The source register names this   *)
(* channel only, whatever it held.                                         *)
Interrupt(c, asked) ==
  IF asked /\ c \in int_msk_a
  THEN int_src_a' = {c} /\ line' = TRUE /\ owed' = owed \cup {c}
  ELSE UNCHANGED irq

(* The next descriptor of a list is loaded and scheduled; with ARS the     *)
(* transfer is set up again but not scheduled; else it ends.  (SZ_WB,      *)
(* which leaves the remaining count in SZ, is not used.)                   *)
dma_channel_terminate_transfer(c, s, generate_interrupt) ==
  \/ /\ s.load_next
     /\ ch' = [ch EXCEPT ![c] = dma_init_transfer(dma_load_descriptor(s))]
     /\ UNCHANGED <<jobs, irq, parked>>
  \/ /\ ~s.load_next /\ "ARS" \in s.csr
     /\ ch' = [ch EXCEPT ![c] = dma_init_transfer(s)]
     /\ jobs' = [jobs EXCEPT ![c] = @ - 1]
     /\ parked' = parked \cup {c}
     /\ UNCHANGED irq
  \/ /\ ~s.load_next /\ "ARS" \notin s.csr
     /\ LET asked == generate_interrupt /\ "INE" \in s.csr
        IN  /\ ch' = [ch EXCEPT ![c] = Idle(s, (s.csr \ {"CH_EN", "BUSY"}) \cup {"DONE"})]
            /\ Interrupt(c, asked)
     /\ jobs' = [jobs EXCEPT ![c] = @ - 1]
     /\ UNCHANGED parked

(* Faulty variant: an aborted channel stays enabled and scheduled.         *)
Abort_again(c) ==
  /\ "STOP" \in ch[c].csr
  /\ ch' = [ch EXCEPT ![c] = Idle(ch[c], ch[c].csr \ {"BUSY"})]
  /\ Interrupt(c, "INE" \in ch[c].csr)
  /\ want' = log
  /\ UNCHANGED <<jobs, log, parked>>

(* STOP: abort with an error.                                              *)
Abort(c) ==
  LET s == ch[c]
      asked == "INE" \in s.csr
  IN  /\ "STOP" \in s.csr
      /\ ch' = [ch EXCEPT ![c] = Idle(s, (s.csr \ {"CH_EN", "BUSY"}))]
      /\ jobs' = [jobs EXCEPT ![c] = @ - 1]
      /\ Interrupt(c, asked)
      /\ want' = log
      /\ UNCHANGED <<log, parked>>

(* The first clock of a transfer sets it up.                               *)
Started(s) ==
  IF "BUSY" \in s.csr THEN s
  ELSE LET b == [s EXCEPT !.csr = (@ \ {"DONE"}) \cup {"BUSY"}]
       IN  dma_init_transfer(IF "USE_ED" \in s.csr THEN dma_load_descriptor(b)
                             ELSE [b EXCEPT !.load_next = FALSE])

Moved(s) ==
  [s EXCEPT !.source = masked_increase(@, s.smask),
            !.destination = masked_increase(@, s.dmask), !.words = @ + 1]

(* One word is moved, unless a descriptor is skipped at once; the transfer *)
(* ends, or the job is added again.                                        *)
Transfer(c) ==
  LET t == Started(ch[c])
      w == Moved(t)
      skip == "BUSY" \notin ch[c].csr /\ Next_descriptor(t)
  IN  /\ "STOP" \notin ch[c].csr /\ UNCHANGED want
      /\ "MODE" \in ch[c].csr => ch[c].req
      /\ log' = IF observed = "copy" /\ ~skip
                THEN Append(log, <<t.source, t.destination>>) ELSE log
      /\ CASE skip -> dma_channel_terminate_transfer(c, t, FALSE)
           [] ~skip /\ Next_descriptor(w) -> dma_channel_terminate_transfer(c, w, FALSE)
           [] ~skip /\ ~Next_descriptor(w) /\ w.words >= w.total ->
                dma_channel_terminate_transfer(c, w, TRUE)
           [] OTHER -> ch' = [ch EXCEPT ![c] = w] /\ UNCHANGED <<jobs, irq, parked>>

(* The job; in handshake mode without a request it only adds itself again. *)
dma_channel_clock(c) ==
  /\ jobs[c] > 0
  /\ Abort(c) \/ Transfer(c)
  /\ UNCHANGED <<int_msk_a, observed>>

-----------------------------------------------------------------------------
(* The program.                                                            *)

(* What the registers of a channel ask for: the words of one transfer, or  *)
(* those of a descriptor list.                                             *)
At(base, mask, i) == (base - (base % (mask + 1))) + ((base + i) % (mask + 1))
Words(tot, a0, m0, a1, m1) == [i \in 1 .. tot |-> <<At(a0, m0, i - 1), At(a1, m1, i - 1)>>]
DescriptorWords(s, d) ==
  Words(d.tot, d.a0, IF "INC_SRC" \in d.inc THEN s.am0 ELSE 0,
        d.a1, IF "INC_DST" \in d.inc THEN s.am1 ELSE 0)
ListWords(s) ==
  LET d == Descriptors[s.desc]
  IN  DescriptorWords(s, d)
        \o (IF d.eol THEN <<>> ELSE DescriptorWords(s, Descriptors[d.next]))
Asked(s, csr) ==
  IF "USE_ED" \in csr THEN ListWords(s)
  ELSE Words(s.tot, s.a0, IF "INC_SRC" \in csr THEN s.am0 ELSE 0,
             s.a1, IF "INC_DST" \in csr THEN s.am1 ELSE 0)

(* What a write of the CSR makes of the history.  A channel that is BUSY   *)
(* keeps its transfer, even when it is disabled and enabled again.         *)
Expect(c, value) ==
  LET s == ch[c]
  IN  CASE observed = "copy" /\ "BUSY" \notin s.csr ->
             log' = <<>> /\ want' = IF "CH_EN" \in value THEN Asked(s, value) ELSE <<>>
        [] observed = "copy" /\ c \in parked /\ "CH_EN" \notin value ->
             log' = <<>> /\ want' = Words(s.total, s.source, s.smask, s.destination, s.dmask)
        [] OTHER -> UNCHANGED <<log, want>>

(* Faulty variant: disabling leaves the job in the queue.                  *)
dma_write_ch_csr_leave(c, value) ==
  LET starts == "CH_EN" \notin ch[c].csr /\ "CH_EN" \in value
  IN  /\ jobs' = IF starts THEN [jobs EXCEPT ![c] = @ + 1] ELSE jobs
      /\ ch' = [ch EXCEPT ![c].csr = (@ \cap ReadOnly) \cup value]
      /\ parked' = IF "CH_EN" \in value THEN parked ELSE parked \ {c}
      /\ Expect(c, value)
      /\ UNCHANGED <<int_msk_a, irq, observed>>

(* The job is added when CH_EN goes up and removed when it is clear; BUSY  *)
(* is left alone.                                                          *)
dma_write_ch_csr(c, value) ==
  LET starts == "CH_EN" \notin ch[c].csr /\ "CH_EN" \in value
  IN  /\ jobs' = [jobs EXCEPT ![c] = IF starts THEN @ + 1
                                     ELSE IF "CH_EN" \notin value /\ @ > 0 THEN @ - 1 ELSE @]
      /\ ch' = [ch EXCEPT ![c].csr = (@ \cap ReadOnly) \cup value]
      /\ parked' = IF "CH_EN" \in value THEN parked ELSE parked \ {c}
      /\ Expect(c, value)
      /\ UNCHANGED <<int_msk_a, irq, observed>>

(* Writes of the other channel registers.  Those of a BUSY channel count   *)
(* for the descriptors it has still to load, not for what it is doing.     *)
dma_write_ch(c, s) ==
  /\ "CH_EN" \notin ch[c].csr
  /\ ch' = [ch EXCEPT ![c] = s]
  /\ want' = IF "BUSY" \in s.csr /\ s.load_next
             THEN SubSeq(want, 1, (Len(log) + s.total) - s.words) \o ListWords(s) ELSE want
  /\ UNCHANGED <<jobs, int_msk_a, irq, log, parked, observed>>

dma_write_INT_MSK_A(mask) ==
  /\ int_msk_a' = mask
  /\ UNCHANGED <<ch, jobs, irq, log, want, parked, observed>>

(* The register is plain storage: the line stays as it is.                 *)
dma_write_INT_SRC_A(value) ==
  /\ int_src_a' = value
  /\ owed' = {}
  /\ UNCHANGED <<ch, jobs, int_msk_a, line, log, want, parked, observed>>

(* Reading the source acknowledges it.                                     *)
dma_read_INT_SRC_A ==
  /\ line' = (line /\ int_src_a = {})
  /\ int_src_a' = {} /\ owed' = {}
  /\ UNCHANGED <<ch, jobs, int_msk_a, log, want, parked, observed>>

(* The device at the channel.                                              *)
set_dma_signals(c, req, nd) ==
  /\ observed = "irq"
  /\ ch' = [ch EXCEPT ![c] = [@ EXCEPT !.req = req, !.nd = nd]]
  /\ UNCHANGED <<jobs, int_msk_a, irq, log, want, parked, observed>>

(* sim_reset: the queue and the PIC are reset too.                         *)
dma_reset ==
  /\ ch' = [c \in Channels |-> ResetChannel]
  /\ jobs' = [c \in Channels |-> 0]
  /\ int_msk_a' = {} /\ int_src_a' = {} /\ line' = FALSE
  /\ log' = <<>> /\ want' = <<>> /\ owed' = {} /\ parked' = {}
  /\ UNCHANGED observed

(* Bounds: the values a program writes.                                    *)
Modes(c) ==
  CASE observed = "copy" -> {Incs, Incs \cup {"USE_ED"}, Incs \cup {"ARS"}}
    [] observed = "irq" /\ c = 1 -> {{"INE"}, {"INE", "MODE", "USE_ED"}, {"INE", "ARS"}}
    [] OTHER -> {{"INE"}}
Csrs(c) ==
  {{}} \cup {m \cup {"CH_EN"} : m \in Modes(c)}
       \cup (IF c = 1 THEN {m \cup {"CH_EN", "STOP"} : m \in Modes(c)} ELSE {})
Setting(s, n, m) ==
  [s EXCEPT !.tot = n, !.a0 = n, !.a1 = n + 1, !.am0 = m, !.am1 = AddrMod - 1,
            !.desc = IF "BUSY" \in s.csr THEN @ ELSE n % 2]

Program ==
  \/ \E c \in IF observed = "copy" THEN {1} ELSE Channels :
       \/ \E value \in Csrs(c) : dma_write_ch_csr(c, value)
       \/ \E n \in Sizes, m \in Masks : observed = "copy" /\ dma_write_ch(c, Setting(ch[c], n, m))
  \/ \E mask \in {{}, Channels} : observed = "irq" /\ dma_write_INT_MSK_A(mask)
  \/ \E value \in {{2}} : observed = "irq" /\ dma_write_INT_SRC_A(value)
  \/ dma_read_INT_SRC_A

Clocks == \E c \in Channels : dma_channel_clock(c)
Device == \E req, nd \in BOOLEAN : set_dma_signals(1, req, nd)

Next == Clocks \/ Program \/ Device \/ dma_reset

(* A queued job runs on the next cycle.                                    *)
Spec == Init /\ [][Next]_vars
FairSpec == Spec /\ \A c \in Channels : WF_vars(dma_channel_clock(c))

-----------------------------------------------------------------------------
(* Types.                                                                  *)
TypeOK ==
  /\ \A c \in Channels :
       /\ ch[c].source \in 0 .. AddrMod - 1 /\ ch[c].destination \in 0 .. AddrMod - 1
       /\ ch[c].load_next \in BOOLEAN /\ ch[c].words \in 0 .. ch[c].total
       /\ "BUSY" \in ch[c].csr => ch[c].words < ch[c].total
  /\ int_src_a \subseteq Channels /\ int_msk_a \subseteq Channels /\ line \in BOOLEAN

(* The job of a channel is queued exactly once while CH_EN is set, and not *)
(* otherwise, through every order of starts, stops, ends and descriptors;  *)
(* except that after an auto-restart (ARS) it is not queued at all: the    *)
(* channel stays enabled and busy and never moves a word again.            *)
JobsExact ==
  \A c \in Channels : jobs[c] = IF "CH_EN" \in ch[c].csr /\ c \notin parked THEN 1 ELSE 0

(* A channel moves the words its registers asked for when it was started,  *)
(* in order, from and to the right addresses, descriptor after descriptor, *)
(* and reports DONE when it has moved all of them.                         *)
CopyExact ==
  observed = "copy" =>
    /\ IsPrefix(log, want)
    /\ "DONE" \in ch[1].csr /\ ch[1].csr \cap {"CH_EN", "BUSY"} = {} => log = want
    /\ 1 \in parked => log = want

(* Each enabled channel is served, and copies what it was told to.         *)
ChannelsExact == TypeOK /\ JobsExact /\ CopyExact

(* An interrupt that a channel asked for and the program has not read yet  *)
(* holds the line, the source register is not empty, and it names only     *)
(* channels that did ask (when two ended, the last).                       *)
OwedIsActive == owed # {} => line /\ int_src_a # {} /\ int_src_a \subseteq owed

(* A transfer that needs no request and is not restarted ends.             *)
Running(c) == "CH_EN" \in ch[c].csr /\ ch[c].csr \cap {"MODE", "ARS"} = {} /\ c \notin parked
TransferEnds == \A c \in Channels : Running(c) ~> ~Running(c)

==============================================================================
