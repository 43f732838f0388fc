-------------------------------- MODULE Jtag --------------------------------
(***************************************************************************)
(* The JTAG debug interface (debug/jtag.c) and a client that moves blocks  *)
(* of data through it over a wire that may spoil what is shifted in or out,*)
(* which is what the CRCs of the protocol are for.                         *)
(*                                                                         *)
(* A block is moved by SELECT_MODULE, WRITE_COMMAND, and one GO_COMMAND    *)
(* for each chunk, after which the interface has advanced its address. The *)
(* client repeats what was not confirmed.  It reads its command back with  *)
(* READ_COMMAND before it uses it, and if it cannot read the answer to a   *)
(* GO_COMMAND it asks in the same way whether the address has advanced.    *)
(*                                                                         *)
(* Bits, fields and CRCs are abstracted to whether they arrive: a register *)
(* comes in "good", with a CRC that does not match ("spoilt"), or with a   *)
(* number of bits that does not fit ("cut"); if the bits that select its   *)
(* handler are spoilt it reaches write_command ("stray"), or another one   *)
(* or none ("lost").  The response can be read or not.  A byte of the      *)
(* target is a cell: of memory, or one of the four of a special purpose    *)
(* register.  A cell holds the number of the byte of the block that was    *)
(* written to it, 0 if this block has not touched it.  Bits of a register  *)
(* that the protocol calls ignored are zero: the code ors its answers into *)
(* them.                                                                   *)
(***************************************************************************)
EXTENDS Integers, Sequences, FiniteSetsExt

CONSTANTS
  MemSize,         \* bytes of memory, from address 0
  MAX_SPRS,        \* number of special purpose registers
  Blocks,          \* bound: the blocks that clients move
  MaxBlocks        \* bound: blocks that a behaviour moves

Modules == {"WISHBONE", "CPU0", "CPU1"}

(* A block of registers does not wrap onto itself.  It is not sent byte by *)
(* byte: READ_COMMAND reports a command that was refused as a write of one *)
(* byte to address 0, which would be taken for the next of such commands.  *)
ASSUME JtagConstants ==
  /\ MemSize \in Nat /\ MAX_SPRS \in Nat \ {0} /\ MaxBlocks \in Nat
  /\ \A b \in Blocks :
       /\ b.mod \in Modules \cup {"MISSING"} /\ b.write \in BOOLEAN /\ b.width \in {1, 2, 4}
       /\ b.base \in Nat /\ b.size \in Nat \ {0} /\ b.chunks \in Nat \ {0}
       /\ b.mod = "CPU0" => b.chunks <= MAX_SPRS /\ b.size # 1

VARIABLES
  tgt,             \* runtime.debug, runtime.cpu.stalled and the cells
  client,          \* the client's block and what it has had confirmed
  moved            \* number of blocks begun

vars == <<tgt, client, moved>>

Cells == [WISHBONE |-> 0 .. MemSize - 1, CPU0 |-> 0 .. 4 * MAX_SPRS - 1]
Untouched == [m \in DOMAIN Cells |-> [c \in Cells[m] |-> 0]]
Zero == -1                           \* a byte that was not sent, or is not there

(* A WRITE_COMMAND as it is recorded.  Without write_defined_p the other   *)
(* fields are not used: READ_COMMAND reports zeros, which is a write of    *)
(* one byte to address 0.                                                  *)
Command(write, width, addr, size) ==
  [write_defined_p |-> TRUE, write |-> write, width |-> width, addr |-> addr, size |-> size]
NoCommand == [Command(TRUE, 1, 0, 1) EXCEPT !.write_defined_p = FALSE]

Client(block, at, stall) ==
  [b |-> block, at |-> at, stall |-> stall,
   sel |-> FALSE, cmd |-> FALSE, doubt |-> FALSE, fresh |-> FALSE, pos |-> 0, got |-> <<>>]

Init ==
  /\ tgt = [instr |-> "UNDEFINED", mod_id |-> "UNDEFINED", cmd |-> NoCommand,
            stalled |-> FALSE, cells |-> Untouched]
  /\ \E block \in Blocks : client = Client(block, "over", "unknown")
  /\ moved = 0

-----------------------------------------------------------------------------
(* The interface.  A register shifted in gives a new target and a          *)
(* response, which the client can read (ok) or not.                        *)
Response(t, status, val) == [t |-> t, ok |-> TRUE, status |-> status, val |-> val]
Garbled(t) == [t |-> t, ok |-> FALSE, status |-> {}, val |-> NoCommand]
Done(t) == Response(t, {}, NoCommand)

(* The handler that the leading bits of the register select gives x.  Of   *)
(* those that a spoilt register may reach instead only write_command       *)
(* changes anything: it has dropped its command before it finds the CRC or *)
(* the length wrong.                                                       *)
jtag_shift_dr(x, wire) ==
  CASE tgt.instr # "DEBUG" \/ wire = "lost" -> Garbled(tgt)
    [] tgt.instr = "DEBUG" /\ wire = "stray" ->
         Response([tgt EXCEPT !.cmd = NoCommand], {"CRC_IN_ERROR"}, NoCommand)
    [] OTHER -> x

select_module(t, id, wire) ==
  CASE wire = "cut" -> Garbled(t)
    [] wire = "spoilt" -> Response(t, {"CRC_IN_ERROR"}, NoCommand)
    [] wire = "good" /\ id \in Modules -> Done([t EXCEPT !.mod_id = id])
    [] OTHER -> Response([t EXCEPT !.mod_id = "UNDEFINED"], {"MODULE_MISSING"}, NoCommand)

validate_wb_fields(c) == c.addr % c.width = 0 /\ c.size % c.width = 0
validate_spr_fields(c) == c.width = 4 /\ c.size = 4

(* A command that is refused has no status of its own.                     *)
Accepted(mod_id, c) ==
  CASE mod_id = "WISHBONE" /\ validate_wb_fields(c) -> c
    [] mod_id = "CPU0" /\ validate_spr_fields(c) -> [c EXCEPT !.addr = @ % MAX_SPRS]
    [] OTHER -> NoCommand

(* Faulty variant: a command that is refused leaves the one before.        *)
write_command_keep(t, c, wire) ==
  IF wire = "good" /\ Accepted(t.mod_id, c).write_defined_p
  THEN Done([t EXCEPT !.cmd = Accepted(t.mod_id, c)]) ELSE Done(t)

write_command(t, c, wire) ==
  CASE wire = "cut" -> Garbled([t EXCEPT !.cmd = NoCommand])
    [] wire = "spoilt" -> Response([t EXCEPT !.cmd = NoCommand], {"CRC_IN_ERROR"}, NoCommand)
    [] OTHER -> Done([t EXCEPT !.cmd = Accepted(t.mod_id, c)])

(* Faulty variant: the length that is reported is one too long.            *)
read_command_long(t, wire) ==
  IF wire = "good"
  THEN Response(t, {}, [t.cmd EXCEPT !.write_defined_p = TRUE, !.size = @ + 1])
  ELSE Garbled(t)

(* The response to a spoilt READ_COMMAND or READ_CONTROL carries a CRC     *)
(* without the data field, and that to a spoilt GO_COMMAND that reads has  *)
(* no data and a CRC of nothing.                                           *)
read_command(t, wire) ==
  IF wire = "good"
  THEN Response(t, {}, [t.cmd EXCEPT !.write_defined_p = TRUE])
  ELSE Garbled(t)

read_control(t, wire) ==
  IF wire = "good" THEN Response(t, {}, t.mod_id = "CPU0" /\ t.stalled) ELSE Garbled(t)

(* Faulty variant: the CRC is reported, but the bits are used.             *)
write_control_use(t, reset, stall, caught, wire) ==
  IF wire = "spoilt" THEN Response([t EXCEPT !.stalled = ~stall], {"CRC_IN_ERROR"}, NoCommand)
  ELSE IF t.mod_id = "CPU0" THEN Done([t EXCEPT !.stalled = IF reset THEN caught ELSE stall])
  ELSE Done(t)

(* sim_reset ends with a reset exception, which the debug unit may catch.  *)
write_control(t, reset, stall, caught, wire) ==
  CASE wire = "cut" -> Garbled(t)
    [] wire = "spoilt" -> Response(t, {"CRC_IN_ERROR"}, NoCommand)
    [] wire = "good" /\ t.mod_id = "CPU0" ->
         Done([t EXCEPT !.stalled = IF reset THEN caught ELSE stall])
    [] OTHER -> Done(t)

(* GO_COMMAND with n bytes.  Those of the command that are both expected   *)
(* and there, and the cell of each.                                        *)
Moved(t, n) == 0 .. Min({n, IF t.mod_id = "WISHBONE" THEN t.cmd.size ELSE 4}) - 1
Cell(t, i) ==
  IF t.mod_id = "WISHBONE" THEN t.cmd.addr + i ELSE 4 * (t.cmd.addr % MAX_SPRS) + i

(* Faulty variants: an overrun is not reported; or the length is one byte  *)
(* off.                                                                    *)
Length_over(t, n) == IF n >= t.cmd.size THEN {} ELSE {"OVER_UNDERRUN"}
Length_off(t, n) == IF n = t.cmd.size - 1 THEN {} ELSE {"OVER_UNDERRUN"}
Length(t, n) == IF n = t.cmd.size THEN {} ELSE {"OVER_UNDERRUN"}

Access(t, n) ==
  IF t.mod_id = "WISHBONE" /\ \E i \in Moved(t, n) : Cell(t, i) \notin Cells["WISHBONE"]
  THEN {"WISHBONE_ERROR"} ELSE {}
Status(t, n) == Length(t, n) \cup Access(t, n)

(* "Only advance if there we no errors (including over/under-run)."        *)
Step(t) == IF t.mod_id = "WISHBONE" THEN t.cmd.size ELSE 1

(* Faulty variant: the address is advanced whatever happened.              *)
Advance_always(t, status) == [t EXCEPT !.cmd.addr = @ + Step(t)]
Advance(t, status) == IF status = {} THEN [t EXCEPT !.cmd.addr = @ + Step(t)] ELSE t

(* The bytes are numbers first, first + 1, ... of the client's block.  An  *)
(* SPR is written as a whole.                                              *)
wishbone_write(t, n, first) ==
  [t EXCEPT !.cells["WISHBONE"] =
     [c \in DOMAIN @ |-> IF c - t.cmd.addr \in Moved(t, n) THEN first + (c - t.cmd.addr) ELSE @[c]]]
spr_write(t, n, first) ==
  [t EXCEPT !.cells["CPU0"] =
     [c \in DOMAIN @ |-> CASE c - Cell(t, 0) \in Moved(t, n) -> first + (c - Cell(t, 0))
                           [] c - Cell(t, 0) \in (0 .. 3) \ Moved(t, n) -> Zero
                           [] OTHER -> @[c]]]

go_command_write(t, n, first, wire) ==
  CASE wire = "spoilt" -> Response(t, Length(t, n) \cup {"CRC_IN_ERROR"}, NoCommand)
    [] wire # "spoilt" /\ t.mod_id = "WISHBONE" ->
         Response(Advance(wishbone_write(t, n, first), Status(t, n)), Status(t, n), NoCommand)
    [] wire # "spoilt" /\ t.mod_id = "CPU0" ->
         Response(Advance(spr_write(t, n, first), Status(t, n)), Status(t, n), NoCommand)
    [] OTHER -> Response(t, Status(t, n), NoCommand)

Data(t, n) ==
  [i \in 1 .. n |-> IF i - 1 \in Moved(t, n) /\ Cell(t, i - 1) \in Cells[t.mod_id]
                    THEN Cell(t, i - 1) ELSE Zero]

go_command_read(t, n, wire) ==
  CASE wire = "spoilt" -> Garbled(t)
    [] wire # "spoilt" /\ t.mod_id \in DOMAIN Cells ->
         Response(Advance(t, Status(t, n)), Status(t, n), Data(t, n))
    [] OTHER -> Response(t, Status(t, n), [i \in 1 .. n |-> Zero])

go_command(t, n, first, wire) ==
  CASE ~t.cmd.write_defined_p -> Garbled(t)
    [] t.cmd.write_defined_p /\ t.cmd.write -> go_command_write(t, n, first, wire)
    [] OTHER -> go_command_read(t, n, wire)

-----------------------------------------------------------------------------
(* The client.  It reads the response, or not.                             *)
Blk == client.b
Wires == {"good", "spoilt", "cut", "stray", "lost"}
Addr(pos) == Blk.base + pos * (IF Blk.mod = "WISHBONE" THEN Blk.size ELSE 1)
Sent(pos) == Command(Blk.write, Blk.width, Addr(pos), Blk.size)

(* An SPR address may be reported beyond MAX_SPRS, and counts modulo it.   *)
SprCut(c) == IF Blk.mod = "CPU0" THEN [c EXCEPT !.addr = @ % MAX_SPRS] ELSE c
IsAt(c, pos) == SprCut(c) = SprCut(Sent(pos))
IsPast(c, pos) == IsAt(c, pos + 1) /\ ~IsAt(c, pos)

Confirmed(x, read) == read /\ x.ok /\ x.status = {}
Told(x, read, error) == read /\ x.ok /\ error \in x.status

(* It may leave a block half moved.                                        *)
Begin(block) ==
  /\ moved < MaxBlocks
  /\ client' = Client(block, "moving", client.stall)
  /\ tgt' = [tgt EXCEPT !.cells = Untouched]
  /\ moved' = moved + 1

jtag_shift_ir(instr) ==
  /\ tgt' = [tgt EXCEPT !.instr = instr]
  /\ UNCHANGED <<client, moved>>

jtag_reset ==
  /\ tgt' = [tgt EXCEPT !.instr = "UNDEFINED"]
  /\ UNCHANGED <<client, moved>>

SelectModule(wire, read) ==
  /\ client.at = "moving"
  /\ LET x == jtag_shift_dr(select_module(tgt, Blk.mod, wire), wire)
     IN  /\ tgt' = x.t
         /\ client' =
              CASE Confirmed(x, read) -> [client EXCEPT !.sel = TRUE, !.fresh = FALSE]
                [] Told(x, read, "MODULE_MISSING") ->
                     [client EXCEPT !.at = "refused", !.fresh = FALSE]
                [] OTHER -> [client EXCEPT !.fresh = FALSE]
  /\ UNCHANGED moved

WriteCommand(wire, read) ==
  /\ client.at = "moving" /\ client.sel
  /\ LET x == jtag_shift_dr(write_command(tgt, Sent(client.pos), wire), wire)
     IN  /\ tgt' = x.t
         /\ client' = IF Confirmed(x, read)
                      THEN [client EXCEPT !.cmd = TRUE, !.doubt = TRUE, !.fresh = TRUE]
                      ELSE [client EXCEPT !.cmd = FALSE, !.fresh = FALSE]
  /\ UNCHANGED moved

(* The client may send too few or too many bytes.                          *)
GoCommand(n, wire, read) ==
  /\ client.at = "moving" /\ client.cmd /\ ~client.doubt
  /\ LET x == jtag_shift_dr(go_command(tgt, n, client.pos * Blk.size + 1, wire), wire)
     IN  /\ tgt' = x.t
         /\ client' =
              CASE Confirmed(x, read) ->
                     [client EXCEPT !.pos = @ + 1, !.got = IF Blk.write THEN @ ELSE @ \o x.val,
                                    !.at = IF client.pos + 1 = Blk.chunks THEN "done" ELSE @]
                [] Told(x, read, "WISHBONE_ERROR") -> [client EXCEPT !.at = "failed"]
                [] ~(read /\ x.ok) -> [client EXCEPT !.doubt = TRUE]
                [] OTHER -> client
  /\ UNCHANGED moved

(* The answer tells whether the command is there, and whether the chunk in *)
(* doubt was moved; if it was read, it has to be read again.  A command    *)
(* that is not there was refused, if nothing was shifted in since it was   *)
(* sent, or was dropped and has to be sent again.                          *)
ReadCommand(wire, read) ==
  /\ client.at = "moving" /\ client.cmd /\ client.doubt
  /\ LET x == jtag_shift_dr(read_command(tgt, wire), wire)
     IN  /\ tgt' = x.t
         /\ client' =
              CASE ~Confirmed(x, read) -> [client EXCEPT !.fresh = FALSE]
                [] Confirmed(x, read) /\ IsAt(x.val, client.pos) ->
                     [client EXCEPT !.doubt = FALSE, !.fresh = FALSE]
                [] Confirmed(x, read) /\ IsPast(x.val, client.pos) /\ ~Blk.write ->
                     [client EXCEPT !.cmd = FALSE, !.fresh = FALSE]
                [] Confirmed(x, read) /\ IsPast(x.val, client.pos) /\ Blk.write ->
                     [client EXCEPT !.doubt = FALSE, !.fresh = FALSE, !.pos = @ + 1,
                                    !.at = IF client.pos + 1 = Blk.chunks THEN "done" ELSE @]
                [] OTHER -> IF client.fresh THEN [client EXCEPT !.at = "refused", !.fresh = FALSE]
                                            ELSE [client EXCEPT !.cmd = FALSE]
  /\ UNCHANGED moved

(* Stalling and unstalling, at any time, and a reset, after which there is *)
(* no block to go on with.                                                 *)
WriteControl(reset, stall, caught, wire, read) ==
  /\ client.at = "moving" /\ client.sel /\ Blk.mod = "CPU0"
  /\ LET x == jtag_shift_dr(write_control(tgt, reset, stall, caught, wire), wire)
     IN  /\ tgt' = x.t
         /\ client' =
              LET c == [client EXCEPT !.at = IF reset THEN "over" ELSE @, !.fresh = FALSE]
              IN  CASE Confirmed(x, read) ->
                         [c EXCEPT !.stall = IF stall /\ ~reset THEN "stalled" ELSE "unknown"]
                    [] Told(x, read, "CRC_IN_ERROR") -> c
                    [] OTHER -> [c EXCEPT !.stall = "unknown"]
  /\ UNCHANGED moved

ReadControl(wire, read) ==
  /\ client.at = "moving" /\ client.sel /\ Blk.mod = "CPU0"
  /\ LET x == jtag_shift_dr(read_control(tgt, wire), wire)
     IN  /\ tgt' = x.t
         /\ client' = [client EXCEPT !.fresh = FALSE,
                         !.stall = IF ~Confirmed(x, read) THEN @
                                   ELSE IF x.val THEN "stalled" ELSE "unknown"]
  /\ UNCHANGED moved

(* or1ksim_run, between two calls of the client: a program that is not     *)
(* stalled may stall, for a trap or a step.                                *)
or1ksim_run ==
  /\ ~tgt.stalled
  /\ tgt' = [tgt EXCEPT !.stalled = TRUE]
  /\ UNCHANGED <<client, moved>>

Next ==
  \/ \E block \in Blocks : Begin(block)
  \/ \E instr \in {"DEBUG", "BYPASS"} : jtag_shift_ir(instr)
  \/ jtag_reset \/ or1ksim_run
  \/ \E wire \in Wires, read \in BOOLEAN :
       \/ SelectModule(wire, read) \/ WriteCommand(wire, read) \/ ReadCommand(wire, read)
       \/ \E n \in (Blk.size - 1) .. (Blk.size + 1) : wire # "cut" /\ GoCommand(n, wire, read)
       \/ ReadControl(wire, read)
       \/ \E reset, stall, caught \in BOOLEAN : WriteControl(reset, stall, caught, wire, read)

(* The client goes on, the wire does not fail for ever: at last a command  *)
(* is read back before something spoilt drops it, and used.                *)
Through(A) == tgt.instr = "DEBUG" /\ A
Fairness ==
  /\ WF_vars(jtag_shift_ir("DEBUG"))
  /\ SF_vars(Through(~client.sel /\ SelectModule("good", TRUE)))
  /\ SF_vars(Through(~client.cmd /\ WriteCommand("good", TRUE)))
  /\ SF_vars(Through(GoCommand(Blk.size, "good", TRUE)))
  /\ SF_vars(Through(tgt.cmd.write_defined_p /\ GoCommand(Blk.size, "good", TRUE)))
  /\ SF_vars(Through(ReadCommand("good", TRUE)))
  /\ SF_vars(Through(client.fresh /\ ReadCommand("good", TRUE)))

Spec == Init /\ [][Next]_vars
FairSpec == Spec /\ Fairness

-----------------------------------------------------------------------------
(* Types; the address is never further than one chunk behind the block     *)
(* that the command was sent for.                                          *)
TypeOK ==
  /\ tgt.instr \in {"UNDEFINED", "DEBUG", "BYPASS"}
  /\ tgt.mod_id \in Modules \cup {"UNDEFINED"} /\ tgt.stalled \in BOOLEAN
  /\ \A m \in DOMAIN Cells : \A c \in Cells[m] : tgt.cells[m][c] \in Zero .. Blk.size * Blk.chunks
  /\ client.pos \in 0 .. Blk.chunks
  /\ client.cmd /\ tgt.cmd.write_defined_p =>
       IsAt(tgt.cmd, client.pos) \/ IsAt(tgt.cmd, client.pos + 1)

(* The cell of byte k of the block, from 0.                                *)
Place(k) ==
  IF Blk.mod = "WISHBONE" THEN Blk.base + k ELSE (4 * (Blk.base % MAX_SPRS) + k) % (4 * MAX_SPRS)

(* What is confirmed is there: byte k of the block is in its place, once   *)
(* its chunk is confirmed, and no cell outside of the block and its        *)
(* current chunk is touched, whatever the wire did, and whatever command   *)
(* was left by an earlier block.  A block that is refused touches nothing. *)
WriteExact ==
  \A m \in DOMAIN Cells : \A c \in Cells[m] :
    LET v == tgt.cells[m][c]
        mine == {k \in 0 .. Blk.size * Blk.chunks - 1 : Blk.write /\ m = Blk.mod /\ Place(k) = c}
    IN  /\ \A k \in mine : k < client.pos * Blk.size => v = k + 1
        /\ v # 0 => /\ \E k \in mine : k < (client.pos + 1) * Blk.size /\ v \in {k + 1, Zero}
                    /\ client.at # "refused"

(* The bytes that a client has taken from answers that it could read are   *)
(* those of its block, in order, none missing and none twice.              *)
ReadExact == ~Blk.write => client.got = [k \in 1 .. client.pos * Blk.size |-> Place(k - 1)]

(* Blocks are moved exactly, in both directions.                           *)
BlocksExact == TypeOK /\ WriteExact /\ ReadExact

(* Blocks are refused rightly: the interface refuses what its module does  *)
(* not support, and reports an error only for a block that is not in       *)
(* memory; it never forgets or changes a command that it has accepted.     *)
Supported == Accepted(Blk.mod, Sent(0)).write_defined_p
InMemory == \A k \in 0 .. Blk.size * Blk.chunks - 1 : Place(k) \in Cells["WISHBONE"]
RefusedRightly ==
  /\ client.at = "refused" => ~Supported
  /\ client.at = "done" => Supported
  /\ client.at = "failed" => Blk.mod = "WISHBONE" /\ ~InMemory

(* A processor that the client knows to be stalled is stalled: it may read *)
(* and write registers and memory of a program that stands still.          *)
KnownStalled == client.stall = "stalled" => tgt.stalled

(* What the client concludes from the answers that it could read is so.    *)
ClientInformed == RefusedRightly /\ KnownStalled

(* A client that repeats what is not confirmed comes to an end.            *)
TransferEnds == client.at = "moving" ~> client.at # "moving"
=============================================================================
