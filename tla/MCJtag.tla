------------------------------- MODULE MCJtag -------------------------------
(* Instance of Jtag: blocks of bytes, halfwords and words that fit, leave  *)
(* the memory in their last chunk, or are not aligned; special purpose     *)
(* registers, with an address that is cut and one that wraps; modules that *)
(* are not there.                                                          *)
EXTENDS Jtag

Block(mod, write, width, base, size, chunks) ==
  [mod |-> mod, write |-> write, width |-> width, base |-> base, size |-> size, chunks |-> chunks]

MCBlocks ==
  UNION {{Block("WISHBONE", w, 1, 1, 2, 3), Block("WISHBONE", w, 2, 2, 2, 2),
          Block("WISHBONE", w, 4, 0, 4, 2), Block("WISHBONE", w, 1, 3, 3, 2),
          Block("WISHBONE", w, 2, 1, 2, 1), Block("WISHBONE", w, 4, 0, 2, 1),
          Block("CPU0", w, 4, 2, 4, 2), Block("CPU0", w, 4, 4, 4, 1),
          Block("CPU0", w, 2, 0, 4, 1), Block("CPU1", w, 4, 0, 4, 1),
          Block("MISSING", w, 4, 0, 4, 1)} : w \in BOOLEAN}
=============================================================================
