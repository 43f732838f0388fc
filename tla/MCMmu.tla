------------------------------- MODULE MCMmu --------------------------------
(***************************************************************************)
(* The MMU for model checking: software writes one page's entries with     *)
(* LRU field 0 and the other's with 3, which is more than the reload value *)
(* of two sets.                                                            *)
(***************************************************************************)
EXTENDS Mmu

MCMatches == {[tag |-> None, lru |-> 0], [tag |-> 0, lru |-> 0], [tag |-> 1, lru |-> 3]}
MCAttributes == {{"S", "U", "SW", "UW"}, {"S"}}
=============================================================================
