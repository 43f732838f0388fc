-------------------------------- MODULE MCPic -------------------------------
(* Instances of Pic for TLC.                                               *)
EXTENDS Pic

CONSTANTS uart, eth      \* two interrupt lines

MCLines == {uart, eth}
MCExtLines == {eth}
MCNMI == {uart}
=============================================================================
