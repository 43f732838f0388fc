------------------------------ MODULE MCMemMap ------------------------------
(* Instance of MemMap for TLC.                                             *)
EXTENDS MemMap

(* Any of the memories may be configured for the controller.               *)
MCAll == SUBSET Areas
=============================================================================
