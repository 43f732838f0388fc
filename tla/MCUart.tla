------------------------------- MODULE MCUart -------------------------------
(***************************************************************************)
(* Instance of Uart for TLC.                                               *)
(***************************************************************************)
EXTENDS Uart

MCIERs == {{}, {"RLSI", "RDI", "THRI", "MSI"}}

=============================================================================
