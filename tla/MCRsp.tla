------------------------------- MODULE MCRsp --------------------------------
(* Instances of Rsp for TLC.                                               *)
EXTENDS Rsp

Rough == [ticks |-> TRUE, polite |-> FALSE, bps |-> {0, 2}]
Quiet == [ticks |-> FALSE, polite |-> TRUE, bps |-> {0, 1, 3}]
Ticking == [ticks |-> TRUE, polite |-> TRUE, bps |-> {0}]

MCSessions == {Rough, Quiet}
MCTicking == {Ticking}
=============================================================================
