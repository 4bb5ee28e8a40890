---------------------------- MODULE MCRetransmit ----------------------------
(* A small instance of Retransmit, in units of 50 ms: the default settings *)
(* of NewRudp, and those of a fast mode.                                   *)
EXTENDS Retransmit

TwoModes == {[noDelay |-> FALSE, interval |-> 2, resend |-> 0],
             [noDelay |-> TRUE, interval |-> 1, resend |-> 2]}
=============================================================================
