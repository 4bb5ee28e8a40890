------------------------------- MODULE MCRUDP -------------------------------
(* Small instances of RUDP and RUDPLive: node a writes, node b answers     *)
(* with acks, and at most so many datagrams are on their way.              *)
EXTENDS RUDPLive, TLC

CONSTANTS a, b
TwoNodes == {a, b}
OneEach == (a :> 1) @@ (b :> 1)
TwoEach == (a :> 2) @@ (b :> 2)
OneWay2 == (a :> 2) @@ (b :> 0)
OneWay3 == (a :> 3) @@ (b :> 0)
AllOne == (a :> {1}) @@ (b :> {1})
SndWide == (a :> {3}) @@ (b :> {2})
RcvNarrow == (a :> {2}) @@ (b :> {1})
=============================================================================
