----------------------------- MODULE MCListener -----------------------------
(* Small instances of Listener. *)
EXTENDS Listener, TLC

CONSTANTS r1, r2, c1, c2
OneRemote == {r1}
TwoRemotes == {r1, r2}
TwoConvs == {c1, c2}
=============================================================================
