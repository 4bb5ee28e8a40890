----------------------------- MODULE MCSession -----------------------------
(* Small instances of Session. *)
EXTENDS Session, TLC

CONSTANTS g1, g2
NoGoroutine == {}
FirstOnly == {g1}
FirstTwo == {g1, g2}
=============================================================================
