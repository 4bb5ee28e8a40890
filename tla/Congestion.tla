----------------------------- MODULE Congestion -----------------------------
(***************************************************************************)
(* The congestion window of one sender in rudp.go: slow start              *)
(* and congestion avoidance in Input, fast recovery and timeout in flush,  *)
(* in the unsigned arithmetic of the code.                                 *)
(*                                                                         *)
(* What is sent and acked is in module RUDP: here flight = sndNxt - sndUna *)
(* and queued = len(sndQueue), and an Input that releases segments, or a   *)
(* flush that resends some, is an input of the arithmetic.                 *)
(***************************************************************************)
EXTENDS Integers

CONSTANTS
  Mss,         \* bytes of a segment, a multiple of 16
  ThreshInit, ThreshMin,   \* IRUDP_THRESH_INIT, IRUDP_THRESH_MIN
  FastResends, \* values of fastResend; 0 turns fast retransmission off
  Word,        \* 2^32: unsigned arithmetic wraps here
  Wnd,         \* the largest window of either end
  MaxQueue     \* bound: segments queued

ASSUME MssAssumption == Mss \in Nat \ {0}
ASSUME ThreshAssumption == ThreshInit \in Nat \ {0} /\ ThreshMin \in Nat \ {0}
ASSUME FastResendAssumption == FastResends \subseteq Nat /\ 0 \in FastResends
ASSUME WndAssumption == Wnd \in Nat \ {0} /\ MaxQueue \in Nat
ASSUME WordAssumption ==
  Word \in Nat /\ \A f \in FastResends : Word > 2 * Mss * (Wnd + f + ThreshInit + ThreshMin)

VARIABLES
  cwnd, ssthresh, incr,  \* of the RUDP block
  fastResend, control,   \* set by NoDelay; control: noCwnd = 0
  sndWnd, rmtWnd,        \* the windows
  flight, queued,
  flushing               \* the flush at the end of Input is due

setVars == <<fastResend, control>>
vars == <<cwnd, ssthresh, incr, setVars, sndWnd, rmtWnd, flight, queued, flushing>>

Lesser(a, b) == IF a <= b THEN a ELSE b
Greater(a, b) == IF a >= b THEN a ELSE b

Init ==
  /\ cwnd = 0 /\ ssthresh = ThreshInit /\ incr = 0
  /\ fastResend = 0 /\ control = TRUE
  /\ sndWnd = Wnd /\ rmtWnd = Wnd
  /\ flight = 0 /\ queued = 0
  /\ flushing = FALSE
-----------------------------------------------------------------------------
\* Send, SetWindowSize and SetNoDelay.
Queue ==
  /\ ~flushing /\ queued < MaxQueue
  /\ queued' = queued + 1
  /\ UNCHANGED <<cwnd, ssthresh, incr, setVars, sndWnd, rmtWnd, flight, flushing>>

WndSize ==
  /\ ~flushing
  /\ sndWnd' \in 1..Wnd
  /\ UNCHANGED <<cwnd, ssthresh, incr, setVars, rmtWnd, flight, queued, flushing>>

NoDelay ==
  /\ ~flushing
  /\ fastResend' \in FastResends /\ control' \in BOOLEAN
  /\ UNCHANGED <<cwnd, ssthresh, incr, sndWnd, rmtWnd, flight, queued, flushing>>
-----------------------------------------------------------------------------
\* New acks let cwnd grow while it is below the window w just received: by one
\* in slow start, else as incr gains about one mss per window; never past w.
Grow(w) ==
  LET avoid == Greater(incr, Mss)
      sum == avoid + (Mss * Mss) \div avoid + Mss \div 16
      next == IF cwnd < ssthresh THEN [cwnd |-> cwnd + 1, incr |-> incr + Mss]
              ELSE [cwnd |-> IF (cwnd + 1) * Mss <= sum THEN (sum + Mss - 1) \div Mss ELSE cwnd,
                    incr |-> sum]
  IN  \/ cwnd >= w /\ UNCHANGED <<cwnd, incr>>
      \/ cwnd < w /\ next.cwnd <= w /\ cwnd' = next.cwnd /\ incr' = next.incr
      \/ cwnd < w /\ next.cwnd > w /\ cwnd' = w /\ incr' = w * Mss

\* Input: a datagram releases some segments, or none, and brings the window.
Input ==
  /\ ~flushing
  /\ \E w \in 0..Wnd, released \in 0..flight :
       /\ rmtWnd' = w
       /\ flight' = flight - released
       /\ IF control /\ released > 0 THEN Grow(w) ELSE UNCHANGED <<cwnd, incr>>
       /\ flushing' = (released > 0)
  /\ UNCHANGED <<ssthresh, setVars, sndWnd, queued>>
-----------------------------------------------------------------------------
Window == IF control THEN Lesser(cwnd, Lesser(sndWnd, rmtWnd)) ELSE Lesser(sndWnd, rmtWnd)
Resent == IF fastResend = 0 THEN Word - 1 ELSE fastResend

\* Mutants of Update: incr is forgotten; the sum does not wrap; cwnd may stay 0.
UpdateKeepIncr(change, lost, inflight, window) ==
  LET half  == Greater(inflight \div 2, ThreshMin)
      cwnd1 == IF change THEN (half + Resent) % Word ELSE cwnd
  IN  IF lost
        THEN /\ ssthresh' = Greater(window \div 2, ThreshMin) /\ cwnd' = 1 /\ incr' = Mss
        ELSE /\ ssthresh' = IF change THEN half ELSE ssthresh
             /\ cwnd' = Greater(cwnd1, 1)
             /\ incr' = IF cwnd1 = 0 THEN Mss ELSE incr
UpdateWide(change, lost, inflight, window) ==
  LET half  == Greater(inflight \div 2, ThreshMin)
      cwnd1 == IF change THEN half + Resent ELSE cwnd
  IN  IF lost
        THEN /\ ssthresh' = Greater(window \div 2, ThreshMin) /\ cwnd' = 1 /\ incr' = Mss
        ELSE /\ ssthresh' = IF change THEN half ELSE ssthresh
             /\ cwnd' = Greater(cwnd1, 1)
             /\ incr' = IF cwnd1 = 0 THEN Mss ELSE IF change THEN cwnd1 * Mss ELSE incr
UpdateZero(change, lost, inflight, window) ==
  LET half  == Greater(inflight \div 2, ThreshMin)
      cwnd1 == IF change THEN (half + Resent) % Word ELSE cwnd
  IN  IF lost
        THEN /\ ssthresh' = Greater(window \div 2, ThreshMin) /\ cwnd' = 1 /\ incr' = Mss
        ELSE /\ ssthresh' = IF change THEN half ELSE ssthresh
             /\ cwnd' = cwnd1
             /\ incr' = IF change THEN cwnd1 * Mss ELSE incr

\* The end of flush: a fast or early retransmission (change) halves the threshold
\* and sets cwnd above it, a timeout (lost) starts over with one segment.
Update(change, lost, inflight, window) ==
  LET half  == Greater(inflight \div 2, ThreshMin)
      cwnd1 == IF change THEN (half + Resent) % Word ELSE cwnd
  IN  IF lost
        THEN /\ ssthresh' = Greater(window \div 2, ThreshMin) /\ cwnd' = 1 /\ incr' = Mss
        ELSE /\ ssthresh' = IF change THEN half ELSE ssthresh
             /\ cwnd' = Greater(cwnd1, 1)
             /\ incr' = IF cwnd1 = 0 THEN Mss ELSE IF change THEN cwnd1 * Mss ELSE incr

\* flush(false): it moves queued segments while the window lasts.  A segment
\* passed over by acks is resent at fastResend of them, or at the first when
\* nothing new is sent; its passing needs an acked segment behind it.
Flush ==
  /\ flushing' = FALSE
  /\ LET new == Lesser(queued, Greater(Window - flight, 0))
     IN  /\ flight' = flight + new /\ queued' = queued - new
         /\ \E change, lost \in BOOLEAN :
              /\ change => flight >= 2 /\ (fastResend > 0 \/ new = 0)
              /\ lost => flight >= 1
              /\ change /\ lost => flight >= 3
              /\ IF control THEN Update(change, lost, flight', Window)
                 ELSE UNCHANGED <<cwnd, ssthresh, incr>>
  /\ UNCHANGED <<setVars, sndWnd, rmtWnd>>
-----------------------------------------------------------------------------
Next == Queue \/ WndSize \/ NoDelay \/ Input \/ Flush

Spec == Init /\ [][Next]_vars /\ WF_vars(Flush)
-----------------------------------------------------------------------------
(* Properties                                                              *)

\* cwnd + resent wraps around 2^32 when fast retransmission is off: the window
\* stays within what the ends allow, whatever sequence of resends led to it.
CwndBounded ==
  \E f \in FastResends : cwnd <= Greater(Wnd, Greater(Wnd \div 2, ThreshMin) + f)

\* incr is the window in bytes, kept apart from cwnd in five places: whatever
\* sequence of acks, losses and settings came, less than a segment lies between them.
IncrFollowsCwnd == (cwnd - 1) * Mss < incr /\ incr < (cwnd + 1) * Mss

\* cwnd starts as 0, so that the first flush sends nothing: still, what is queued
\* when nothing is in flight is sent, unless the peer closes its window.
QueueMoves == queued > 0 /\ flight = 0 ~> flight > 0 \/ rmtWnd = 0
=============================================================================
