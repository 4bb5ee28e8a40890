----------------------------- MODULE Retransmit -----------------------------
(***************************************************************************)
(* When one sender of rudp.go sends a segment again: the round-trip        *)
(* estimate of updateRTO, the timer of every segment, the counting of acks *)
(* that passed it by, and the interval after which flush wants to be       *)
(* called again.                                                           *)
(*                                                                         *)
(* What is sent is in module RUDP: the receiver may ack, or cover by una,  *)
(* whatever was sent to it.  Transmissions and acks are lost, duplicated   *)
(* and reordered, but none is older than MaxRtt.  A segment leaves its     *)
(* window as soon as it enters, and resendts is ts + rto (the time flush   *)
(* itself takes is left out).                                              *)
(***************************************************************************)
EXTENDS Integers

CONSTANTS
  RtoDef, RtoMin, RtoNdl, RtoMax,  \* IRUDP_RTO_DEF, _MIN, _NDL, _MAX
  Modes,       \* arguments of NoDelay: [noDelay, interval, resend]
  MaxRtt,      \* age at which the network drops a datagram
  MaxSn,       \* bound: segments sent
  FastCap,     \* bound: fastack is not counted any further
  Horizon      \* bound: the clock stops here

Mode == [noDelay : BOOLEAN, interval : Nat \ {0}, resend : Nat]
ASSUME RtoAssumption ==
  /\ RtoNdl \in Nat \ {0} /\ RtoMin \in Nat /\ RtoDef \in Nat /\ RtoMax \in Nat
  /\ RtoNdl <= RtoMin /\ RtoMin <= RtoDef /\ RtoDef <= RtoMax
ASSUME ModeAssumption == Modes \subseteq Mode /\ \A m \in Modes : m.resend <= FastCap
ASSUME BoundAssumption ==
  MaxRtt \in Nat /\ MaxSn \in Nat /\ FastCap \in Nat \ {0} /\ Horizon \in Nat

VARIABLES
  clock,
  mode,             \* noDelay, interval, fastResend of the RUDP block
  srtt, rttVal, rto, \* rxSRTT, rxRTTVal, rxRTO
  una, buf,         \* sndUna; buf[sn]: the segment sn of sndBuf
  next,             \* sndNxt
  flushing,         \* Input has slid the window, its flush is due
  air,              \* <<sn, ts>>: transmissions or acks in the network
  put, due          \* the last update, and when the timer service calls the next

estVars == <<srtt, rttVal, rto>>
segVars == <<una, buf, next>>
vars == <<clock, mode, estVars, segVars, flushing, air, put, due>>

Lesser(a, b) == IF a <= b THEN a ELSE b
Greater(a, b) == IF a >= b THEN a ELSE b

\* passed is history: an ack for a later transmission came since this one.
Segment == [ts : Nat, rto : Nat, fastack : 0..FastCap, acked : BOOLEAN, passed : BOOLEAN]
Resendts(s) == s.ts + s.rto
Unacked == {sn \in DOMAIN buf : ~buf[sn].acked}

Init ==
  /\ clock = 0 /\ mode \in Modes
  /\ srtt = 0 /\ rttVal = 0 /\ rto = RtoDef
  /\ una = 0 /\ buf = <<>> /\ next = 0
  /\ flushing = FALSE
  /\ air = {}
  /\ put = 0 /\ due = 0
-----------------------------------------------------------------------------
(* flush                                                                   *)

\* A segment as it is sent, to wait that long; no acks have passed it by.
Sent(wait) ==
  [ts |-> clock, rto |-> wait, fastack |-> 0, acked |-> FALSE, passed |-> FALSE]

\* An unacked segment is sent again when enough acks passed it by (fast), when
\* one did and nothing new is sent (early), or when its time has come, and then
\* it waits longer the next time.
Flushed(s, k) ==
  LET fast  == mode.resend > 0 /\ s.fastack >= mode.resend
      early == s.fastack > 0 /\ k = 0
      more  == IF mode.noDelay THEN rto \div 2 ELSE rto
  IN  IF s.acked THEN s
      ELSE IF fast \/ early THEN Sent(rto)
      ELSE IF clock >= Resendts(s) THEN Sent(s.rto + more)
      ELSE s

\* flush(false), moving k segments from the queue.
Flush(k) ==
  /\ next' = next + k
  /\ buf' = [sn \in una..(next + k - 1) |->
       IF sn < next THEN Flushed(buf[sn], k) ELSE Sent(rto)]
  /\ air' = air \cup {<<sn, clock>> : sn \in {x \in Unacked' : buf'[x].ts = clock}}
  /\ UNCHANGED una

\* Mutant of Gap: the timers do not shorten it.
GapInterval == mode.interval

\* What flush returns: the time to the first retransmission, at most interval.
Gap == CHOOSE g \in 0..mode.interval :
  /\ \A sn \in Unacked' : clock + g <= Resendts(buf'[sn])
  /\ g = mode.interval \/ \E sn \in Unacked' : clock + g = Resendts(buf'[sn])

\* Write: it flushes, or leaves that to the next update; what flush returns is
\* dropped, and due stays.
Write(k) ==
  /\ ~flushing /\ next + k <= MaxSn
  /\ Flush(k)
  /\ UNCHANGED <<clock, mode, estVars, flushing, put, due>>

\* update: it is put again for the time flush returned.
Update(k) ==
  /\ ~flushing /\ clock = due /\ next + k <= MaxSn
  /\ Flush(k)
  /\ put' = clock /\ due' = clock + Gap
  /\ UNCHANGED <<clock, mode, estVars, flushing>>
-----------------------------------------------------------------------------
(* Input                                                                   *)

\* Mutant of Estimate: the variation is not averaged.
EstimateSum(rtt) ==
  LET delta == IF srtt > rtt THEN srtt - rtt ELSE rtt - srtt
      first == rttVal = 0
      s == IF first THEN rtt ELSE Greater((7 * srtt + rtt) \div 8, 1)
      v == IF first THEN rtt \div 2 ELSE 3 * rttVal + delta
      low == IF mode.noDelay THEN RtoNdl ELSE RtoMin
  IN  /\ srtt' = s /\ rttVal' = v
      /\ rto' = Lesser(Greater(low, s + Greater(mode.interval, 4 * v)), RtoMax)

\* updateRTO.
Estimate(rtt) ==
  LET delta == IF srtt > rtt THEN srtt - rtt ELSE rtt - srtt
      first == rttVal = 0
      s == IF first THEN rtt ELSE Greater((7 * srtt + rtt) \div 8, 1)
      v == IF first THEN rtt \div 2 ELSE (3 * rttVal + delta) \div 4
      low == IF mode.noDelay THEN RtoNdl ELSE RtoMin
  IN  /\ srtt' = s /\ rttVal' = v
      /\ rto' = Lesser(Greater(low, s + Greater(mode.interval, 4 * v)), RtoMax)

\* Mutant of FastAck: every ack of a later segment counts.
FastAckAny(s, ts) == [s EXCEPT !.fastack = Lesser(@ + 1, FastCap), !.passed = @ \/ s.ts <= ts]

\* parseFastAck, for a segment before the one acked.
FastAck(s, ts) ==
  IF s.ts <= ts THEN [s EXCEPT !.fastack = Lesser(@ + 1, FastCap), !.passed = TRUE] ELSE s

\* A datagram with exactly one ack, of a transmission, and an una u: parseUna,
\* parseAck and parseFastAck, then updateRTO, although the ack may be an old one.
Input(sn, ts, u) ==
  LET low == Greater(una, u)
  IN  /\ ~flushing
      /\ una' = low
      /\ buf' = [x \in low..(next - 1) |->
           IF sn < low \/ x > sn THEN buf[x]
           ELSE IF x = sn THEN [buf[x] EXCEPT !.acked = TRUE]
           ELSE FastAck(buf[x], ts)]
      /\ Estimate(clock - ts)
      /\ flushing' = (low > una)
      /\ UNCHANGED <<clock, mode, next, air, put, due>>

InputFlush(k) ==
  /\ flushing /\ next + k <= MaxSn
  /\ Flush(k)
  /\ flushing' = FALSE
  /\ UNCHANGED <<clock, mode, estVars, put, due>>

NoDelay(m) ==
  /\ ~flushing
  /\ mode' = m
  /\ UNCHANGED <<clock, estVars, segVars, flushing, air, put, due>>

\* Time passes, but the timer service is not late; old datagrams are dropped.
Tick ==
  /\ ~flushing /\ clock < due /\ clock < Horizon
  /\ clock' = clock + 1
  /\ air' = {x \in air : clock' - x[2] <= MaxRtt}
  /\ UNCHANGED <<mode, estVars, segVars, flushing, put, due>>
-----------------------------------------------------------------------------
Next ==
  \/ \E k \in 0..MaxSn : Write(k) \/ Update(k) \/ InputFlush(k)
  \/ \E x \in air, u \in 0..next : Input(x[1], x[2], u)
  \/ \E m \in Modes : NoDelay(m)
  \/ Tick

Spec == Init /\ [][Next]_vars
-----------------------------------------------------------------------------
(* Properties                                                              *)

Longest == Greater(1, MaxRtt)

\* Types; the estimates are averages of round trips, and a segment that acks
\* passed by was passed by an ack of a later transmission (used by the proofs).
TypeOK ==
  /\ clock \in Nat /\ mode \in Modes
  /\ srtt \in 0..Longest /\ rttVal \in 0..Longest
  /\ rto \in Nat /\ rto >= RtoNdl
  /\ una \in Nat /\ next \in Nat /\ una <= next
  /\ buf \in [una..(next - 1) -> Segment]
  /\ \A sn \in DOMAIN buf : buf[sn].rto >= RtoNdl /\ (buf[sn].fastack > 0 => buf[sn].passed)
  /\ flushing \in BOOLEAN
  /\ \A x \in air : x[2] \in Nat /\ x[2] <= clock /\ clock <= x[2] + MaxRtt
  /\ put \in Nat

\* The state is typed; the segments known at the last update are sent again when
\* their time comes, and one sent since, by Write or Input, whose timer nobody set,
\* at most one interval later.
ResendOnTime == TypeOK /\
  \A sn \in Unacked :
    /\ buf[sn].ts < put => due <= Resendts(buf[sn])
    /\ \E m \in Modes : clock <= Resendts(buf[sn]) + m.interval

\* A segment is sent again for a reason: no ack came in the least time allowed,
\* or a transmission after its own was acked.
CausedResend ==
  [][\A sn \in Unacked \cap Unacked' :
       buf'[sn].ts # buf[sn].ts => clock >= buf[sn].ts + RtoNdl \/ buf[sn].passed]_vars

\* The timeout follows the network: however the samples are mixed, old ones of
\* duplicated acks among them, it never exceeds what the longest round trip asks for.
RtoFollowsRtt ==
  \/ rto = RtoDef
  \/ \E m \in Modes : rto <= Greater(RtoMin, Longest + Greater(m.interval, 4 * Longest))
=============================================================================
