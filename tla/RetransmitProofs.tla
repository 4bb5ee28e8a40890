-------------------------- MODULE RetransmitProofs --------------------------
(* Theorems about module Retransmit, for all settings and bounds. *)
EXTENDS Retransmit, WellFoundedInduction, TLAPS

USE DEF vars, estVars, segVars

\* The smoothed averages of updateRTO stay within what they average.
LEMMA Averages ==
  ASSUME NEW srt \in Nat, NEW var \in Nat, NEW rtt \in Nat, NEW top \in Nat,
         srt <= top, var <= top, rtt <= top, NEW delta \in Nat,
         delta <= top
  PROVE  /\ (7 * srt + rtt) \div 8 \in 0..top
         /\ (3 * var + delta) \div 4 \in 0..top
         /\ rtt \div 2 \in 0..top
  BY SMT

\* The estimates that updateRTO computes stay within the longest round trip, and
\* the timeout within its limits.
LEMMA EstimateBound ==
  ASSUME TypeOK, NEW rtt \in 0..MaxRtt, Estimate(rtt)
  PROVE  /\ srtt' \in 0..Longest /\ rttVal' \in 0..Longest
         /\ rto' \in Nat /\ rto' >= RtoNdl
         /\ rto' <= Greater(RtoMin, Longest + Greater(mode.interval, 4 * Longest))
  <1> DEFINE delta == IF srtt > rtt THEN srtt - rtt ELSE rtt - srtt
             low == IF mode.noDelay THEN RtoNdl ELSE RtoMin
  <1>1. /\ MaxRtt \in Nat /\ Longest \in Nat /\ Longest >= 1 /\ rtt <= Longest /\ rtt \in Nat
        /\ srtt \in Nat /\ srtt <= Longest /\ rttVal \in Nat /\ rttVal <= Longest
    BY BoundAssumption DEF TypeOK, Longest, Greater
  <1>2. delta \in Nat /\ delta <= Longest
    BY <1>1
  <1>3. /\ (7 * srtt + rtt) \div 8 \in 0..Longest
        /\ (3 * rttVal + delta) \div 4 \in 0..Longest
        /\ rtt \div 2 \in 0..Longest
    BY <1>1, <1>2, Averages
  <1>4. srtt' \in 0..Longest /\ rttVal' \in 0..Longest
    BY <1>1, <1>3 DEF Estimate, Greater
  <1>5. rto' = Lesser(Greater(low, srtt' + Greater(mode.interval, 4 * rttVal')), RtoMax)
    BY DEF Estimate
  <1>6. /\ mode.interval \in Nat
        /\ low \in Nat /\ low >= RtoNdl /\ low <= RtoMin
        /\ RtoNdl \in Nat /\ RtoMin \in Nat /\ RtoMax \in Nat /\ RtoMax >= RtoNdl
    BY ModeAssumption, RtoAssumption DEF TypeOK, Mode
  <1> HIDE DEF delta, low
  <1>7. PICK i \in Nat, v \in 0..Longest, r \in 0..Longest :
          i = mode.interval /\ v = rttVal' /\ r = srtt'
    BY <1>4, <1>6
  <1>8. rto' = Lesser(Greater(low, r + Greater(i, 4 * v)), RtoMax)
    BY <1>5, <1>7
  <1>9. Greater(i, 4 * v) \in Nat /\ Greater(i, 4 * v) <= Greater(i, 4 * Longest)
        /\ Greater(i, 4 * Longest) \in Nat
    BY <1>1 DEF Greater
  <1>10. rto' \in Nat /\ rto' >= RtoNdl /\ rto' <= Greater(RtoMin, Longest + Greater(i, 4 * Longest))
    <2> DEFINE g == Greater(i, 4 * v)
               top == Greater(i, 4 * Longest)
    <2> HIDE DEF g, top
    <2>1. g \in Nat /\ top \in Nat /\ g <= top /\ rto' = Lesser(Greater(low, r + g), RtoMax)
      BY <1>8, <1>9 DEF g, top
    <2>2. rto' \in Nat /\ rto' >= RtoNdl /\ rto' <= Greater(RtoMin, Longest + top)
      BY <2>1, <1>1, <1>6 DEF Lesser, Greater
    <2>3. QED
      BY <2>2 DEF top
  <1>11. QED
    BY <1>4, <1>7, <1>10
-----------------------------------------------------------------------------
(* Typing                                                                  *)

Sound(s) == s \in Segment /\ s.rto >= RtoNdl /\ (s.fastack > 0 => s.passed)

\* The type invariant, read for one segment in flight.
LEMMA SoundSegments ==
  TypeOK => \A sn \in una..(next - 1) : Sound(buf[sn])
  BY DEF TypeOK, Sound

\* A segment just sent is sound when it waits long enough.
LEMMA SentSegment ==
  ASSUME TypeOK, NEW wait \in Nat, wait >= RtoNdl
  PROVE  Sound(Sent(wait)) /\ Sent(wait).ts = clock
  <1>1. clock \in Nat /\ 0 \in 0..FastCap
    BY BoundAssumption DEF TypeOK
  <1>2. QED
    BY <1>1 DEF Sent, Segment, Sound

\* What flush makes of a segment is sound, and it sends one only for a reason.
LEMMA FlushedSegment ==
  ASSUME TypeOK, NEW s, Sound(s), NEW k \in Nat
  PROVE  /\ Sound(Flushed(s, k))
         /\ Flushed(s, k).ts # s.ts => clock >= s.ts + RtoNdl \/ s.passed
  <1> DEFINE fast  == mode.resend > 0 /\ s.fastack >= mode.resend
             early == s.fastack > 0 /\ k = 0
             more  == IF mode.noDelay THEN rto \div 2 ELSE rto
  <1>1. /\ clock \in Nat /\ rto \in Nat /\ rto >= RtoNdl /\ RtoNdl \in Nat
        /\ s \in Segment /\ s.ts \in Nat /\ s.rto \in Nat /\ s.rto >= RtoNdl
        /\ s.fastack \in Nat
        /\ mode.resend \in Nat
    BY ModeAssumption, RtoAssumption DEF TypeOK, Sound, Segment, Mode
  <1>2. more \in Nat
    BY <1>1
  <1>3. s.rto + more \in Nat /\ s.rto + more >= RtoNdl
    BY <1>1, <1>2
  <1>4. Sound(Sent(rto)) /\ Sound(Sent(s.rto + more))
    BY <1>1, <1>3, SentSegment
  <1>5. /\ Flushed(s, k) \in {s, Sent(rto), Sent(s.rto + more)}
        /\ Flushed(s, k) = s \/ fast \/ early \/ clock >= Resendts(s)
    BY DEF Flushed
  <1>6. Sound(Flushed(s, k))
    BY <1>4, <1>5
  <1>7. fast \/ early => s.passed
    BY <1>1 DEF Sound
  <1>8. clock >= Resendts(s) => clock >= s.ts + RtoNdl
    BY <1>1 DEF Resendts
  <1>9. QED
    BY <1>5, <1>6, <1>7, <1>8

\* A flush keeps the segments sound.
LEMMA FlushType ==
  ASSUME TypeOK, NEW k \in Nat, Flush(k)
  PROVE  /\ next' \in Nat /\ una' \in Nat /\ una' <= next'
         /\ buf' \in [una'..(next' - 1) -> Segment]
         /\ \A sn \in DOMAIN buf' : Sound(buf'[sn])
         /\ \A x \in air' : x \in air \/ x[2] = clock
  <1>1. /\ una \in Nat /\ next \in Nat /\ una <= next
        /\ next' = next + k /\ una' = una
    BY DEF TypeOK, Flush
  <1>2. buf' = [sn \in una..(next' - 1) |-> IF sn < next THEN Flushed(buf[sn], k) ELSE Sent(rto)]
    BY <1>1 DEF Flush
  <1>3. ASSUME NEW sn \in una..(next' - 1) PROVE Sound(buf'[sn])
    <2>1. CASE sn < next
      <3>1. sn \in una..(next - 1)
        BY <1>1, <2>1
      <3>2. Sound(Flushed(buf[sn], k))
        BY <3>1, SoundSegments, FlushedSegment
      <3>3. QED
        BY <1>2, <2>1, <3>2
    <2>2. CASE ~(sn < next)
      <3>1. Sound(Sent(rto))
        BY SentSegment DEF TypeOK
      <3>2. QED
        BY <1>2, <2>2, <3>1
    <2>3. QED
      BY <2>1, <2>2
  <1>4. /\ DOMAIN buf' = una..(next' - 1)
        /\ buf' \in [una..(next' - 1) -> Segment]
    BY <1>2, <1>3 DEF Sound
  <1>5. \A x \in air' : x \in air \/ x[2] = clock
    BY DEF Flush
  <1>6. QED
    BY <1>1, <1>3, <1>4, <1>5

\* An ack that passes a segment by leaves it sound and its transmission as it is.
LEMMA PassedSegment ==
  ASSUME NEW s, Sound(s), NEW ts
  PROVE  /\ Sound(FastAck(s, ts)) /\ FastAck(s, ts).ts = s.ts
         /\ Sound([s EXCEPT !.acked = TRUE]) /\ [s EXCEPT !.acked = TRUE].ts = s.ts
  <1>1. FastCap \in Nat /\ FastCap > 0 /\ s \in Segment /\ s.fastack \in 0..FastCap
    BY BoundAssumption DEF Sound, Segment
  <1>2. Lesser(s.fastack + 1, FastCap) \in 0..FastCap
    BY <1>1 DEF Lesser
  <1>3. Sound([s EXCEPT !.acked = TRUE]) /\ [s EXCEPT !.acked = TRUE].ts = s.ts
    BY <1>1 DEF Sound, Segment
  <1>4. Sound(FastAck(s, ts)) /\ FastAck(s, ts).ts = s.ts
    BY <1>1, <1>2 DEF FastAck, Sound, Segment
  <1>5. QED
    BY <1>3, <1>4

\* A new control block is typed.
LEMMA InitType == Init => TypeOK
  <1> SUFFICES ASSUME Init PROVE TypeOK
    OBVIOUS
  <1>1. buf \in [0..-1 -> Segment] /\ DOMAIN buf = {}
    <2>1. DOMAIN buf = {} /\ buf = [sn \in {} |-> 0]
      BY DEF Init
    <2>2. 0..-1 = {}
      OBVIOUS
    <2>3. QED
      BY <2>1, <2>2
  <1>2. Longest \in Nat
    BY BoundAssumption DEF Longest, Greater
  <1>3. RtoDef \in Nat /\ RtoDef >= RtoNdl
    BY RtoAssumption
  <1>4. una = 0 /\ next = 0 /\ next - 1 = -1
    BY DEF Init
  <1>5. buf \in [una..(next - 1) -> Segment]
    BY <1>1, <1>4
  <1>6. /\ clock \in Nat /\ mode \in Modes /\ srtt \in 0..Longest /\ rttVal \in 0..Longest
        /\ rto \in Nat /\ rto >= RtoNdl /\ flushing \in BOOLEAN /\ put \in Nat
        /\ \A x \in air : x[2] \in Nat /\ x[2] <= clock /\ clock <= x[2] + MaxRtt
    <2>1. /\ clock = 0 /\ mode \in Modes /\ srtt = 0 /\ rttVal = 0 /\ rto = RtoDef /\ put = 0
      BY DEF Init
    <2>2. flushing \in BOOLEAN /\ air = {}
      BY Zenon DEF Init
    <2>3. /\ clock \in Nat /\ srtt \in 0..Longest /\ rttVal \in 0..Longest
          /\ rto \in Nat /\ rto >= RtoNdl /\ put \in Nat
      BY <1>2, <1>3, <2>1
    <2>4. QED
      BY <2>1, <2>2, <2>3, Zenon
  <1>7. /\ una \in Nat /\ next \in Nat /\ una <= next
    BY <1>4
  <1>8. \A sn \in DOMAIN buf : buf[sn].rto >= RtoNdl /\ (buf[sn].fastack > 0 => buf[sn].passed)
    BY <1>1, Zenon
  <1>9. QED
    BY <1>5, <1>6, <1>7, <1>8, Zenon DEF TypeOK

\* The steps that flush.
LEMMA FlushKeepsType ==
  ASSUME TypeOK, NEW k \in Nat, Flush(k), UNCHANGED <<clock, mode, srtt, rttVal, rto>>,
         flushing' \in BOOLEAN, put' \in Nat
  PROVE  TypeOK'
  <1>1. /\ next' \in Nat /\ una' \in Nat /\ una' <= next'
        /\ buf' \in [una'..(next' - 1) -> Segment]
        /\ \A sn \in DOMAIN buf' : buf'[sn].rto >= RtoNdl /\ (buf'[sn].fastack > 0 => buf'[sn].passed)
    BY FlushType DEF Sound
  <1>2. \A x \in air' : x[2] \in Nat /\ x[2] <= clock' /\ clock' <= x[2] + MaxRtt
    <2>1. \A x \in air' : x \in air \/ x[2] = clock
      BY FlushType
    <2>2. clock \in Nat /\ MaxRtt \in Nat /\ clock' = clock
      BY BoundAssumption DEF TypeOK
    <2>3. QED
      BY <2>1, <2>2 DEF TypeOK
  <1>3. Longest' = Longest
    BY DEF Longest
  <1>4. QED
    BY <1>1, <1>2, <1>3 DEF TypeOK

\* An input, whichever transmission is acked and whatever una comes with it.
LEMMA InputKeepsType ==
  ASSUME TypeOK, NEW x \in air, NEW u \in 0..next, Input(x[1], x[2], u)
  PROVE  TypeOK'
  <1> DEFINE low == Greater(una, u)
  <1>1. /\ una \in Nat /\ next \in Nat /\ una <= next
        /\ low \in Nat /\ una <= low /\ low <= next
    BY DEF TypeOK, Greater
  <1>2. una' = low /\ next' = next
    BY DEF Input
  <1> HIDE DEF low
  <1>3. ASSUME NEW sn \in low..(next - 1) PROVE Sound(buf'[sn])
    <2>1. Sound(buf[sn])
      BY <1>1, SoundSegments
    <2>2. buf'[sn] \in {buf[sn], [buf[sn] EXCEPT !.acked = TRUE], FastAck(buf[sn], x[2])}
      BY <1>1 DEF Input, low
    <2>3. Sound([buf[sn] EXCEPT !.acked = TRUE]) /\ Sound(FastAck(buf[sn], x[2]))
      BY <2>1, PassedSegment
    <2>4. QED
      BY <2>1, <2>2, <2>3
  <1>4. DOMAIN buf' = low..(next - 1) /\ buf' \in [low..(next - 1) -> Segment]
    <2>1. buf' = [sn \in low..(next - 1) |-> buf'[sn]]
      BY DEF Input, low
    <2>2. QED
      BY <1>3, <2>1 DEF Sound
  <1>5. /\ srtt' \in 0..Longest /\ rttVal' \in 0..Longest /\ rto' \in Nat /\ rto' >= RtoNdl
    <2>1. clock - x[2] \in 0..MaxRtt
      BY BoundAssumption DEF TypeOK
    <2>2. QED
      BY <2>1, EstimateBound DEF Input
  <1>6. flushing' \in BOOLEAN
    BY <1>1 DEF Input
  <1>7. UNCHANGED <<clock, mode, air, put>> /\ Longest' = Longest
    BY DEF Input, Longest
  <1>8. QED
    BY <1>1, <1>2, <1>3, <1>4, <1>5, <1>6, <1>7 DEF TypeOK, Sound

\* Every step keeps the type invariant.
LEMMA NextType == TypeOK /\ [Next]_vars => TypeOK'
  <1> SUFFICES ASSUME TypeOK, [Next]_vars PROVE TypeOK'
    OBVIOUS
  <1>1. MaxSn \in Nat
    BY BoundAssumption
  <1>2. ASSUME NEW k \in 0..MaxSn, Write(k) PROVE TypeOK'
    <2>1. Flush(k) /\ UNCHANGED <<clock, mode, srtt, rttVal, rto>> /\ k \in Nat
      BY <1>1, <1>2 DEF Write
    <2>2. flushing' \in BOOLEAN /\ put' \in Nat
      BY <1>2 DEF Write, TypeOK
    <2>3. QED
      BY <2>1, <2>2, FlushKeepsType
  <1>3. ASSUME NEW k \in 0..MaxSn, Update(k) PROVE TypeOK'
    <2>1. Flush(k) /\ UNCHANGED <<clock, mode, srtt, rttVal, rto>> /\ k \in Nat
      BY <1>1, <1>3 DEF Update
    <2>2. flushing' \in BOOLEAN /\ put' \in Nat
      BY <1>3 DEF Update, TypeOK
    <2>3. QED
      BY <2>1, <2>2, FlushKeepsType
  <1>4. ASSUME NEW k \in 0..MaxSn, InputFlush(k) PROVE TypeOK'
    <2>1. Flush(k) /\ UNCHANGED <<clock, mode, srtt, rttVal, rto>> /\ k \in Nat
      BY <1>1, <1>4 DEF InputFlush
    <2>2. flushing' \in BOOLEAN /\ put' \in Nat
      BY <1>4 DEF InputFlush, TypeOK
    <2>3. QED
      BY <2>1, <2>2, FlushKeepsType
  <1>5. ASSUME NEW x \in air, NEW u \in 0..next, Input(x[1], x[2], u) PROVE TypeOK'
    BY <1>5, InputKeepsType
  <1>6. ASSUME NEW m \in Modes, NoDelay(m) PROVE TypeOK'
    BY <1>6 DEF NoDelay, TypeOK, Longest
  <1>7. CASE Tick
    <2>1. clock' = clock + 1 /\ clock \in Nat
      BY <1>7 DEF Tick, TypeOK
    <2>2. \A x \in air' : x \in air /\ clock' - x[2] <= MaxRtt
      BY <1>7 DEF Tick
    <2>3. \A x \in air' : x[2] \in Nat /\ x[2] <= clock' /\ clock' <= x[2] + MaxRtt
      BY <2>1, <2>2, BoundAssumption DEF TypeOK
    <2>4. QED
      BY <1>7, <2>1, <2>3 DEF Tick, TypeOK, Longest
  <1>8. CASE UNCHANGED vars
    BY <1>8 DEF TypeOK, Longest
  <1>9. QED
    BY <1>2, <1>3, <1>4, <1>5, <1>6, <1>7, <1>8 DEF Next

\* The state is typed: estimates are averages of round trips, and acks counted
\* against a segment are acks of later transmissions.
THEOREM Typing == Spec => []TypeOK
  <1>1. QED
    BY InitType, NextType, PTL DEF Spec
-----------------------------------------------------------------------------
(* The two properties                                                      *)

\* The first timeout is the default one.
LEMMA InitRto == Init => RtoFollowsRtt
  BY DEF Init, RtoFollowsRtt

\* Only an ack changes the timeout, and it computes it from the estimates.
LEMMA NextRto == TypeOK /\ RtoFollowsRtt /\ [Next]_vars => RtoFollowsRtt'
  <1> SUFFICES ASSUME TypeOK, RtoFollowsRtt, [Next]_vars PROVE RtoFollowsRtt'
    OBVIOUS
  <1>1. CASE UNCHANGED rto
    BY <1>1 DEF RtoFollowsRtt, Longest
  <1>2. ASSUME NEW x \in air, NEW u \in 0..next, Input(x[1], x[2], u)
        PROVE  RtoFollowsRtt'
    <2>1. clock - x[2] \in 0..MaxRtt
      BY BoundAssumption DEF TypeOK
    <2>2. Estimate(clock - x[2])
      BY <1>2 DEF Input
    <2>3. rto' <= Greater(RtoMin, Longest + Greater(mode.interval, 4 * Longest))
      BY <2>1, <2>2, EstimateBound
    <2>4. mode \in Modes
      BY DEF TypeOK
    <2>5. QED
      BY <2>3, <2>4 DEF RtoFollowsRtt, Longest
  <1>3. ASSUME NEW k \in 0..MaxSn, Write(k) \/ Update(k) \/ InputFlush(k)
        PROVE  UNCHANGED rto
    BY <1>3 DEF Write, Update, InputFlush
  <1>4. ASSUME NEW m \in Modes, NoDelay(m) PROVE UNCHANGED rto
    BY <1>4 DEF NoDelay
  <1>5. Tick \/ UNCHANGED vars => UNCHANGED rto
    BY DEF Tick
  <1>6. QED
    BY <1>1, <1>2, <1>3, <1>4, <1>5 DEF Next

\* However samples of new, old and duplicated acks follow each other, the timeout
\* that updateRTO computes is bounded by the longest round trip.
THEOREM RtoBound == Spec => []RtoFollowsRtt
  <1>1. TypeOK /\ RtoFollowsRtt /\ [Next]_vars => (TypeOK /\ RtoFollowsRtt)'
    BY NextType, NextRto
  <1>2. QED
    BY InitType, InitRto, <1>1, PTL DEF Spec

\* A step sends a segment again for a reason.
Caused == \A sn \in Unacked \cap Unacked' :
  buf'[sn].ts # buf[sn].ts => clock >= buf[sn].ts + RtoNdl \/ buf[sn].passed

\* Each of the reasons flush has to send a segment again is one of the two causes.
LEMMA FlushCause ==
  ASSUME TypeOK, NEW k \in Nat, Flush(k)
  PROVE  Caused
  <1> SUFFICES ASSUME NEW sn \in Unacked, buf'[sn].ts # buf[sn].ts
               PROVE  clock >= buf[sn].ts + RtoNdl \/ buf[sn].passed
    BY DEF Caused
  <1>1. sn \in una..(next - 1) /\ una \in Nat /\ next \in Nat
    BY DEF Unacked, TypeOK
  <1>2. sn < next /\ sn \in una..(next + k - 1)
    BY <1>1
  <1>3. buf'[sn] = Flushed(buf[sn], k)
    BY <1>2 DEF Flush
  <1>4. Sound(buf[sn])
    BY <1>1, SoundSegments
  <1>5. QED
    BY <1>3, <1>4, FlushedSegment

\* No step but a flush sends anything.
LEMMA NextCause == TypeOK /\ [Next]_vars => Caused
  <1> SUFFICES ASSUME TypeOK, [Next]_vars PROVE Caused
    OBVIOUS
  <1>1. ASSUME NEW k \in 0..MaxSn, Write(k) \/ Update(k) \/ InputFlush(k) PROVE Caused
    <2>1. Flush(k) /\ k \in Nat
      BY <1>1, BoundAssumption DEF Write, Update, InputFlush
    <2>2. QED
      BY <2>1, FlushCause
  <1>2. ASSUME NEW x \in air, NEW u \in 0..next, Input(x[1], x[2], u) PROVE Caused
    <2> DEFINE low == Greater(una, u)
    <2>1. \A sn \in Unacked' : buf'[sn].ts = buf[sn].ts
      <3> SUFFICES ASSUME NEW sn \in Unacked' PROVE buf'[sn].ts = buf[sn].ts
        OBVIOUS
      <3>1. sn \in low..(next - 1) /\ una \in Nat /\ low \in Nat /\ una <= low
        BY <1>2 DEF Unacked, Input, TypeOK, Greater
      <3>2. Sound(buf[sn])
        BY <3>1, SoundSegments
      <3>3. buf'[sn] \in {buf[sn], [buf[sn] EXCEPT !.acked = TRUE], FastAck(buf[sn], x[2])}
        BY <1>2, <3>1 DEF Input
      <3>4. /\ [buf[sn] EXCEPT !.acked = TRUE].ts = buf[sn].ts
            /\ FastAck(buf[sn], x[2]).ts = buf[sn].ts
        BY <3>2, PassedSegment
      <3>5. QED
        BY <3>3, <3>4
    <2>2. QED
      BY <2>1 DEF Caused
  <1>3. ASSUME UNCHANGED buf PROVE Caused
    BY <1>3 DEF Caused
  <1>4. ASSUME NEW m \in Modes, NoDelay(m) PROVE UNCHANGED buf
    BY <1>4 DEF NoDelay
  <1>5. Tick \/ UNCHANGED vars => UNCHANGED buf
    BY DEF Tick
  <1>6. QED
    BY <1>1, <1>2, <1>3, <1>4, <1>5 DEF Next

\* No segment is sent again before the least timeout has passed, unless a later
\* transmission was acked before it.
THEOREM Cause == Spec => CausedResend
  <1>1. TypeOK /\ [Next]_vars =>
          [\A sn \in Unacked \cap Unacked' :
             buf'[sn].ts # buf[sn].ts => clock >= buf[sn].ts + RtoNdl \/ buf[sn].passed]_vars
    BY NextCause DEF Caused
  <1>2. QED
    BY <1>1, Typing, PTL DEF Spec, CausedResend
-----------------------------------------------------------------------------
(* Resending in time                                                       *)

\* The numbers in a set have a least one.
LEMMA LeastNat ==
  ASSUME NEW T \in SUBSET Nat, T # {}
  PROVE  \E x \in T : \A y \in T : x <= y
  <1>1. IsWellFoundedOn(OpToRel(<, Nat), Nat)
    BY NatLessThanWellFounded
  <1>2. PICK x \in T : \A y \in T : <<y, x>> \notin OpToRel(<, Nat)
    BY <1>1, WFMin, Zenon
  <1>3. \A y \in T : ~(y < x)
    BY <1>2 DEF OpToRel
  <1>4. QED
    BY <1>3

\* When the next update comes, and what the segments in flight ask of it: the
\* timers of those it knew are not before it, and it is at most an interval of
\* some setting after the last one.
Scheduled ==
  /\ put <= clock /\ due \in Nat /\ clock <= due
  /\ \E m \in Modes : due <= put + m.interval
  /\ \A sn \in Unacked : buf[sn].ts < put => due <= Resendts(buf[sn])

\* A flush leaves no timer in the past: a segment is left alone only when its time
\* has not come.
LEMMA FlushTimers ==
  ASSUME TypeOK, NEW k \in Nat, Flush(k), NEW sn \in Unacked'
  PROVE  /\ clock <= Resendts(buf'[sn])
         /\ \/ buf'[sn].ts = clock
            \/ sn \in Unacked /\ buf'[sn] = buf[sn]
  <1>1. /\ una \in Nat /\ next \in Nat /\ una <= next /\ clock \in Nat
        /\ rto \in Nat /\ rto >= 0 /\ sn \in DOMAIN buf' /\ ~buf'[sn].acked
        /\ buf' = [x \in una..(next + k - 1) |->
                     IF x < next THEN Flushed(buf[x], k) ELSE Sent(rto)]
    BY DEF TypeOK, Flush, Unacked
  <1>2. ASSUME NEW wait \in Nat PROVE Sent(wait).ts = clock /\ clock <= Resendts(Sent(wait))
    BY <1>1, <1>2 DEF Sent, Resendts
  <1>3. CASE sn < next
    <2>1. /\ sn \in una..(next - 1) /\ buf'[sn] = Flushed(buf[sn], k)
          /\ sn \in DOMAIN buf
      BY <1>1, <1>3 DEF TypeOK
    <2>2. Sound(buf[sn])
      BY <2>1, SoundSegments
    <2>3. PICK wait \in Nat : \/ buf'[sn] = Sent(wait)
                              \/ buf'[sn] = buf[sn] /\ (buf[sn].acked \/ clock < Resendts(buf[sn]))
      <3> DEFINE more == IF mode.noDelay THEN rto \div 2 ELSE rto
      <3>1. /\ rto \in Nat /\ buf[sn].rto + more \in Nat
            /\ Resendts(buf[sn]) \in Nat
        BY <1>1, <2>2 DEF Sound, Segment, Resendts
      <3>2. \/ buf'[sn] \in {Sent(rto), Sent(buf[sn].rto + more)}
            \/ buf'[sn] = buf[sn] /\ (buf[sn].acked \/ ~(clock >= Resendts(buf[sn])))
        BY <2>1 DEF Flushed
      <3>3. QED
        BY <1>1, <3>1, <3>2
    <2>4. QED
      BY <1>1, <1>2, <2>1, <2>2, <2>3 DEF Unacked, Sound, Segment, Resendts
  <1>4. CASE ~(sn < next)
    <2>1. buf'[sn] = Sent(rto)
      BY <1>1, <1>4
    <2>2. QED
      BY <1>1, <1>2, <2>1
  <1>5. QED
    BY <1>3, <1>4

\* What flush returns is before every timer, and an interval at most.
LEMMA GapTimers ==
  ASSUME TypeOK, NEW k \in Nat, Flush(k)
  PROVE  /\ Gap \in 0..mode.interval
         /\ \A sn \in Unacked' : clock + Gap <= Resendts(buf'[sn])
  <1>1. mode.interval \in Nat /\ clock \in Nat
    BY ModeAssumption DEF TypeOK, Mode
  <1>2. ASSUME NEW sn \in Unacked' PROVE Resendts(buf'[sn]) \in Nat /\ clock <= Resendts(buf'[sn])
    <2>1. sn \in DOMAIN buf' /\ \A x \in DOMAIN buf' : Sound(buf'[x])
      BY FlushType DEF Unacked
    <2>2. QED
      BY <2>1, FlushTimers DEF Sound, Segment, Resendts
  <1> DEFINE T == {mode.interval} \cup {Resendts(buf'[sn]) - clock : sn \in Unacked'}
  <1>3. T \in SUBSET Nat /\ T # {}
    BY <1>1, <1>2
  <1>4. PICK g \in T : \A y \in T : g <= y
    BY <1>3, LeastNat
  <1>5. /\ g \in 0..mode.interval
        /\ \A sn \in Unacked' : clock + g <= Resendts(buf'[sn])
        /\ g = mode.interval \/ \E sn \in Unacked' : clock + g = Resendts(buf'[sn])
    <2>1. g \in Nat /\ g <= mode.interval
      BY <1>3, <1>4
    <2>2. ASSUME NEW sn \in Unacked' PROVE clock + g <= Resendts(buf'[sn])
      <3>1. g <= Resendts(buf'[sn]) - clock
        BY <1>4, <2>2
      <3>2. QED
        BY <1>1, <1>2, <2>1, <3>1
    <2>3. g = mode.interval \/ \E sn \in Unacked' : g = Resendts(buf'[sn]) - clock
      OBVIOUS
    <2>4. \A sn \in Unacked' : g = Resendts(buf'[sn]) - clock => clock + g = Resendts(buf'[sn])
      BY <1>1, <1>2
    <2> HIDE DEF T
    <2>5. QED
      BY <1>1, <2>1, <2>2, <2>3, <2>4
  <1> HIDE DEF T
  <1>6. /\ Gap \in 0..mode.interval
        /\ \A sn \in Unacked' : clock + Gap <= Resendts(buf'[sn])
    BY <1>5, Zenon DEF Gap
  <1>7. QED
    BY <1>6

\* The first update comes at once.
LEMMA InitScheduled == Init => Scheduled
  <1> SUFFICES ASSUME Init PROVE Scheduled
    OBVIOUS
  <1>1. clock = 0 /\ put = 0 /\ due = 0 /\ mode \in Modes /\ DOMAIN buf = {}
    BY DEF Init
  <1>2. mode.interval \in Nat
    BY <1>1, ModeAssumption DEF Mode
  <1>3. QED
    BY <1>1, <1>2 DEF Scheduled, Unacked

\* Write, and the flush of Input, send without a timer of their own.
LEMMA UntimedFlush ==
  ASSUME TypeOK, Scheduled, NEW k \in Nat, Flush(k), UNCHANGED <<clock, put, due>>
  PROVE  Scheduled'
  <1>1. clock \in Nat /\ put \in Nat /\ put <= clock
    BY DEF TypeOK, Scheduled
  <1>2. ASSUME NEW sn \in Unacked', buf'[sn].ts < put PROVE due <= Resendts(buf'[sn])
    BY <1>1, <1>2, FlushTimers DEF Scheduled
  <1>3. QED
    BY <1>2 DEF Scheduled

\* update puts itself for the time flush returned.
LEMMA TimedFlush ==
  ASSUME TypeOK, Scheduled, NEW k \in Nat, Flush(k), clock' = clock, put' = clock,
         due' = clock + Gap
  PROVE  Scheduled'
  <1>1. /\ clock \in Nat /\ mode \in Modes /\ mode.interval \in Nat
    BY ModeAssumption DEF TypeOK, Mode
  <1>2. Gap \in 0..mode.interval /\ \A sn \in Unacked' : clock + Gap <= Resendts(buf'[sn])
    BY GapTimers
  <1>3. QED
    BY <1>1, <1>2 DEF Scheduled

\* Every step leaves the next update in time.
LEMMA NextScheduled == TypeOK /\ Scheduled /\ [Next]_vars => Scheduled'
  <1> SUFFICES ASSUME TypeOK, Scheduled, [Next]_vars PROVE Scheduled'
    OBVIOUS
  <1>1. MaxSn \in Nat /\ clock \in Nat /\ put \in Nat
    BY BoundAssumption DEF TypeOK
  <1>2. ASSUME NEW k \in 0..MaxSn, Write(k) \/ InputFlush(k) PROVE Scheduled'
    BY <1>1, <1>2, UntimedFlush DEF Write, InputFlush
  <1>3. ASSUME NEW k \in 0..MaxSn, Update(k) PROVE Scheduled'
    BY <1>1, <1>3, TimedFlush DEF Update
  <1>4. ASSUME NEW x \in air, NEW u \in 0..next, Input(x[1], x[2], u) PROVE Scheduled'
    <2>1. UNCHANGED <<clock, put, due>>
      BY <1>4 DEF Input
    <2>2. ASSUME NEW sn \in Unacked'
          PROVE  /\ sn \in Unacked /\ buf'[sn].ts = buf[sn].ts
                 /\ Resendts(buf'[sn]) = Resendts(buf[sn])
      <3>1. /\ sn \in Greater(una, u)..(next - 1) /\ ~buf'[sn].acked
            /\ una \in Nat /\ next \in Nat
        BY <1>4 DEF Input, Unacked, TypeOK
      <3>2. sn \in una..(next - 1) /\ sn \in DOMAIN buf
        BY <3>1 DEF Greater, TypeOK
      <3>3. Sound(buf[sn])
        BY <3>2, SoundSegments
      <3>4. buf'[sn] \in {buf[sn], [buf[sn] EXCEPT !.acked = TRUE], FastAck(buf[sn], x[2])}
        BY <1>4, <3>1 DEF Input
      <3>5. buf'[sn] \in {buf[sn], FastAck(buf[sn], x[2])}
        BY <3>1, <3>3, <3>4 DEF Sound, Segment
      <3>6. /\ FastAck(buf[sn], x[2]).ts = buf[sn].ts /\ FastAck(buf[sn], x[2]).rto = buf[sn].rto
            /\ FastAck(buf[sn], x[2]).acked = buf[sn].acked
        BY <3>3 DEF FastAck, Sound, Segment
      <3>7. QED
        BY <3>1, <3>2, <3>5, <3>6 DEF Unacked, Resendts
    <2>3. QED
      BY <2>1, <2>2 DEF Scheduled
  <1>5. ASSUME NEW m \in Modes, NoDelay(m) PROVE Scheduled'
    BY <1>5 DEF NoDelay, Scheduled, Unacked
  <1>6. CASE Tick
    <2>1. clock' = clock + 1 /\ clock < due /\ UNCHANGED <<buf, put, due>>
      BY <1>6 DEF Tick
    <2>2. QED
      BY <1>1, <2>1 DEF Scheduled, Unacked
  <1>7. CASE UNCHANGED vars
    BY <1>7 DEF Scheduled, Unacked
  <1>8. QED
    BY <1>2, <1>3, <1>4, <1>5, <1>6, <1>7 DEF Next

\* flush and update: a segment known at the last update is sent again when its time
\* comes, and one sent since, at most an interval later.
THEOREM OnTime == Spec => []ResendOnTime
  <1>1. ASSUME TypeOK, Scheduled PROVE ResendOnTime
    <2>1. PICK m \in Modes : due <= put + m.interval
      BY <1>1 DEF Scheduled
    <2>2. /\ m.interval \in Nat /\ put \in Nat /\ clock \in Nat /\ due \in Nat /\ clock <= due
      BY <1>1, ModeAssumption DEF Mode, TypeOK, Scheduled
    <2>3. ASSUME NEW sn \in Unacked
          PROVE  clock <= Resendts(buf[sn]) + m.interval
      <3>1. buf[sn].ts \in Nat /\ buf[sn].rto \in Nat
        BY <1>1 DEF Unacked, TypeOK, Segment
      <3>2. buf[sn].ts < put => due <= Resendts(buf[sn])
        BY <1>1 DEF Scheduled
      <3>3. QED
        BY <2>1, <2>2, <3>1, <3>2 DEF Resendts
    <2>4. QED
      BY <1>1, <2>3 DEF ResendOnTime, Scheduled
  <1>2. TypeOK /\ Scheduled /\ [Next]_vars => (TypeOK /\ Scheduled)'
    BY NextType, NextScheduled
  <1>3. Init => TypeOK /\ Scheduled
    BY InitType, InitScheduled
  <1>4. QED
    BY <1>1, <1>2, <1>3, PTL DEF Spec
=============================================================================
