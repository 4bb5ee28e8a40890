-------------------------- MODULE CongestionProofs --------------------------
(***************************************************************************)
(* The congestion window stays bounded in the unsigned arithmetic of flush *)
(* and Input, and its two forms stay together, for every mss, threshold    *)
(* and word size.                                                          *)
(***************************************************************************)
EXTENDS Congestion, TLAPS

\* Whole numbers, and windows no larger than the largest one.
Typed ==
  /\ cwnd \in Nat /\ incr \in Nat /\ fastResend \in FastResends /\ control \in BOOLEAN
  /\ sndWnd \in 0..Wnd /\ rmtWnd \in 0..Wnd
  /\ flight \in 0..Wnd /\ queued \in Nat

\* The bound of CwndBounded for one value of fastResend.
Within(f) == cwnd <= Greater(Wnd, Greater(Wnd \div 2, ThreshMin) + f)

CInv == Typed /\ IncrFollowsCwnd /\ \E f \in FastResends : Within(f)

-----------------------------------------------------------------------------
\* What the comparisons return.
LEMMA LesserGreater ==
  ASSUME NEW a \in Int, NEW b \in Int
  PROVE  /\ Lesser(a, b) <= a /\ Lesser(a, b) <= b /\ Lesser(a, b) \in {a, b}
         /\ Greater(a, b) >= a /\ Greater(a, b) >= b /\ Greater(a, b) \in {a, b}
BY DEF Lesser, Greater

\* Rounding up: the quotient times the divisor reaches the number, and no less does.
LEMMA RoundUp ==
  ASSUME NEW x \in Nat, NEW m \in Nat \ {0}
  PROVE  LET q == (x + m - 1) \div m
         IN  q \in Nat /\ (q - 1) * m < x /\ x < (q + 1) * m
<1> DEFINE y == x + m - 1
           q == y \div m
<1>1. y \in Nat
  OBVIOUS
<1>2. \A z \in Nat, d \in Nat \ {0} : z \div d \in Nat /\ d * (z \div d) <= z /\ z < d * (z \div d) + d
  OBVIOUS
<1>3. q \in Nat /\ m * q <= y /\ y < m * q + m
  BY <1>1, <1>2
<1> HIDE DEF q
<1>4. (q - 1) * m = m * q - m /\ (q + 1) * m = m * q + m
  BY <1>3
<1>5. m * q \in Nat
  BY <1>3
<1>6. QED
  BY <1>3, <1>4, <1>5 DEF q

\* What one more segment is in bytes.
LEMMA Bytes ==
  ASSUME NEW c \in Nat, NEW m \in Nat \ {0}
  PROVE  /\ c * m \in Nat /\ (c + 1) * m = c * m + m /\ (c - 1) * m = c * m - m
         /\ (c + 1 + 1) * m = c * m + m + m
OBVIOUS

\* A window that is a whole number of segments, with its bytes.
LEMMA ExactFollows ==
  ASSUME NEW c \in Nat, cwnd' = c, incr' = c * Mss
  PROVE  IncrFollowsCwnd'
<1>1. Mss \in Nat \ {0}
  BY MssAssumption
<1>2. c * Mss \in Nat /\ (c + 1) * Mss = c * Mss + Mss /\ (c - 1) * Mss = c * Mss - Mss
  BY <1>1, Bytes
<1>3. QED
  BY <1>1, <1>2 DEF IncrFollowsCwnd

\* A window no larger than the receiver allows is within the bound.
LEMMA SmallWithin ==
  ASSUME NEW f \in FastResends, NEW c \in Nat, c <= Wnd, cwnd' = c
  PROVE  Within(f)'
<1>1. f \in Nat /\ Wnd \in Nat /\ ThreshMin \in Nat
  BY FastResendAssumption, WndAssumption, ThreshAssumption
<1>2. Wnd \div 2 \in Nat
  BY <1>1
<1>3. Greater(Wnd \div 2, ThreshMin) + f \in Int
  BY <1>1, <1>2 DEF Greater
<1>4. QED
  BY <1>1, <1>3, LesserGreater DEF Within

\* half + resent, cut to a word: with fast retransmission off the sum wraps around
\* to half - 1, and with it on it is at most half + fastResend.
LEMMA ResendWindow ==
  ASSUME Typed, NEW f \in FastResends, NEW half \in Nat \ {0}, half <= Wnd + ThreshMin
  PROVE  /\ (half + Resent) % Word \in Nat
         /\ (half + Resent) % Word <= half + fastResend
<1>1. /\ fastResend \in Nat /\ Word \in Nat /\ f \in Nat /\ Mss \in Nat \ {0}
      /\ Wnd \in Nat \ {0} /\ ThreshMin \in Nat /\ ThreshInit \in Nat
      /\ Word > 2 * Mss * (Wnd + f + ThreshInit + ThreshMin)
  BY FastResendAssumption, WndAssumption, ThreshAssumption, MssAssumption, WordAssumption
     DEF Typed
<1>2. half < Word
  <2>1. \A m \in Nat \ {0}, x \in Nat : m * x >= x
    OBVIOUS
  <2>2. 2 * Mss \in Nat \ {0} /\ Wnd + f + ThreshInit + ThreshMin \in Nat
    BY <1>1
  <2>3. 2 * Mss * (Wnd + f + ThreshInit + ThreshMin) >= Wnd + f + ThreshInit + ThreshMin
    BY <2>1, <2>2
  <2>4. 2 * Mss * (Wnd + f + ThreshInit + ThreshMin) \in Nat
    BY <1>1
  <2>5. QED
    BY <1>1, <2>3, <2>4
<1>3. \A x \in Nat, m \in Nat \ {0} : x % m \in Nat /\ x % m <= x
  OBVIOUS
<1>4. CASE fastResend = 0
  <2>1. half + Resent = (half - 1) + Word /\ half - 1 \in 0..(Word - 1)
    BY <1>1, <1>2, <1>4 DEF Resent
  <2>2. \A m \in Nat \ {0} : \A x \in 0..(m - 1) : (x + m) % m = x
    OBVIOUS
  <2>3. Word \in Nat \ {0}
    BY <1>1, <1>2
  <2>4. (half + Resent) % Word = half - 1
    BY <2>1, <2>2, <2>3
  <2>5. QED
    BY <1>4, <2>4
<1>5. CASE fastResend # 0
  <2>1. half + Resent = half + fastResend /\ half + Resent \in Nat /\ Word \in Nat \ {0}
    BY <1>1, <1>2, <1>5 DEF Resent
  <2>2. QED
    BY <1>3, <2>1
<1>6. QED
  BY <1>4, <1>5

\* Growth in Input ends at the window just received.
LEMMA GrowStep ==
  ASSUME Typed, IncrFollowsCwnd, NEW w \in 0..Wnd, Grow(w)
  PROVE  /\ cwnd' \in Nat /\ incr' \in Nat /\ (cwnd' = cwnd \/ cwnd' <= Wnd)
         /\ IncrFollowsCwnd'
<1> DEFINE avoid == Greater(incr, Mss)
           sum == avoid + (Mss * Mss) \div avoid + Mss \div 16
           next == IF cwnd < ssthresh THEN [cwnd |-> cwnd + 1, incr |-> incr + Mss]
                   ELSE [cwnd |-> IF (cwnd + 1) * Mss <= sum THEN (sum + Mss - 1) \div Mss ELSE cwnd,
                         incr |-> sum]
<1>1. /\ cwnd \in Nat /\ incr \in Nat /\ Mss \in Nat \ {0} /\ Wnd \in Nat /\ w \in Nat /\ w <= Wnd
  BY MssAssumption, WndAssumption DEF Typed
<1>2. \A x \in Nat, m \in Nat \ {0} : x \div m \in Nat
  OBVIOUS
<1>3. avoid \in Nat \ {0}
  BY <1>1 DEF Greater
<1>4. sum \in Nat
  <2>1. Mss * Mss \in Nat
    BY <1>1
  <2>2. (Mss * Mss) \div avoid \in Nat
    BY <1>2, <1>3, <2>1
  <2>3. Mss \div 16 \in Nat
    BY <1>1
  <2> HIDE DEF avoid
  <2>4. QED
    BY <1>3, <2>2, <2>3
<1>5. next.cwnd \in Nat /\ next.incr \in Nat
  <2> HIDE DEF sum
  <2>1. sum + Mss - 1 \in Nat
    BY <1>1, <1>4
  <2>2. (sum + Mss - 1) \div Mss \in Nat
    BY <1>1, <1>2, <2>1
  <2>3. QED
    BY <1>1, <1>4, <2>2
<1>6. w * Mss \in Nat
  BY <1>1
<1>6a. (next.cwnd - 1) * Mss < next.incr /\ next.incr < (next.cwnd + 1) * Mss
  <2>1. (cwnd - 1) * Mss < incr /\ incr < (cwnd + 1) * Mss
    BY DEF IncrFollowsCwnd
  <2>2. /\ cwnd * Mss \in Nat /\ (cwnd + 1) * Mss = cwnd * Mss + Mss
        /\ (cwnd - 1) * Mss = cwnd * Mss - Mss /\ (cwnd + 1 + 1) * Mss = cwnd * Mss + Mss + Mss
    BY <1>1, Bytes
  <2>3. CASE cwnd < ssthresh
    <3>1. next.cwnd = cwnd + 1 /\ next.incr = incr + Mss /\ cwnd + 1 - 1 = cwnd
      BY <1>1, <2>3
    <3>2. QED
      BY <1>1, <2>1, <2>2, <3>1
  <2>4. CASE ~(cwnd < ssthresh)
    <3>1. incr <= sum
      <4>1. incr <= avoid /\ (Mss * Mss) \div avoid \in Nat /\ Mss \div 16 \in Nat
        <5>1. Mss * Mss \in Nat
          BY <1>1
        <5>2. (Mss * Mss) \div avoid \in Nat
          BY <1>2, <1>3, <5>1
        <5>3. QED
          BY <1>1, <1>2, <5>2 DEF Greater
      <4> HIDE DEF avoid
      <4>2. QED
        BY <1>1, <1>3, <4>1
    <3> HIDE DEF sum
    <3>2. CASE (cwnd + 1) * Mss <= sum
      <4>1. next.cwnd = (sum + Mss - 1) \div Mss /\ next.incr = sum
        BY <2>4, <3>2
      <4>2. QED
        BY <1>1, <1>4, <4>1, RoundUp
    <3>3. CASE ~((cwnd + 1) * Mss <= sum)
      <4>1. next.cwnd = cwnd /\ next.incr = sum
        BY <2>4, <3>3
      <4>2. QED
        BY <1>1, <1>4, <2>1, <2>2, <3>1, <3>3, <4>1
    <3>4. QED
      BY <3>2, <3>3
  <2>5. QED
    BY <2>3, <2>4
<1> HIDE DEF next
<1>7. \/ UNCHANGED <<cwnd, incr>>
      \/ next.cwnd <= w /\ cwnd' = next.cwnd /\ incr' = next.incr
      \/ cwnd' = w /\ incr' = w * Mss
  BY DEF Grow, next, sum, avoid
<1>8. IncrFollowsCwnd'
  <2>1. CASE UNCHANGED <<cwnd, incr>>
    BY <2>1 DEF IncrFollowsCwnd
  <2>2. CASE cwnd' = next.cwnd /\ incr' = next.incr
    BY <1>6a, <2>2 DEF IncrFollowsCwnd
  <2>3. CASE cwnd' = w /\ incr' = w * Mss
    BY <1>1, <2>3, ExactFollows
  <2>4. QED
    BY <1>7, <2>1, <2>2, <2>3
<1>9. QED
  BY <1>1, <1>5, <1>6, <1>7, <1>8

\* The end of flush.
LEMMA UpdateWindow ==
  ASSUME Typed, IncrFollowsCwnd, NEW f \in FastResends, NEW change \in BOOLEAN, NEW lost \in BOOLEAN,
         NEW inflight \in 0..Wnd, NEW window, Update(change, lost, inflight, window)
  PROVE  /\ cwnd' \in Nat /\ incr' \in Nat /\ IncrFollowsCwnd'
         /\ \/ cwnd' <= Greater(cwnd, 1)
            \/ cwnd' <= Greater(Greater(Wnd \div 2, ThreshMin) + fastResend, 1)
<1> DEFINE half == Greater(inflight \div 2, ThreshMin)
           cwnd1 == IF change THEN (half + Resent) % Word ELSE cwnd
<1>1. /\ cwnd \in Nat /\ incr \in Nat /\ fastResend \in Nat
      /\ Mss \in Nat \ {0} /\ ThreshMin \in Nat \ {0} /\ Wnd \in Nat /\ inflight \in Nat
  BY MssAssumption, WndAssumption, ThreshAssumption, FastResendAssumption DEF Typed
<1>2. inflight \div 2 \in Nat /\ inflight \div 2 <= Wnd \div 2 /\ Wnd \div 2 \in Nat /\ Wnd \div 2 <= Wnd
  BY <1>1
<1>3. half \in Nat \ {0} /\ half <= Wnd + ThreshMin /\ half <= Greater(Wnd \div 2, ThreshMin)
  BY <1>1, <1>2 DEF Greater
<1> HIDE DEF half
<1>4. (half + Resent) % Word \in Nat /\ (half + Resent) % Word <= half + fastResend
  BY <1>3, ResendWindow
<1>5. cwnd1 \in Nat /\ (cwnd1 = cwnd \/ cwnd1 <= half + fastResend)
  BY <1>1, <1>4
<1> HIDE DEF cwnd1
<1>6. cwnd1 * Mss \in Nat
  BY <1>1, <1>5
<1>7. \/ cwnd' = 1 /\ incr' = Mss
      \/ cwnd' = Greater(cwnd1, 1) /\ incr' \in {Mss, cwnd1 * Mss, incr}
  BY DEF Update, half, cwnd1
<1>8. cwnd' \in Nat /\ incr' \in Nat
  BY <1>1, <1>5, <1>6, <1>7 DEF Greater
<1>9. cwnd' = 1 \/ cwnd' = cwnd \/ cwnd' <= half + fastResend
  BY <1>1, <1>5, <1>7 DEF Greater
<1>10. Greater(Wnd \div 2, ThreshMin) \in Nat
  BY <1>1, <1>2 DEF Greater
<1>11. half + fastResend <= Greater(Wnd \div 2, ThreshMin) + fastResend
  BY <1>1, <1>3, <1>10
<1>12. half + fastResend \in Nat
  BY <1>1, <1>3
<1>13. IncrFollowsCwnd'
  <2>1. 1 * Mss = Mss
    BY <1>1
  <2>2. CASE cwnd' = 1 /\ incr' = Mss
    BY <2>1, <2>2, ExactFollows
  <2>3. CASE ~lost /\ cwnd1 # 0
    <3>1. cwnd' = cwnd1 /\ incr' = IF change THEN cwnd1 * Mss ELSE incr
      BY <1>5, <2>3 DEF Update, half, cwnd1, Greater
    <3>2. CASE change
      BY <1>5, <3>1, <3>2, ExactFollows
    <3>3. CASE ~change
      BY <3>1, <3>3 DEF IncrFollowsCwnd, cwnd1
    <3>4. QED
      BY <3>2, <3>3
  <2>4. CASE ~lost /\ cwnd1 = 0
    BY <2>2, <2>4 DEF Update, half, cwnd1, Greater
  <2>5. CASE lost
    BY <2>2, <2>5 DEF Update
  <2>6. QED
    BY <2>3, <2>4, <2>5
<1>14. QED
  BY <1>1, <1>8, <1>9, <1>10, <1>11, <1>12, <1>13, LesserGreater
-----------------------------------------------------------------------------
\* A new control block has cwnd 0.
LEMMA CInit == Init => CInv
<1> SUFFICES ASSUME Init PROVE CInv
  OBVIOUS
<1>1. 0 \in FastResends /\ Wnd \in Nat \ {0} /\ ThreshMin \in Nat
  BY FastResendAssumption, WndAssumption, ThreshAssumption
<1>2. Typed
  BY <1>1 DEF Init, Typed
<1>3. Within(0)
  BY <1>1 DEF Init, Within, Greater
<1>4. IncrFollowsCwnd
  BY MssAssumption DEF Init, IncrFollowsCwnd
<1>5. QED
  BY <1>1, <1>2, <1>3, <1>4 DEF CInv

\* The settings and the queue leave the window alone.
LEMMA SettingStep ==
  ASSUME CInv, Queue \/ WndSize \/ NoDelay \/ UNCHANGED vars
  PROVE  CInv'
<1>1. Typed /\ IncrFollowsCwnd /\ UNCHANGED <<cwnd, incr, rmtWnd, flight>>
  BY DEF CInv, Queue, WndSize, NoDelay, vars, setVars
<1>2. PICK f \in FastResends : Within(f)
  BY DEF CInv
<1>3. fastResend' \in FastResends /\ control' \in BOOLEAN /\ sndWnd' \in 0..Wnd /\ queued' \in Nat
  <2>1. Wnd \in Nat /\ \A w \in 1..Wnd : w \in 0..Wnd
    BY WndAssumption
  <2>2. CASE Queue
    BY <1>1, <2>2 DEF Queue, Typed, setVars
  <2>3. CASE WndSize
    BY <1>1, <2>1, <2>3 DEF WndSize, Typed, setVars
  <2>4. CASE NoDelay
    BY <1>1, <2>4 DEF NoDelay, Typed
  <2>5. CASE UNCHANGED vars
    BY <1>1, <2>5 DEF vars, Typed, setVars
  <2>6. QED
    BY <2>2, <2>3, <2>4, <2>5
<1>4. Typed'
  BY <1>1, <1>3 DEF Typed
<1>5. Within(f)'
  BY <1>1, <1>2 DEF Within
<1>6. QED
  BY <1>1, <1>4, <1>5 DEF CInv, IncrFollowsCwnd

\* Input releases what is in flight, and lets cwnd grow.
LEMMA InputStep ==
  ASSUME CInv, Input
  PROVE  CInv'
<1>1. PICK w \in 0..Wnd, released \in 0..flight :
        /\ rmtWnd' = w
        /\ flight' = flight - released
        /\ IF control /\ released > 0 THEN Grow(w) ELSE UNCHANGED <<cwnd, incr>>
  BY DEF Input
<1>2. Typed /\ IncrFollowsCwnd /\ UNCHANGED <<fastResend, control, sndWnd, queued>>
  BY DEF CInv, Input, setVars
<1>3. PICK f \in FastResends : Within(f)
  BY DEF CInv
<1>4. /\ cwnd' \in Nat /\ incr' \in Nat /\ (cwnd' = cwnd \/ cwnd' <= Wnd)
      /\ IncrFollowsCwnd'
  <2>1. CASE Grow(w)
    BY <1>2, <2>1, GrowStep
  <2>2. CASE UNCHANGED <<cwnd, incr>>
    BY <1>2, <2>2 DEF Typed, IncrFollowsCwnd
  <2>3. QED
    BY <1>1, <2>1, <2>2
<1>5. flight' \in 0..Wnd /\ rmtWnd' \in 0..Wnd
  BY <1>1, <1>2, WndAssumption DEF Typed
<1>6. Typed'
  BY <1>2, <1>4, <1>5 DEF Typed
<1>7. Within(f)'
  <2>1. CASE cwnd' = cwnd
    BY <1>3, <2>1 DEF Within
  <2>2. CASE cwnd' <= Wnd
    BY <1>4, <2>2, SmallWithin
  <2>3. QED
    BY <1>4, <2>1, <2>2
<1>8. QED
  BY <1>4, <1>6, <1>7 DEF CInv

\* flush fills the window and, after a resend or a timeout, sets it anew.
LEMMA FlushStep ==
  ASSUME CInv, Flush
  PROVE  CInv'
<1> DEFINE new == Lesser(queued, Greater(Window - flight, 0))
<1>1. PICK change \in BOOLEAN, lost \in BOOLEAN :
        /\ flight' = flight + new /\ queued' = queued - new
        /\ IF control THEN Update(change, lost, flight', Window)
           ELSE UNCHANGED <<cwnd, ssthresh, incr>>
  BY Zenon DEF Flush
<1>2. /\ Typed /\ IncrFollowsCwnd /\ UNCHANGED <<fastResend, control, sndWnd, rmtWnd>>
      /\ cwnd \in Nat /\ incr \in Nat /\ sndWnd \in 0..Wnd /\ rmtWnd \in 0..Wnd
      /\ flight \in 0..Wnd /\ queued \in Nat /\ Wnd \in Nat \ {0} /\ ThreshMin \in Nat
      /\ fastResend \in FastResends /\ fastResend \in Nat
  BY WndAssumption, ThreshAssumption, FastResendAssumption DEF CInv, Flush, setVars, Typed
<1>3. PICK f \in FastResends : Within(f)
  BY DEF CInv
<1>4. Window \in 0..Wnd
  BY <1>2 DEF Window, Lesser
<1>5. new \in 0..queued /\ flight + new \in 0..Wnd
  BY <1>2, <1>4 DEF Lesser, Greater
<1>6. flight' \in 0..Wnd /\ queued' \in Nat
  BY <1>1, <1>2, <1>5
<1> HIDE DEF new
<1>7. /\ cwnd' \in Nat /\ incr' \in Nat /\ IncrFollowsCwnd'
      /\ \/ cwnd' <= Greater(cwnd, 1)
         \/ cwnd' <= Greater(Greater(Wnd \div 2, ThreshMin) + fastResend, 1)
  <2>1. CASE Update(change, lost, flight', Window)
    BY <1>2, <1>3, <1>6, <2>1, UpdateWindow
  <2>2. CASE UNCHANGED <<cwnd, ssthresh, incr>>
    BY <1>2, <2>2 DEF Greater, IncrFollowsCwnd
  <2>3. QED
    BY <1>1, <2>1, <2>2
<1>8. Typed'
  BY <1>2, <1>6, <1>7 DEF Typed
<1>9. Within(f)' \/ Within(fastResend)'
  <2>1. f \in Nat /\ Wnd \div 2 \in Nat
    BY <1>2, FastResendAssumption
  <2>2. Greater(Wnd \div 2, ThreshMin) \in Nat
    BY <1>2, <2>1 DEF Greater
  <2>3. CASE cwnd' <= Greater(cwnd, 1)
    BY <1>2, <1>3, <1>7, <2>1, <2>2, <2>3 DEF Within, Greater
  <2>4. CASE cwnd' <= Greater(Greater(Wnd \div 2, ThreshMin) + fastResend, 1)
    <3> DEFINE g == Greater(Wnd \div 2, ThreshMin)
    <3>1. g \in Nat /\ cwnd' <= Greater(g + fastResend, 1)
      BY <2>2, <2>4
    <3> HIDE DEF g
    <3>2. cwnd' <= Greater(Wnd, g + fastResend)
      BY <1>2, <1>7, <3>1 DEF Greater
    <3>3. QED
      BY <1>2, <3>2 DEF Within, g
  <2>5. QED
    BY <1>7, <2>3, <2>4
<1>10. QED
  BY <1>2, <1>7, <1>8, <1>9 DEF CInv
-----------------------------------------------------------------------------
(* The theorems                                                            *)

\* Every step keeps the window and its inputs within their bounds.
LEMMA CNext == CInv /\ [Next]_vars => CInv'
BY SettingStep, InputStep, FlushStep DEF Next

\* cwnd, incr and the numbers they are computed from (Input, flush).
THEOREM WindowInvariance == Spec => []CInv
<1>1. QED
  BY CInit, CNext, PTL DEF Spec

\* cwnd + resent wraps around in flush and the window is bounded all the same.
THEOREM WindowBounded == Spec => []CwndBounded
<1>1. CInv => CwndBounded
  BY DEF CInv, Within, CwndBounded
<1>2. QED
  BY <1>1, WindowInvariance, PTL

\* incr, the window in bytes, and cwnd never drift apart by a segment (Input, flush).
THEOREM IncrFollows == Spec => []IncrFollowsCwnd
<1>1. CInv => IncrFollowsCwnd
  BY DEF CInv
<1>2. QED
  BY <1>1, WindowInvariance, PTL
=============================================================================
