----------------------------- MODULE RUDPProofs -----------------------------
(***************************************************************************)
(* The inductive invariant of RUDP and what follows from it, for every     *)
(* window size, every number of segments and every network of datagrams:   *)
(* the invariants the runs check, that nothing goes backwards, the bounds  *)
(* on what a receiver holds, and that RUDP implements the abstract stream. *)
(***************************************************************************)
EXTENDS RUDP, SequenceTheorems, TLAPS

-----------------------------------------------------------------------------
(* Lemmas on the operators                                                 *)

\* The two ends: Peer is an involution without fixed point.
LEMMA PeerProps ==
  ASSUME NEW n \in Node
  PROVE  /\ Peer(n) \in Node /\ Peer(n) # n /\ Peer(Peer(n)) = n
         /\ \A m \in Node : m = n \/ m = Peer(n)
<1>1. PICK x, y \in Node : x # y /\ Node = {x, y}
  BY NodeAssumption
<1>2. \A m \in Node : Peer(m) \in Node /\ Peer(m) # m
  BY <1>1 DEF Peer
<1>3. QED
  BY <1>1, <1>2

\* Every header of a flush is a datagram for the peer with the end's own una
\* and free window.
LEMMA HeaderProps ==
  ASSUME TypeOK, NEW n \in Node, NEW acks \in SUBSET Nat, NEW ask \in BOOLEAN,
         NEW tll \in BOOLEAN, NEW push \in SUBSET Seg,
         NEW d, d = Header(n, acks, ask, tll, push)
  PROVE  /\ d \in Datagram /\ d.to = Peer(n)
         /\ d.una = rcvNxt[n] /\ d.wnd = UnusedWnd(n)
         /\ d.acks = acks /\ d.push = push
<1>1. UnusedWnd(n) \in Nat
  BY WndAssumption DEF UnusedWnd, TypeOK
<1>2. rcvNxt[n] \in Nat /\ Peer(n) \in Node
  BY PeerProps DEF TypeOK
<1>3. QED
  BY <1>1, <1>2, Zenon DEF Header, Datagram

\* A flush packs the acks and segments it is given into datagrams to the peer.
LEMMA PackProps ==
  ASSUME TypeOK, NEW n \in Node, NEW acks \in SUBSET Nat, NEW ask \in BOOLEAN,
         NEW tll \in BOOLEAN, NEW push \in SUBSET Seg,
         NEW d \in Pack(n, acks, ask, tll, push)
  PROVE  /\ d \in Datagram /\ d.to = Peer(n)
         /\ d.una = rcvNxt[n] /\ d.wnd = UnusedWnd(n)
         /\ d.acks \subseteq acks /\ d.push \subseteq push
<1>1. \/ d = Header(n, acks, ask, tll, push)
      \/ d = Header(n, acks, ask, tll, {})
      \/ \E s \in push : d = Header(n, {}, FALSE, FALSE, {s})
  BY DEF Pack
<1>2. CASE d = Header(n, acks, ask, tll, push)
  BY <1>2, HeaderProps
<1>3. CASE d = Header(n, acks, ask, tll, {})
  <2>1. {} \in SUBSET Seg
    OBVIOUS
  <2>2. QED
    BY <1>3, <2>1, HeaderProps
<1>4. CASE \E s \in push : d = Header(n, {}, FALSE, FALSE, {s})
  <2>1. PICK s \in push, f \in BOOLEAN, as \in SUBSET Nat :
          as = {} /\ d = Header(n, as, f, f, {s})
    BY <1>4, Zenon
  <2>2. {s} \in SUBSET Seg /\ {s} \subseteq push
    OBVIOUS
  <2>3. /\ d \in Datagram /\ d.to = Peer(n)
        /\ d.una = rcvNxt[n] /\ d.wnd = UnusedWnd(n)
        /\ d.acks = as /\ d.push = {s}
    BY <2>1, <2>2, HeaderProps
  <2>4. QED
    BY <2>1, <2>2, <2>3
<1>5. QED
  BY <1>1, <1>2, <1>3, <1>4

\* The windows an end can have are positive.
LEMMA RcvSizesProps == RcvSizes \subseteq Nat \ {0}
<1>1. ASSUME NEW n \in Node, NEW w \in RcvWnds[n] PROVE w \in Nat \ {0}
  BY WndAssumption
<1>2. QED
  BY <1>1, WndAssumption DEF RcvSizes

\* What rcvBuf holds are segments.
LEMMA StoredProps ==
  ASSUME TypeOK, NEW n \in Node
  PROVE  Stored(n) \in SUBSET Seg
<1>1. rcvBuf[n] \in Seq(Seg)
  BY DEF TypeOK
<1>2. QED
  BY <1>1, RangeOfSeq DEF Stored

\* What unusedWnd advertises never exceeds the receive window.
LEMMA UnusedWndBound ==
  ASSUME TypeOK, NEW n \in Node
  PROVE  UnusedWnd(n) \in Nat /\ UnusedWnd(n) <= rcvWnd[n]
<1> DEFINE free == IF Len(rcvQueue[n]) < rcvWnd[n] THEN rcvWnd[n] - Len(rcvQueue[n]) ELSE 0
<1>1. free \in Nat /\ free <= rcvWnd[n] /\ rcvWnd[n] \in Nat
  BY DEF TypeOK
<1>2. UnusedWnd(n) = free % WndMod
  BY DEF UnusedWnd
<1>3. \A x \in Nat, m \in Nat \ {0} : x % m \in Nat /\ x % m <= x
  OBVIOUS
<1>4. QED
  BY <1>1, <1>2, <1>3, WndAssumption

\* An ack a flush encodes was in the ack list.
LEMMA AckSegsProps ==
  ASSUME NEW n \in Node, NEW acks \in AckSegs(n)
  PROVE  acks \subseteq ackList[n]
BY DEF AckSegs
-----------------------------------------------------------------------------
(* flush                                                                   *)

\* The queue a flush works on holds the payloads after sndNxt, in order.
Following(n, queue) ==
  /\ queue \in Seq(Nat)
  /\ \A i \in 1..Len(queue) : queue[i] = sndNxt[n] + i

\* A datagram flush makes when sndNxt ends up at next tells the truth about n.
Truthful(d, n, next) ==
  /\ d \in Datagram /\ d.to = Peer(n) /\ d.una = rcvNxt[n] /\ d.wnd <= rcvWnd[n]
  /\ d.acks \subseteq ackList[n]
  /\ \A s \in d.push : s.sn < next /\ s.data = s.sn + 1

\* The segments a flush moves to sndBuf carry the payloads of their numbers.
LEMMA NewSegsProps ==
  ASSUME TypeOK, NEW n \in Node, NEW queue, Following(n, queue), NEW k \in 0..Len(queue)
  PROVE  /\ NewSegs(n, queue, k) \subseteq SndSeg
         /\ Sns(NewSegs(n, queue, k)) = sndNxt[n]..(sndNxt[n] + k - 1)
         /\ \A s \in NewSegs(n, queue, k) :
              s.sn < sndNxt[n] + k /\ s.data = s.sn + 1 /\ ~s.acked
<1> DEFINE seg(i) == [sn |-> sndNxt[n] + i - 1, data |-> queue[i], acked |-> FALSE]
<1>1. sndNxt[n] \in Nat /\ Len(queue) \in Nat
  BY DEF TypeOK, Following
<1>2. ASSUME NEW i \in 1..k
      PROVE  /\ seg(i) \in SndSeg /\ seg(i).sn = sndNxt[n] + i - 1
             /\ seg(i).sn < sndNxt[n] + k /\ seg(i).data = seg(i).sn + 1 /\ ~seg(i).acked
  <2>1. queue[i] = sndNxt[n] + i /\ sndNxt[n] + i - 1 \in Nat /\ sndNxt[n] + i \in Nat
    BY <1>1 DEF Following
  <2>2. QED
    BY <2>1, <1>1 DEF SndSeg
<1>3. NewSegs(n, queue, k) = {seg(i) : i \in 1..k}
  BY DEF NewSegs
<1> HIDE DEF seg
<1>4. Sns(NewSegs(n, queue, k)) = {seg(i).sn : i \in 1..k}
  BY <1>3 DEF Sns
<1>5. {seg(i).sn : i \in 1..k} = sndNxt[n]..(sndNxt[n] + k - 1)
  <2>1. ASSUME NEW x \in sndNxt[n]..(sndNxt[n] + k - 1)
        PROVE  \E i \in 1..k : x = seg(i).sn
    <3>1. x - sndNxt[n] + 1 \in 1..k /\ sndNxt[n] + (x - sndNxt[n] + 1) - 1 = x
      BY <1>1
    <3>2. QED
      BY <3>1, <1>2
  <2>2. \A i \in 1..k : seg(i).sn \in sndNxt[n]..(sndNxt[n] + k - 1)
    BY <1>1, <1>2
  <2>3. QED
    BY <2>1, <2>2
<1>6. QED
  BY <1>2, <1>3, <1>4, <1>5

\* What a flush does to the sender half and puts on the wire.
LEMMA FlushProps ==
  ASSUME IInv, NEW n \in Node, NEW queue, Following(n, queue), Flush(n, queue)
  PROVE  \E k \in 0..Len(queue) :
           /\ k = 0 \/ sndNxt[n] + k <= sndUna[n] + rmtWnd[n]
           /\ sndBuf' = [sndBuf EXCEPT ![n] = @ \cup NewSegs(n, queue, k)]
           /\ sndNxt' = [sndNxt EXCEPT ![n] = @ + k]
           /\ sndQueue' = [sndQueue EXCEPT ![n] = SubSeq(queue, k + 1, Len(queue))]
           /\ sndUna' = sndUna
           /\ ackList' = [ackList EXCEPT ![n] = {}]
           /\ tell' \in [Node -> BOOLEAN] /\ probeWait' \in [Node -> BOOLEAN]
           /\ \A d \in net' : d \in net \/ Truthful(d, n, sndNxt[n] + k)
<1> USE DEF IInv
<1>1. PICK cwnd \in 0..Limit(n), acks \in AckSegs(n), ask \in BOOLEAN,
           resend \in SUBSET {s \in sndBuf[n] : ~s.acked} :
        LET k == MoveCount(n, queue, cwnd)
            new == NewSegs(n, queue, k)
        IN  /\ ProbeTimer(n, ask)
            /\ sndBuf' = [sndBuf EXCEPT ![n] = @ \cup new]
            /\ sndNxt' = [sndNxt EXCEPT ![n] = @ + k]
            /\ sndQueue' = [sndQueue EXCEPT ![n] = SubSeq(queue, k + 1, Len(queue))]
            /\ ackList' = [ackList EXCEPT ![n] = {}]
            /\ tell' = [tell EXCEPT ![n] = FALSE]
            /\ Transmit(Pack(n, acks, ask, tell[n], Wire(new \cup resend)), net)
            /\ UNCHANGED sndUna
  BY DEF Flush
<1> DEFINE k == MoveCount(n, queue, cwnd)
           new == NewSegs(n, queue, k)
           push == Wire(new \cup resend)
<1>2. /\ sndNxt[n] \in Nat /\ sndUna[n] \in Nat /\ rmtWnd[n] \in Nat /\ sndWnd[n] \in Nat
      /\ Len(queue) \in Nat
  BY DEF TypeOK, Following
<1>3. cwnd \in Nat /\ cwnd <= rmtWnd[n]
  BY <1>2 DEF Limit, Least
<1>4. k \in 0..Len(queue) /\ (k = 0 \/ sndNxt[n] + k <= sndUna[n] + rmtWnd[n])
  <2>1. CASE sndNxt[n] >= sndUna[n] + cwnd
    BY <2>1, <1>2 DEF MoveCount
  <2>2. CASE sndNxt[n] < sndUna[n] + cwnd
    <3>1. k = Least(Len(queue), sndUna[n] + cwnd - sndNxt[n])
      BY <2>2, <1>2, <1>3 DEF MoveCount
    <3>2. /\ k \in Nat /\ k <= Len(queue) /\ k <= sndUna[n] + cwnd - sndNxt[n]
      BY <3>1, <2>2, <1>2, <1>3 DEF Least
    <3>3. QED
      BY <3>2, <1>2, <1>3
  <2>3. QED
    BY <2>1, <2>2, <1>2, <1>3
<1>5. tell' \in [Node -> BOOLEAN] /\ probeWait' \in [Node -> BOOLEAN]
  <2>1. tell \in [Node -> BOOLEAN] /\ probeWait \in [Node -> BOOLEAN]
    BY DEF TypeOK
  <2>2. /\ tell' = [tell EXCEPT ![n] = FALSE]
        /\ probeWait' = [probeWait EXCEPT ![n] = (rmtWnd[n] = 0)]
    BY <1>1, Zenon DEF ProbeTimer
  <2>3. QED
    BY <2>1, <2>2
<1> HIDE DEF k
<1>6. /\ new \subseteq SndSeg
      /\ \A s \in new : s.sn < sndNxt[n] + k /\ s.data = s.sn + 1
  BY <1>4, NewSegsProps
<1>7. \A s \in resend : s \in SndSeg /\ s.sn < sndNxt[n] + k /\ s.data = s.sn + 1
  <2>1. ASSUME NEW s \in resend
        PROVE  s \in SndSeg /\ s.sn < sndNxt[n] + k /\ s.data = s.sn + 1
    <3>1. s \in sndBuf[n] /\ ~s.acked /\ s \in SndSeg
      BY DEF TypeOK
    <3>2. s.sn \in sndUna[n]..(sndNxt[n] - 1) /\ s.data = s.sn + 1
      BY <3>1 DEF SendSide, Sns
    <3>3. QED
      BY <3>1, <3>2, <1>2, <1>4
  <2>2. QED
    BY <2>1
<1> HIDE DEF new
<1>8. push \subseteq Seg /\ \A s \in push : s.sn < sndNxt[n] + k /\ s.data = s.sn + 1
  BY <1>6, <1>7 DEF Wire, Seg, SndSeg
<1>9. acks \subseteq ackList[n] /\ acks \subseteq Nat /\ tell[n] \in BOOLEAN
  BY AckSegsProps DEF TypeOK
<1> HIDE DEF push
<1>10. \A d \in net' : d \in net \/ d \in Pack(n, acks, ask, tell[n], push)
  BY <1>1 DEF Transmit, k, new, push
<1>11. ASSUME NEW d \in Pack(n, acks, ask, tell[n], push)
       PROVE  Truthful(d, n, sndNxt[n] + k)
  <2>1. /\ d \in Datagram /\ d.to = Peer(n) /\ d.una = rcvNxt[n] /\ d.wnd = UnusedWnd(n)
        /\ d.acks \subseteq acks /\ d.push \subseteq push
    BY <1>8, <1>9, PackProps
  <2>2. QED
    BY <2>1, <1>8, <1>9, UnusedWndBound DEF Truthful
<1>12. /\ sndBuf' = [sndBuf EXCEPT ![n] = @ \cup NewSegs(n, queue, k)]
       /\ sndNxt' = [sndNxt EXCEPT ![n] = @ + k]
       /\ sndQueue' = [sndQueue EXCEPT ![n] = SubSeq(queue, k + 1, Len(queue))]
       /\ ackList' = [ackList EXCEPT ![n] = {}]
       /\ sndUna' = sndUna
  BY <1>1, Zenon DEF k
<1>13. QED
  BY <1>4, <1>5, <1>10, <1>11, <1>12

\* The elements of what is left of a send queue once k segments have left it.
LEMMA SubSeqElement ==
  ASSUME NEW q \in Seq(Nat), NEW j \in 0..Len(q), NEW i \in Nat, 1 <= i, i <= Len(q) - j
  PROVE  SubSeq(q, j + 1, Len(q))[i] = q[j + i]
OBVIOUS

\* A flush keeps the invariant, whatever caller it has: written is what has left
\* the queue plus what is in it, and Input may be done with its datagram.
LEMMA FlushStep ==
  ASSUME IInv, NEW n \in Node, NEW queue, Following(n, queue), Flush(n, queue),
         UNCHANGED <<rcvVars, wndVars, rmtWnd, read>>,
         inp' \in [Node -> [busy : BOOLEAN, push : SUBSET Seg, slid : BOOLEAN]],
         \A m \in Node : inp'[m].push \subseteq inp[m].push,
         written' = [written EXCEPT ![n] = sndNxt[n] + Len(queue)]
  PROVE  IInv'
<1>1. PICK k \in 0..Len(queue) :
           /\ k = 0 \/ sndNxt[n] + k <= sndUna[n] + rmtWnd[n]
           /\ sndBuf' = [sndBuf EXCEPT ![n] = @ \cup NewSegs(n, queue, k)]
           /\ sndNxt' = [sndNxt EXCEPT ![n] = @ + k]
           /\ sndQueue' = [sndQueue EXCEPT ![n] = SubSeq(queue, k + 1, Len(queue))]
           /\ sndUna' = sndUna
           /\ ackList' = [ackList EXCEPT ![n] = {}]
           /\ tell' \in [Node -> BOOLEAN] /\ probeWait' \in [Node -> BOOLEAN]
           /\ \A d \in net' : d \in net \/ Truthful(d, n, sndNxt[n] + k)
  BY FlushProps
<1> DEFINE p == Peer(n)
           new == NewSegs(n, queue, k)
           rest == SubSeq(queue, k + 1, Len(queue))
<1>2. /\ p \in Node /\ p # n /\ Peer(p) = n /\ \A m \in Node : m = n \/ m = p
  BY PeerProps
<1>3. TypeOK /\ queue \in Seq(Nat) /\ Len(queue) \in Nat
  BY DEF IInv, Following
<1>4. /\ rest \in Seq(Nat) /\ Len(rest) = Len(queue) - k
      /\ \A i \in 1..Len(rest) : rest[i] = sndNxt[n] + k + i
  <2>1. rest \in Seq(Nat) /\ Len(rest) = Len(queue) - k
    BY <1>3
  <2>2. ASSUME NEW i \in 1..Len(rest) PROVE rest[i] = sndNxt[n] + k + i
    <3>1. i \in Nat /\ 1 <= i /\ i <= Len(queue) - k
      BY <1>3, <2>1
    <3>1a. k + i \in 1..Len(queue)
      BY <1>3, <3>1
    <3>1b. rest[i] = queue[k + i]
      BY <1>3, <3>1, SubSeqElement
    <3>2. queue[k + i] = sndNxt[n] + (k + i) /\ sndNxt[n] \in Nat
      BY <3>1a DEF Following, IInv, TypeOK
    <3>3. QED
      BY <1>3, <3>1, <3>1b, <3>2
  <2>3. QED
    BY <2>1, <2>2
<1>5. /\ new \subseteq SndSeg /\ Sns(new) = sndNxt[n]..(sndNxt[n] + k - 1)
      /\ \A s \in new : s.data = s.sn + 1 /\ ~s.acked
  BY <1>1, <1>3, NewSegsProps
<1> HIDE DEF p, new, rest
<1>6. /\ sndBuf' = [sndBuf EXCEPT ![n] = @ \cup new]
      /\ sndQueue' = [sndQueue EXCEPT ![n] = rest]
  BY <1>1 DEF new, rest
<1>7. TypeOK'
  <2>1. sndQueue' \in [Node -> Seq(Nat)]
    BY <1>3, <1>4, <1>6 DEF TypeOK
  <2>1b. ackList' \in [Node -> SUBSET Nat]
    BY <1>1, <1>3 DEF TypeOK
  <2>1a. sndBuf' \in [Node -> SUBSET SndSeg]
    <3>1. sndBuf \in [Node -> SUBSET SndSeg]
      BY <1>3 DEF TypeOK
    <3>2. QED
      BY <3>1, <1>5, <1>6
  <2>2. net' \in SUBSET Datagram
    BY <1>1, <1>3 DEF TypeOK, Truthful
  <2>3. sndNxt' \in [Node -> Nat] /\ written' \in [Node -> Nat]
    <3>1. sndNxt \in [Node -> Nat] /\ written \in [Node -> Nat] /\ sndNxt[n] \in Nat
      BY <1>3 DEF TypeOK
    <3>2. sndNxt[n] + k \in Nat /\ sndNxt[n] + Len(queue) \in Nat
      BY <3>1, <1>3
    <3>3. /\ sndNxt' = [sndNxt EXCEPT ![n] = sndNxt[n] + k]
          /\ written' = [written EXCEPT ![n] = sndNxt[n] + Len(queue)]
      BY <1>1
    <3>4. QED
      BY <3>1, <3>2, <3>3
  <2>4. QED
    BY <1>1, <1>3, <2>1, <2>1a, <2>1b, <2>2, <2>3 DEF TypeOK, rcvVars, wndVars
<1>7a. \A m \in Node :
         /\ sndNxt[m] \in Nat /\ sndNxt'[m] \in Nat /\ sndNxt[m] <= sndNxt'[m]
         /\ rcvNxt[m] \in Nat /\ sndUna[m] \in Nat
  <2>1. /\ sndNxt \in [Node -> Nat] /\ sndNxt' \in [Node -> Nat]
        /\ rcvNxt \in [Node -> Nat] /\ sndUna \in [Node -> Nat]
    BY <1>3, <1>7 DEF TypeOK
  <2>2. sndNxt' = [sndNxt EXCEPT ![n] = @ + k] /\ k \in Nat
    BY <1>1, <1>3
  <2>3. QED
    BY <2>1, <2>2
<1>8. \A m \in Node : \A x : Received(m, x)' <=> Received(m, x)
  BY DEF Received, Stored, rcvVars
<1>9. /\ sndNxt[n] \in Nat /\ sndUna[n] \in Nat /\ SendSide(n) /\ SendSide(p)
      /\ ReceiveSide(n) /\ ReceiveSide(p)
  BY <1>2 DEF IInv, TypeOK
<1>10. SendSide(n)'
  <2>1. sndUna'[n] <= sndNxt'[n]
    BY <1>1, <1>3, <1>9 DEF SendSide, TypeOK
  <2>2. Sns(sndBuf'[n]) = sndUna'[n]..(sndNxt'[n] - 1)
    <3>1. sndBuf'[n] = sndBuf[n] \cup new /\ sndUna'[n] = sndUna[n] /\ sndNxt'[n] = sndNxt[n] + k
      BY <1>1, <1>3, <1>6 DEF TypeOK
    <3>2. Sns(sndBuf[n] \cup new) = Sns(sndBuf[n]) \cup Sns(new)
      BY DEF Sns
    <3>3. Sns(sndBuf[n]) = sndUna[n]..(sndNxt[n] - 1) /\ sndUna[n] <= sndNxt[n]
      BY <1>9 DEF SendSide
    <3>4. ASSUME NEW u \in Nat, NEW x \in Nat, u <= x
          PROVE  (u..(x - 1)) \cup (x..(x + k - 1)) = u..(x + k - 1)
      <4>1. ASSUME NEW y PROVE y \in (u..(x - 1)) \cup (x..(x + k - 1)) <=> y \in u..(x + k - 1)
        BY <3>4, <1>3
      <4>2. QED
        BY <4>1
    <3>5. Sns(sndBuf[n]) \cup Sns(new) = sndUna[n]..(sndNxt[n] + k - 1)
      BY <3>3, <3>4, <1>5, <1>9
    <3>6. Sns(sndBuf'[n]) = Sns(sndBuf[n]) \cup Sns(new)
      BY <3>1, <3>2
    <3>7. sndNxt'[n] - 1 = sndNxt[n] + k - 1
      BY <3>1, <1>9
    <3>8. QED
      BY <3>1, <3>5, <3>6, <3>7
  <2>3. \A s \in sndBuf'[n] : IF s.acked THEN Received(Peer(n), s.sn)' ELSE s.data = s.sn + 1
    <3>1. sndBuf'[n] = sndBuf[n] \cup new
      BY <1>3, <1>6 DEF TypeOK
    <3>2. QED
      BY <3>1, <1>5, <1>8, <1>9, <1>2 DEF SendSide, p
  <2>4. written'[n] = sndNxt'[n] + Len(sndQueue'[n])
    <3>1. sndQueue'[n] = rest /\ sndNxt \in [Node -> Nat]
      BY <1>3, <1>6 DEF TypeOK
    <3>2. written'[n] = sndNxt[n] + Len(queue)
      BY <1>3 DEF TypeOK
    <3>3. QED
      <4>1. sndNxt'[n] = sndNxt[n] + k /\ k \in Nat
        BY <3>1, <1>1, <1>3
      <4>2. QED
        BY <3>1, <3>2, <4>1, <1>3, <1>4, <1>9
  <2>5. \A i \in 1..Len(sndQueue'[n]) : sndQueue'[n][i] = sndNxt'[n] + i
    BY <1>1, <1>3, <1>4, <1>6 DEF TypeOK
  <2>6. QED
    BY <2>1, <2>2, <2>3, <2>4, <2>5 DEF SendSide, p
<1>11. SendSide(p)'
  <2>1. /\ sndBuf'[p] = sndBuf[p] /\ sndQueue'[p] = sndQueue[p] /\ sndNxt'[p] = sndNxt[p]
        /\ sndUna'[p] = sndUna[p] /\ written'[p] = written[p]
    BY <1>1, <1>2, <1>3, <1>6 DEF TypeOK
  <2>2. QED
    BY <2>1, <1>8, <1>9, <1>2 DEF SendSide
<1>12. ASSUME NEW m \in Node PROVE ReceiveSide(m)'
  <2>1. ReceiveSide(m) /\ sndNxt[Peer(m)] <= sndNxt'[Peer(m)] /\ Peer(m) \in Node
    BY <1>7a, PeerProps DEF IInv
  <2>2. ASSUME NEW segs, segs \in SUBSET Seg, Carried(segs, Peer(m))
        PROVE  \A s \in segs : s.sn < sndNxt'[Peer(m)] /\ s.data = s.sn + 1
    BY <2>1, <2>2, <1>7a DEF Carried, Seg
  <2>3. /\ Stored(m) \in SUBSET Seg /\ inp[m].push \in SUBSET Seg /\ inp'[m].push \subseteq inp[m].push
        /\ rcvNxt[m] \in Nat /\ sndNxt[Peer(m)] \in Nat /\ sndNxt'[Peer(m)] \in Nat
    BY <1>3, <1>7, PeerProps, StoredProps DEF TypeOK
  <2>4. ackList'[m] \subseteq ackList[m]
    BY <1>1, <1>3 DEF TypeOK
  <2>5. Carried(Stored(m), Peer(m))' /\ Carried(inp[m].push, Peer(m))'
    BY <2>1, <2>2, <2>3 DEF ReceiveSide, Carried, Stored, rcvVars
  <2>6. \A x \in ackList'[m] : Received(m, x)'
    BY <2>1, <2>4, <1>8 DEF ReceiveSide
  <2>7. sndUna'[Peer(m)] <= rcvNxt'[m] /\ rcvNxt'[m] <= sndNxt'[Peer(m)]
    <3>1. sndUna[Peer(m)] <= rcvNxt[m] /\ rcvNxt[m] <= sndNxt[Peer(m)]
      BY <2>1 DEF ReceiveSide
    <3>2. QED
      BY <3>1, <1>1, <2>1, <2>3 DEF rcvVars
  <2>8. QED
    BY <2>1, <2>5, <2>6, <2>7 DEF ReceiveSide, Stored, rcvVars
<1>13. Transit'
  <2>1. SUFFICES ASSUME NEW d \in net'
                 PROVE  /\ d.una <= rcvNxt[Peer(d.to)]
                        /\ \A x \in d.acks : Received(Peer(d.to), x)
                        /\ \A s \in d.push : s.sn < sndNxt'[Peer(d.to)] /\ s.data = s.sn + 1
    BY <1>8, <1>7, PeerProps DEF Transit, Carried, rcvVars, TypeOK, Datagram
  <2>2. CASE d \in net
    <3>1. d \in Datagram /\ Peer(d.to) \in Node /\ d.push \in SUBSET Seg
      BY <2>2, <1>3, PeerProps DEF TypeOK, Datagram
    <3>2. QED
      <4>1. /\ d.una <= rcvNxt[Peer(d.to)]
            /\ \A x \in d.acks : Received(Peer(d.to), x)
            /\ Carried(d.push, Peer(d.to))
        BY <2>2 DEF IInv, Transit
      <4>2. \A s \in d.push : s.sn \in Nat
        BY <3>1 DEF Seg
      <4>3. QED
        BY <4>1, <4>2, <3>1, <1>7a DEF Carried
  <2>3. CASE Truthful(d, n, sndNxt[n] + k)
    <3>1. /\ Peer(d.to) = n /\ d.una = rcvNxt[n] /\ d.acks \subseteq ackList[n]
          /\ sndNxt'[n] = sndNxt[n] + k
      BY <2>3, <1>1, <1>2, <1>3 DEF Truthful, p, TypeOK
    <3>2. \A x \in d.acks : Received(n, x)
      BY <3>1, <1>9 DEF ReceiveSide
    <3>3. \A s \in d.push : s.sn < sndNxt'[n] /\ s.data = s.sn + 1
      BY <2>3, <3>1 DEF Truthful
    <3>4. QED
      BY <3>1, <3>2, <3>3, <1>7a
  <2>4. QED
    BY <1>1, <2>2, <2>3
<1>14. Windows'
  <2>1. SUFFICES ASSUME NEW w \in RcvSizes, WndBound(w)
                 PROVE  /\ \A m \in Node : sndNxt'[m] <= rcvNxt[Peer(m)] + w
                        /\ \A d \in net' : d.wnd <= w
    BY DEF Windows, IInv, WndBound, rcvVars, wndVars
  <2>2. /\ w \in Nat /\ rcvNxt[p] \in Nat /\ rmtWnd[n] \in Nat /\ rcvWnd[n] \in Nat
        /\ \A m \in Node : rcvWnd[m] <= w /\ rmtWnd[m] <= w /\ sndNxt[m] <= rcvNxt[Peer(m)] + w
        /\ \A d \in net : d.wnd <= w
    BY <2>1, <1>2, <1>3, RcvSizesProps DEF IInv, Windows, TypeOK
  <2>3. sndNxt'[n] <= rcvNxt[p] + w
    <3>1. sndUna[n] <= rcvNxt[p] /\ rmtWnd[n] <= w /\ sndNxt[n] <= rcvNxt[p] + w
      BY <1>2, <1>9, <2>2 DEF ReceiveSide, p
    <3>2. sndNxt'[n] = sndNxt[n] + k
      BY <1>1, <1>3 DEF TypeOK
    <3>3. QED
      BY <3>1, <3>2, <2>2, <1>1, <1>9
  <2>4. \A m \in Node : sndNxt'[m] <= rcvNxt[Peer(m)] + w
    <3>1. sndNxt'[p] = sndNxt[p]
      BY <1>1, <1>2, <1>3 DEF TypeOK
    <3>2. QED
      BY <3>1, <2>2, <2>3, <1>2 DEF p
  <2>5. \A d \in net' : d.wnd <= w
    <3>1. \A d \in net' : d \in Datagram
      BY <1>7 DEF TypeOK
    <3>2. QED
      BY <1>1, <2>2, <3>1 DEF Truthful, Datagram
  <2>6. QED
    BY <2>4, <2>5
<1>15. QED
  BY <1>2, <1>7, <1>10, <1>11, <1>12, <1>13, <1>14 DEF IInv

\* Steps that move no segment: the acks of a flush, a dropped or repeated PUSH, a
\* lost datagram, a new window size.  What is new in ackList and net is true.
LEMMA QuietStep ==
  ASSUME IInv, NEW n \in Node,
         UNCHANGED <<sndVars, rcvVars, hist, rmtWnd>>,
         ackList' \in [Node -> SUBSET Nat],
         \A m \in Node : \A x \in ackList'[m] : Received(m, x),
         inp' \in [Node -> [busy : BOOLEAN, push : SUBSET Seg, slid : BOOLEAN]],
         \A m \in Node : inp'[m].push \subseteq inp[m].push,
         tell' \in [Node -> BOOLEAN], probeWait' \in [Node -> BOOLEAN],
         sndWnd' \in [Node -> Nat \ {0}], rcvWnd' \in [Node -> Nat \ {0}],
         \A m \in Node : rcvWnd'[m] = rcvWnd[m] \/ rcvWnd'[m] \in RcvSizes,
         \A d \in net' : d \in net \/ Truthful(d, n, sndNxt[n])
  PROVE  IInv'
<1>1. TypeOK
  BY DEF IInv
<1>2. TypeOK'
  <2>1. net' \in SUBSET Datagram
    BY <1>1 DEF TypeOK, Truthful
  <2>2. QED
    BY <1>1, <2>1 DEF TypeOK, sndVars, rcvVars, hist
<1>3. \A m \in Node : \A x : Received(m, x)' <=> Received(m, x)
  BY DEF Received, Stored, rcvVars
<1>4. \A m \in Node : SendSide(m)'
  BY <1>3, PeerProps DEF IInv, SendSide, sndVars, hist
<1>5. \A m \in Node : ReceiveSide(m)'
  <2>1. SUFFICES ASSUME NEW m \in Node PROVE ReceiveSide(m)'
    OBVIOUS
  <2>2. ReceiveSide(m) /\ inp'[m].push \subseteq inp[m].push
    BY DEF IInv
  <2>3. Carried(inp[m].push, Peer(m))' /\ Carried(Stored(m), Peer(m))'
    BY <2>2 DEF ReceiveSide, Carried, Stored, sndVars, rcvVars
  <2>4. \A x \in ackList'[m] : Received(m, x)'
    BY <1>3
  <2>5. QED
    BY <2>2, <2>3, <2>4 DEF ReceiveSide, Stored, sndVars, rcvVars, hist
<1>6. Transit'
  <2>1. SUFFICES ASSUME NEW d \in net'
                 PROVE  /\ d.una <= rcvNxt[Peer(d.to)]
                        /\ \A x \in d.acks : Received(Peer(d.to), x)
                        /\ Carried(d.push, Peer(d.to))
    BY <1>2, <1>3, PeerProps DEF Transit, Carried, sndVars, rcvVars, TypeOK, Datagram
  <2>2. CASE d \in net
    BY <2>2 DEF IInv, Transit
  <2>3. CASE Truthful(d, n, sndNxt[n])
    <3>1. /\ Peer(d.to) = n /\ d.una = rcvNxt[n] /\ d.acks \subseteq ackList[n]
          /\ rcvNxt[n] \in Nat /\ ReceiveSide(n)
      BY <2>3, <1>1, PeerProps DEF Truthful, TypeOK, IInv
    <3>2. \A x \in d.acks : Received(n, x)
      BY <3>1 DEF ReceiveSide
    <3>3. Carried(d.push, n)
      BY <2>3 DEF Truthful, Carried
    <3>4. QED
      BY <3>1, <3>2, <3>3
  <2>4. QED
    BY <2>2, <2>3
<1>7. Windows'
  <2>1. SUFFICES ASSUME NEW w \in RcvSizes, WndBound(w)
                 PROVE  /\ \A m \in Node : rcvWnd'[m] <= w
                        /\ \A d \in net' : d.wnd <= w
    BY DEF Windows, IInv, WndBound, sndVars, rcvVars
  <2>2. /\ w \in Nat /\ \A m \in Node : rcvWnd[m] <= w
        /\ \A d \in net : d.wnd <= w
    BY <2>1, RcvSizesProps DEF IInv, Windows
  <2>3. \A m \in Node : rcvWnd'[m] <= w
    BY <2>1, <2>2 DEF WndBound
  <2>4. \A d \in net' : d.wnd <= w
    <3>1. ASSUME NEW d \in net', Truthful(d, n, sndNxt[n]) PROVE d.wnd <= w
      <4>1. d.wnd \in Nat /\ rcvWnd[n] \in Nat /\ d.wnd <= rcvWnd[n]
        BY <3>1, <1>1 DEF Truthful, Datagram, TypeOK
      <4>2. QED
        BY <4>1, <2>2
    <3>2. QED
      BY <2>2, <3>1
  <2>5. QED
    BY <2>3, <2>4
<1>8. QED
  BY <1>2, <1>4, <1>5, <1>6, <1>7 DEF IInv

\* A lost datagram is the simplest of them.
LEMMA LoseStep ==
  ASSUME IInv, NEW d \in net, Lose(d)
  PROVE  IInv'
<1>1. PICK n \in Node : TRUE
  BY NodeAssumption
<1>2. TypeOK /\ \A m \in Node : ReceiveSide(m)
  BY DEF IInv
<1>3. \A m \in Node : \A x \in ackList[m] : Received(m, x)
  BY <1>2 DEF ReceiveSide
<1>4. \A e \in net' : e \in net
  BY DEF Lose
<1>5. QED
  BY <1>2, <1>3, <1>4, QuietStep DEF Lose, TypeOK, wndVars

\* SetWindowSize keeps the invariant: the new windows are among the allowed.
LEMMA WndSizeStep ==
  ASSUME IInv, NEW n \in Node, WndSize(n)
  PROVE  IInv'
<1>1. TypeOK /\ ReceiveSide(n) /\ \A m \in Node : ReceiveSide(m)
  BY DEF IInv
<1>2. \A m \in Node : \A x \in ackList[m] : Received(m, x)
  BY <1>1 DEF ReceiveSide
<1>3. /\ sndWnd' \in [Node -> Nat \ {0}] /\ rcvWnd' \in [Node -> Nat \ {0}]
      /\ \A m \in Node : rcvWnd'[m] = rcvWnd[m] \/ rcvWnd'[m] \in RcvSizes
  <2>1. /\ \E w \in SndWnds[n] : sndWnd' = [sndWnd EXCEPT ![n] = w]
        /\ \E w \in RcvWnds[n] : rcvWnd' = [rcvWnd EXCEPT ![n] = w]
    BY DEF WndSize
  <2>2. PICK v \in SndWnds[n], w \in RcvWnds[n] :
          sndWnd' = [sndWnd EXCEPT ![n] = v] /\ rcvWnd' = [rcvWnd EXCEPT ![n] = w]
    BY <2>1
  <2>3. v \in Nat \ {0} /\ w \in Nat \ {0} /\ w \in RcvSizes
    BY WndAssumption DEF RcvSizes
  <2>4. QED
    BY <1>1, <2>2, <2>3 DEF TypeOK
<1>4. QED
  <2>1. /\ UNCHANGED <<sndVars, rcvVars, hist, rmtWnd>>
        /\ UNCHANGED <<ackList, tell, probeWait, inp, net>>
    BY DEF WndSize
  <2>2. QED
    BY <1>1, <1>2, <1>3, <2>1, QuietStep DEF TypeOK
-----------------------------------------------------------------------------
(* The receiver                                                            *)

\* parseData's search and insertion: a sorted rcvBuf stays sorted, and gains the
\* segment unless it has one of that number.
LEMMA InsertProps ==
  ASSUME NEW buf \in Seq(Seg), Sorted(buf), NEW s \in Seg, NEW i \in 0..Len(buf),
         Place(buf, s.sn, i)
  PROVE  LET new == Insert(buf, s, i)
         IN  /\ new \in Seq(Seg) /\ Sorted(new) /\ s.sn \in Sns(Range(new))
             /\ Range(new) = Range(buf) \/ Range(new) = Range(buf) \cup {s}
<1>1. /\ s.sn \in Nat /\ Len(buf) \in Nat
      /\ \A j \in 1..Len(buf) : buf[j] \in Seg /\ buf[j].sn \in Nat
  <2>1. Len(buf) \in Nat /\ \A j \in 1..Len(buf) : buf[j] \in Seg
    OBVIOUS
  <2>2. \A t \in Seg : t.sn \in Nat
    BY DEF Seg
  <2>3. QED
    BY <2>1, <2>2
<1>2. /\ i > 0 => buf[i].sn <= s.sn
      /\ \A j \in (i + 1)..Len(buf) : s.sn < buf[j].sn
  BY DEF Place
<1>3. CASE i > 0 /\ buf[i].sn = s.sn
  <2>1. Insert(buf, s, i) = buf
    BY <1>3 DEF Insert
  <2>2. buf[i] \in Range(buf)
    BY <1>3, RangeEquality
  <2>3. QED
    BY <1>3, <2>1, <2>2 DEF Sns
<1>4. CASE ~(i > 0 /\ buf[i].sn = s.sn)
  <2> DEFINE new == SubSeq(buf, 1, i) \o <<s>> \o SubSeq(buf, i + 1, Len(buf))
  <2>1. Insert(buf, s, i) = new
    BY <1>4 DEF Insert
  <2>2. /\ new \in Seq(Seg) /\ Len(new) = Len(buf) + 1
        /\ \A j \in 1..Len(new) :
             new[j] = IF j <= i THEN buf[j] ELSE IF j = i + 1 THEN s ELSE buf[j - 1]
    <3>1. /\ SubSeq(buf, 1, i) \in Seq(Seg) /\ Len(SubSeq(buf, 1, i)) = i
          /\ \A j \in 1..i : SubSeq(buf, 1, i)[j] = buf[j]
      OBVIOUS
    <3>2. /\ SubSeq(buf, i + 1, Len(buf)) \in Seq(Seg)
          /\ Len(SubSeq(buf, i + 1, Len(buf))) = Len(buf) - i
          /\ \A j \in 1..(Len(buf) - i) : SubSeq(buf, i + 1, Len(buf))[j] = buf[i + j]
      OBVIOUS
    <3>3. <<s>> \in Seq(Seg) /\ Len(<<s>>) = 1 /\ <<s>>[1] = s
      OBVIOUS
    <3> DEFINE front == SubSeq(buf, 1, i)
               back == SubSeq(buf, i + 1, Len(buf))
    <3> HIDE DEF front, back
    <3>4. /\ front \o <<s>> \in Seq(Seg) /\ Len(front \o <<s>>) = i + 1
          /\ \A j \in 1..(i + 1) : (front \o <<s>>)[j] = IF j <= i THEN buf[j] ELSE s
      BY <3>1, <3>3 DEF front
    <3>5. /\ (front \o <<s>>) \o back \in Seq(Seg)
          /\ Len((front \o <<s>>) \o back) = Len(buf) + 1
          /\ \A j \in 1..(Len(buf) + 1) : ((front \o <<s>>) \o back)[j] =
               IF j <= i + 1 THEN (front \o <<s>>)[j] ELSE back[j - (i + 1)]
      <4>1. back \in Seq(Seg) /\ Len(back) = Len(buf) - i /\ front \o <<s>> \in Seq(Seg)
        BY <3>2, <3>4 DEF back
      <4>2. QED
        BY <1>1, <3>4, <4>1, ConcatProperties
    <3>6. ASSUME NEW j \in 1..(Len(buf) + 1)
          PROVE  ((front \o <<s>>) \o back)[j] =
                   IF j <= i THEN buf[j] ELSE IF j = i + 1 THEN s ELSE buf[j - 1]
      <4>1. CASE j <= i + 1
        BY <1>1, <3>4, <3>5, <4>1
      <4>2. CASE j > i + 1
        <5>1. j - (i + 1) \in 1..(Len(buf) - i) /\ i + (j - (i + 1)) = j - 1
          BY <1>1, <4>2
        <5>2. back[j - (i + 1)] = buf[j - 1]
          BY <3>2, <5>1 DEF back
        <5>3. ~(j <= i + 1) /\ ~(j <= i) /\ j # i + 1
          BY <1>1, <4>2
        <5>4. ((front \o <<s>>) \o back)[j] = back[j - (i + 1)]
          BY <3>5, <5>3, Zenon
        <5>5. QED
          BY <5>2, <5>3, <5>4, Zenon
      <4>3. j <= i + 1 \/ j > i + 1
        BY <1>1
      <4>4. QED
        BY <4>1, <4>2, <4>3, Zenon
    <3>7. QED
      BY <3>5, <3>6 DEF front, back
  <2> HIDE DEF new
  <2>3. \A j \in 1..i : buf[j].sn < s.sn
    <3>1. ASSUME NEW j \in 1..i PROVE buf[j].sn < s.sn
      <4>1. i \in 1..Len(buf) /\ j \in 1..Len(buf) /\ buf[i].sn < s.sn
        BY <1>1, <1>2, <1>4
      <4>2. j < i => buf[j].sn < buf[i].sn
        BY <4>1 DEF Sorted
      <4>3. QED
        BY <1>1, <4>1, <4>2
    <3>2. QED
      BY <3>1
  <2>4. ASSUME NEW j \in 1..Len(new), NEW k \in 1..Len(new), j < k
        PROVE  new[j].sn < new[k].sn
    <3>1. CASE k <= i
      BY <1>1, <2>2, <2>4, <3>1 DEF Sorted
    <3>2. CASE k = i + 1
      BY <1>1, <2>2, <2>3, <2>4, <3>2
    <3>3. CASE k > i + 1 /\ j = i + 1
      <4>1. k - 1 \in (i + 1)..Len(buf) /\ new[k] = buf[k - 1] /\ new[j] = s
        BY <1>1, <2>2, <3>3
      <4>2. QED
        BY <1>2, <4>1
    <3>4. CASE k > i + 1 /\ j # i + 1
      <4>1. PICK l \in 1..Len(buf) : l < k - 1 /\ new[j] = buf[l]
        <5>1. CASE j <= i
          BY <1>1, <2>2, <2>4, <3>4, <5>1
        <5>2. CASE j > i + 1
          <6>1. j - 1 \in 1..Len(buf) /\ j - 1 < k - 1 /\ new[j] = buf[j - 1]
            BY <1>1, <2>2, <2>4, <5>2
          <6>2. QED
            BY <6>1
        <5>3. QED
          BY <3>4, <5>1, <5>2
      <4>2. k - 1 \in 1..Len(buf) /\ new[k] = buf[k - 1]
        BY <1>1, <2>2, <3>4
      <4>3. QED
        BY <4>1, <4>2 DEF Sorted
    <3>5. QED
      BY <1>1, <3>1, <3>2, <3>3, <3>4
  <2>5. Range(new) = Range(buf) \cup {s}
    <3>1. Range(new) = {new[j] : j \in 1..Len(new)} /\ Range(buf) = {buf[j] : j \in 1..Len(buf)}
      BY <2>2, RangeEquality
    <3>2. ASSUME NEW j \in 1..Len(buf) PROVE buf[j] \in Range(new)
      <4>1. CASE j <= i
        <5>1. j \in 1..Len(new) /\ new[j] = buf[j]
          BY <1>1, <2>2, <4>1
        <5>2. QED
          BY <3>1, <5>1
      <4>2. CASE j > i
        <5>1. j + 1 \in 1..Len(new) /\ new[j + 1] = buf[j]
          BY <1>1, <2>2, <4>2
        <5>2. QED
          BY <3>1, <5>1
      <4>3. QED
        BY <4>1, <4>2
    <3>3. s \in Range(new)
      <4>1. i + 1 \in 1..Len(new) /\ new[i + 1] = s
        BY <1>1, <2>2
      <4>2. QED
        BY <3>1, <4>1
    <3>4. ASSUME NEW j \in 1..Len(new) PROVE new[j] \in Range(buf) \cup {s}
      <4>1. CASE j <= i
        BY <1>1, <2>2, <3>1, <4>1
      <4>2. CASE j > i + 1
        <5>1. j - 1 \in 1..Len(buf) /\ new[j] = buf[j - 1]
          BY <1>1, <2>2, <4>2
        <5>2. QED
          BY <3>1, <5>1
      <4>3. CASE j = i + 1
        BY <2>2, <4>3
      <4>4. QED
        BY <4>1, <4>2, <4>3
    <3>5. QED
      BY <3>1, <3>2, <3>3, <3>4
  <2>6. QED
    BY <2>1, <2>2, <2>4, <2>5 DEF Sorted, Sns
<1>5. QED
  BY <1>3, <1>4

\* The front of a sorted rcvBuf: what follows rcvNxt without a gap comes first,
\* so that the segment after it, if it is there at all, is the next one.
LEMMA ReadySegments ==
  ASSUME NEW buf \in Seq(Seg), Sorted(buf), NEW next \in Nat,
         \A s \in Range(buf) : next <= s.sn,
         NEW c \in 0..Len(buf), \A i \in 1..c : buf[i].sn = next + i - 1
  PROVE  /\ Range(SubSeq(buf, c + 1, Len(buf))) = {s \in Range(buf) : s.sn >= next + c}
         /\ next + c \in Sns(Range(buf)) => c < Len(buf) /\ buf[c + 1].sn = next + c
<1> DEFINE rest == SubSeq(buf, c + 1, Len(buf))
<1>1. /\ Len(buf) \in Nat
      /\ \A j \in 1..Len(buf) : buf[j] \in Seg /\ buf[j].sn \in Nat /\ next <= buf[j].sn
  <2>1. Len(buf) \in Nat /\ \A j \in 1..Len(buf) : buf[j] \in Seg /\ buf[j] \in Range(buf)
    BY RangeEquality
  <2>2. \A t \in Seg : t.sn \in Nat
    BY DEF Seg
  <2>3. QED
    BY <2>1, <2>2
<1>2. Range(buf) = {buf[j] : j \in 1..Len(buf)}
  BY RangeEquality
<1>3. /\ rest \in Seq(Seg) /\ Len(rest) = Len(buf) - c
      /\ \A j \in 1..(Len(buf) - c) : rest[j] = buf[c + j]
  OBVIOUS
<1> HIDE DEF rest
<1>4. Range(rest) = {rest[j] : j \in 1..Len(rest)}
  BY <1>3, RangeEquality
<1>5. ASSUME NEW j \in (c + 1)..Len(buf) PROVE buf[j].sn >= next + c
  <2>1. CASE c = 0
    BY <1>1, <2>1
  <2>2. CASE c > 0
    <3>1. c \in 1..Len(buf) /\ j \in 1..Len(buf) /\ buf[c].sn = next + c - 1
      BY <1>1, <2>2
    <3>2. buf[c].sn < buf[j].sn
      BY <3>1 DEF Sorted
    <3>3. QED
      BY <1>1, <3>1, <3>2
  <2>3. QED
    BY <2>1, <2>2
<1>6. Range(rest) = {s \in Range(buf) : s.sn >= next + c}
  <2>1. ASSUME NEW j \in 1..Len(rest)
        PROVE  rest[j] \in Range(buf) /\ rest[j].sn >= next + c
    <3>1. c + j \in (c + 1)..Len(buf) /\ c + j \in 1..Len(buf) /\ rest[j] = buf[c + j]
      BY <1>1, <1>3
    <3>2. QED
      BY <1>2, <1>5, <3>1
  <2>2. ASSUME NEW j \in 1..Len(buf), buf[j].sn >= next + c
        PROVE  buf[j] \in Range(rest)
    <3>1. j > c
      BY <1>1, <2>2
    <3>2. j - c \in 1..Len(rest) /\ rest[j - c] = buf[j]
      BY <1>1, <1>3, <3>1
    <3>3. QED
      BY <1>4, <3>2
  <2>3. QED
    BY <1>2, <1>4, <2>1, <2>2
<1>7. ASSUME next + c \in Sns(Range(buf)) PROVE c < Len(buf) /\ buf[c + 1].sn = next + c
  <2>1. PICK j \in 1..Len(buf) : buf[j].sn = next + c
    BY <1>2, <1>7 DEF Sns
  <2>2. j > c
    BY <1>1, <2>1
  <2>3. c + 1 \in 1..Len(buf) /\ buf[c + 1].sn >= next + c
    BY <1>1, <1>5, <2>2
  <2>4. j > c + 1 => buf[c + 1].sn < buf[j].sn
    BY <2>3 DEF Sorted
  <2>5. QED
    BY <1>1, <2>1, <2>2, <2>3, <2>4
<1>8. QED
  BY <1>6, <1>7 DEF rest

\* The receiving half of n after the first c segments of buf moved behind queue.
Moved(n, queue, buf, c) ==
  /\ rcvNxt' = [rcvNxt EXCEPT ![n] = @ + c]
  /\ rcvBuf' = [rcvBuf EXCEPT ![n] = rcvBuf'[n]]
  /\ rcvBuf'[n] \in Seq(Seg) /\ Sorted(rcvBuf'[n])
  /\ Range(rcvBuf'[n]) = {s \in Range(buf) : s.sn >= rcvNxt[n] + c}
  /\ rcvQueue' = [rcvQueue EXCEPT ![n] = rcvQueue'[n]] /\ rcvQueue'[n] \in Seq(Nat)
  /\ Len(rcvQueue'[n]) = Len(queue) + c
  /\ \A i \in 1..Len(queue) : rcvQueue'[n][i] = queue[i]
  /\ \A i \in 1..c : rcvQueue'[n][Len(queue) + i] = rcvNxt[n] + i
  /\ rcvNxt[n] + c <= sndNxt[Peer(n)]
  /\ c > 0 => Len(queue) + c <= rcvWnd[n]
  /\ rcvNxt[n] + c \in Sns(Range(buf)) => Len(queue) + c >= rcvWnd[n]

\* What the transfer from rcvBuf to rcvQueue does.
LEMMA MoveReadyProps ==
  ASSUME TypeOK, NEW n \in Node, NEW queue \in Seq(Nat), NEW buf \in Seq(Seg),
         NEW c \in 0..Len(buf), MoveReady(n, queue, buf, c),
         Sorted(buf), Carried(Range(buf), Peer(n)), \A s \in Range(buf) : rcvNxt[n] <= s.sn,
         rcvNxt[n] <= sndNxt[Peer(n)]
  PROVE  Moved(n, queue, buf, c)
<1> DEFINE tail == [i \in 1..c |-> buf[i].data]
           rest == SubSeq(buf, c + 1, Len(buf))
<1>1. /\ rcvNxt[n] \in Nat /\ sndNxt[Peer(n)] \in Nat /\ rcvWnd[n] \in Nat
      /\ rcvQueue \in [Node -> Seq(Nat)] /\ rcvBuf \in [Node -> Seq(Seg)]
      /\ Len(buf) \in Nat /\ Len(queue) \in Nat /\ c \in Nat
  <2>1. Len(buf) \in Nat /\ Len(queue) \in Nat /\ c \in Nat
    OBVIOUS
  <2>2. QED
    BY <2>1, PeerProps DEF TypeOK
<1>2. /\ \A i \in 0..c : i < c <=> /\ i < Len(buf) /\ buf[i + 1].sn = rcvNxt[n] + i
                                   /\ Len(queue) + i < rcvWnd[n]
      /\ rcvQueue' = [rcvQueue EXCEPT ![n] = queue \o tail]
      /\ rcvBuf' = [rcvBuf EXCEPT ![n] = rest]
      /\ rcvNxt' = [rcvNxt EXCEPT ![n] = @ + c]
  BY Zenon DEF MoveReady
<1>3. \A i \in 1..Len(buf) : buf[i] \in Range(buf) /\ buf[i] \in Seg
  BY RangeEquality
<1>4. ASSUME NEW i \in 1..c
      PROVE  /\ buf[i].sn = rcvNxt[n] + i - 1 /\ buf[i].data = rcvNxt[n] + i
             /\ rcvNxt[n] + i <= sndNxt[Peer(n)] /\ Len(queue) + i <= rcvWnd[n]
  <2>1. /\ i - 1 \in 0..c /\ i - 1 < c /\ (i - 1) + 1 = i /\ i \in 1..Len(buf)
        /\ rcvNxt[n] + (i - 1) = rcvNxt[n] + i - 1
    BY <1>1
  <2>2. buf[i].sn = rcvNxt[n] + i - 1 /\ Len(queue) + (i - 1) < rcvWnd[n]
    BY <1>2, <2>1
  <2>3. buf[i].data = buf[i].sn + 1 /\ buf[i].sn < sndNxt[Peer(n)]
    BY <1>3, <2>1 DEF Carried
  <2>4. QED
    BY <1>1, <2>2, <2>3
<1>5. rest \in Seq(Seg) /\ Sorted(rest)
  <2>1. /\ rest \in Seq(Seg) /\ Len(rest) = Len(buf) - c
        /\ \A j \in 1..(Len(buf) - c) : rest[j] = buf[c + j]
    OBVIOUS
  <2> HIDE DEF rest
  <2>2. ASSUME NEW j \in 1..Len(rest), NEW k \in 1..Len(rest), j < k
        PROVE  rest[j].sn < rest[k].sn
    <3>1. c + j \in 1..Len(buf) /\ c + k \in 1..Len(buf) /\ c + j < c + k
      BY <1>1, <2>1, <2>2
    <3>2. buf[c + j].sn < buf[c + k].sn
      BY <3>1 DEF Sorted
    <3>3. QED
      BY <2>1, <2>2, <3>2
  <2>3. QED
    BY <2>1, <2>2 DEF Sorted
<1>6. /\ Range(rest) = {s \in Range(buf) : s.sn >= rcvNxt[n] + c}
      /\ rcvNxt[n] + c \in Sns(Range(buf)) => c < Len(buf) /\ buf[c + 1].sn = rcvNxt[n] + c
  <2>1. \A i \in 1..c : buf[i].sn = rcvNxt[n] + i - 1
    BY <1>4
  <2>2. QED
    BY <1>1, <2>1, ReadySegments
<1>7. \A i \in 1..c : tail[i] = rcvNxt[n] + i
  BY <1>4
<1>8. tail \in Seq(Nat) /\ Len(tail) = c
  <2>1. \A i \in 1..c : tail[i] \in Nat
    BY <1>1, <1>7
  <2>2. tail \in [1..c -> Nat]
    BY <2>1
  <2>3. QED
    BY <2>2, <1>1
<1> HIDE DEF tail, rest
<1>9. /\ queue \o tail \in Seq(Nat) /\ Len(queue \o tail) = Len(queue) + c
      /\ \A i \in 1..Len(queue) : (queue \o tail)[i] = queue[i]
      /\ \A i \in 1..c : (queue \o tail)[Len(queue) + i] = tail[i]
  <2>1. /\ queue \o tail \in Seq(Nat) /\ Len(queue \o tail) = Len(queue) + c
        /\ \A i \in 1..(Len(queue) + c) : (queue \o tail)[i] =
             IF i <= Len(queue) THEN queue[i] ELSE tail[i - Len(queue)]
    BY <1>8, ConcatProperties
  <2>2. ASSUME NEW i \in 1..c PROVE (queue \o tail)[Len(queue) + i] = tail[i]
    <3>1. /\ Len(queue) + i \in 1..(Len(queue) + c) /\ (Len(queue) + i) - Len(queue) = i
          /\ ~(Len(queue) + i <= Len(queue))
      BY <1>1
    <3>2. QED
      BY <2>1, <3>1
  <2>3. QED
    BY <1>1, <2>1, <2>2
<1>10. /\ rcvNxt[n] + c <= sndNxt[Peer(n)]
       /\ c > 0 => Len(queue) + c <= rcvWnd[n]
  <2>1. CASE c = 0
    BY <2>1, <1>1
  <2>2. CASE c > 0
    <3>1. c \in 1..c
      BY <1>1, <2>2
    <3>2. QED
      BY <1>4, <3>1
  <2>3. QED
    BY <1>1, <2>1, <2>2
<1>11. ASSUME rcvNxt[n] + c \in Sns(Range(buf)) PROVE Len(queue) + c >= rcvWnd[n]
  <2>1. c < Len(buf) /\ buf[c + 1].sn = rcvNxt[n] + c
    BY <1>6, <1>11
  <2>2. c \in 0..c /\ ~(c < c)
    BY <1>1
  <2>3. ~(Len(queue) + c < rcvWnd[n])
    BY <1>2, <2>1, <2>2
  <2>4. QED
    BY <1>1, <2>3
<1>12. rcvQueue'[n] = queue \o tail /\ rcvBuf'[n] = rest
  BY <1>1, <1>2
<1>13. QED
  BY <1>1, <1>2, <1>5, <1>6, <1>7, <1>9, <1>10, <1>11, <1>12 DEF Moved

\* Receive and parseData: whoever moves segments to the queue keeps the
\* invariant, given that queue and read together are the payloads below rcvNxt.
LEMMA ReceiveStep ==
  ASSUME IInv, NEW n \in Node, NEW queue \in Seq(Nat), NEW buf \in Seq(Seg),
         NEW c \in 0..Len(buf), MoveReady(n, queue, buf, c),
         Sorted(buf), Carried(Range(buf), Peer(n)),
         Stored(n) \subseteq Range(buf), \A s \in Range(buf) : rcvNxt[n] <= s.sn,
         read'[n] \in Seq(Nat), read' = [read EXCEPT ![n] = read'[n]],
         rcvNxt[n] = Len(read'[n]) + Len(queue),
         \A i \in 1..Len(read'[n]) : read'[n][i] = i,
         \A i \in 1..Len(queue) : queue[i] = Len(read'[n]) + i,
         ackList'[n] \in SUBSET Nat, ackList' = [ackList EXCEPT ![n] = ackList'[n]],
         \A x \in ackList'[n] : x \in ackList[n] \/ x \in Sns(Range(buf)),
         inp' \in [Node -> [busy : BOOLEAN, push : SUBSET Seg, slid : BOOLEAN]],
         \A m \in Node : inp'[m].push \subseteq inp[m].push,
         tell' \in [Node -> BOOLEAN],
         UNCHANGED <<sndVars, wndVars, rmtWnd, probeWait, net, written>>
  PROVE  IInv'
<1> DEFINE p == Peer(n)
<1>1. TypeOK /\ ReceiveSide(n) /\ p \in Node /\ p # n /\ Peer(p) = n /\ \A m \in Node : m = n \/ m = p
  BY PeerProps DEF IInv
<1> HIDE DEF p
<1>2. /\ rcvNxt[n] \in Nat /\ sndNxt[p] \in Nat /\ sndUna[p] \in Nat
      /\ rcvNxt[n] <= sndNxt[p] /\ sndUna[p] <= rcvNxt[n]
  BY <1>1 DEF ReceiveSide, p, TypeOK
<1>3. /\ rcvNxt' = [rcvNxt EXCEPT ![n] = @ + c]
      /\ rcvBuf' = [rcvBuf EXCEPT ![n] = rcvBuf'[n]]
      /\ rcvBuf'[n] \in Seq(Seg) /\ Sorted(rcvBuf'[n])
      /\ Range(rcvBuf'[n]) = {s \in Range(buf) : s.sn >= rcvNxt[n] + c}
      /\ rcvQueue' = [rcvQueue EXCEPT ![n] = rcvQueue'[n]] /\ rcvQueue'[n] \in Seq(Nat)
      /\ Len(rcvQueue'[n]) = Len(queue) + c
      /\ \A i \in 1..Len(queue) : rcvQueue'[n][i] = queue[i]
      /\ \A i \in 1..c : rcvQueue'[n][Len(queue) + i] = rcvNxt[n] + i
      /\ rcvNxt[n] + c <= sndNxt[p]
  <2>1. rcvNxt[n] <= sndNxt[Peer(n)] /\ sndNxt[p] = sndNxt[Peer(n)]
    BY <1>2 DEF p
  <2>2. Moved(n, queue, buf, c)
    BY <1>1, <2>1, MoveReadyProps
  <2>3. QED
    BY <2>1, <2>2, Zenon DEF Moved
<1>4. TypeOK'
  <2>1. rcvNxt' \in [Node -> Nat]
    <3>1. rcvNxt \in [Node -> Nat] /\ rcvNxt' = [rcvNxt EXCEPT ![n] = @ + c]
      BY <1>1, <1>3 DEF TypeOK
    <3>2. QED
      BY <3>1
  <2>1a. rcvQueue' \in [Node -> Seq(Nat)]
    <3>1. rcvQueue \in [Node -> Seq(Nat)]
      BY <1>1 DEF TypeOK
    <3>2. QED
      BY <3>1, <1>3
  <2>2. rcvBuf' \in [Node -> Seq(Seg)]
    BY <1>1, <1>3 DEF TypeOK
  <2>3. ackList' \in [Node -> SUBSET Nat] /\ read' \in [Node -> Seq(Nat)]
    BY <1>1 DEF TypeOK
  <2>4. QED
    BY <1>1, <2>1, <2>1a, <2>2, <2>3 DEF TypeOK, sndVars, wndVars
<1>5. /\ rcvNxt'[n] = rcvNxt[n] + c /\ rcvNxt'[p] = rcvNxt[p]
      /\ Stored(n)' = {s \in Range(buf) : s.sn >= rcvNxt[n] + c} /\ Stored(p)' = Stored(p)
      /\ rcvBuf'[p] = rcvBuf[p]
      /\ rcvQueue'[p] = rcvQueue[p] /\ ackList'[p] = ackList[p] /\ read'[p] = read[p]
      /\ rcvNxt[p] \in Nat
  BY <1>1, <1>3 DEF TypeOK, Stored
<1>6. \A x \in Nat : x \in Sns(Range(buf)) => Received(n, x)'
  BY <1>2, <1>5 DEF Received, Sns
<1>7. \A m \in Node : \A x \in Nat : Received(m, x) => Received(m, x)'
  <2>1. \A x \in Nat : Received(n, x) => Received(n, x)'
    <3>1. \A x \in Nat : x \in Sns(Stored(n)) => x \in Sns(Range(buf))
      BY DEF Sns
    <3>2. \A x \in Nat : x < rcvNxt[n] => x < rcvNxt'[n]
      BY <1>2, <1>5
    <3>3. QED
      BY <1>6, <3>1, <3>2 DEF Received
  <2>2. \A x \in Nat : Received(p, x) => Received(p, x)'
    BY <1>5 DEF Received
  <2>3. QED
    BY <1>1, <2>1, <2>2, ZenonT(60)
<1>8. ASSUME NEW m \in Node PROVE SendSide(m)'
  <2>1. SendSide(m) /\ Peer(m) \in Node
    BY PeerProps DEF IInv
  <2>2. \A s \in sndBuf[m] : s.sn \in Nat
    BY <1>1 DEF TypeOK, SndSeg
  <2>3. \A s \in sndBuf[m] : IF s.acked THEN Received(Peer(m), s.sn)' ELSE s.data = s.sn + 1
    BY <2>1, <2>2, <1>7 DEF SendSide
  <2>4. QED
    BY <2>1, <2>3 DEF SendSide, sndVars
<1>9. ReceiveSide(n)'
  <2>1. sndUna'[p] <= rcvNxt'[n] /\ rcvNxt'[n] <= sndNxt'[p]
    BY <1>2, <1>3, <1>5 DEF sndVars
  <2>2. rcvNxt'[n] = Len(read'[n]) + Len(rcvQueue'[n])
    <3>1. PICK r \in Nat, q \in Nat : r = Len(read'[n]) /\ q = Len(queue)
      OBVIOUS
    <3>2. Len(rcvQueue'[n]) = q + c /\ rcvNxt'[n] = rcvNxt[n] + c
      BY <1>3, <1>5, <3>1
    <3>3. rcvNxt'[n] = (r + q) + c
      BY <3>1, <3>2
    <3>4. rcvNxt'[n] = r + (q + c)
      BY <3>3
    <3>5. QED
      BY <3>1, <3>2, <3>4
  <2>3. ASSUME NEW i \in 1..Len(rcvQueue'[n]) PROVE rcvQueue'[n][i] = Len(read'[n]) + i
    <3>1. CASE i \in 1..Len(queue)
      BY <3>1, <1>3
    <3>2. CASE i \notin 1..Len(queue)
      <4>1. i - Len(queue) \in 1..c /\ i = Len(queue) + (i - Len(queue))
        BY <3>2, <1>3
      <4>2. rcvQueue'[n][i] = rcvNxt[n] + (i - Len(queue))
        BY <4>1, <1>3
      <4>3. QED
        BY <4>2, <4>1
    <3>3. QED
      BY <3>1, <3>2
  <2>4. Carried(Stored(n), p)' /\ Carried(inp[n].push, p)'
    BY <1>1, <1>5 DEF Carried, ReceiveSide, sndVars, p
  <2>5. \A s \in Stored(n)' : rcvNxt'[n] <= s.sn
    <3>1. \A s \in Range(buf) : s.sn \in Nat
      <4>1. Range(buf) \in SUBSET Seg
        BY RangeOfSeq
      <4>2. QED
        BY <4>1 DEF Seg
    <3>2. QED
      BY <3>1, <1>2, <1>5
  <2>6. \A x \in ackList'[n] : Received(n, x)'
    BY <1>1, <1>6, <1>7 DEF ReceiveSide
  <2>7. QED
    BY <1>3, <2>1, <2>2, <2>3, <2>4, <2>5, <2>6, Zenon DEF ReceiveSide, p
<1>10. ReceiveSide(p)'
  <2>1. ReceiveSide(p)
    BY <1>1 DEF IInv
  <2>2. Carried(Stored(p), Peer(p))' /\ Carried(inp[p].push, Peer(p))'
    BY <2>1, <1>1, <1>5 DEF Carried, ReceiveSide, sndVars
  <2>3. \A x \in ackList'[p] : Received(p, x)'
    BY <2>1, <1>1, <1>5, <1>7 DEF ReceiveSide, TypeOK
  <2>4. QED
    BY <2>1, <2>2, <2>3, <1>5 DEF ReceiveSide, sndVars
<1>11. Transit'
  <2>1. SUFFICES ASSUME NEW d \in net
                 PROVE  /\ d.una <= rcvNxt'[Peer(d.to)]
                        /\ \A x \in d.acks : Received(Peer(d.to), x)'
                        /\ Carried(d.push, Peer(d.to))'
    BY DEF Transit
  <2>2. /\ d.una \in Nat /\ d.acks \in SUBSET Nat /\ Peer(d.to) \in Node
    BY <1>1, PeerProps, ZenonT(60) DEF TypeOK, Datagram
  <2>3. /\ d.una <= rcvNxt[Peer(d.to)]
        /\ \A x \in d.acks : Received(Peer(d.to), x)
        /\ Carried(d.push, Peer(d.to))
    BY DEF IInv, Transit
  <2>4. rcvNxt[Peer(d.to)] <= rcvNxt'[Peer(d.to)] /\ rcvNxt[Peer(d.to)] \in Nat /\ rcvNxt'[Peer(d.to)] \in Nat
    <3>1. Peer(d.to) = n \/ Peer(d.to) = p
      BY <2>2, <1>1
    <3>2. QED
      BY <3>1, <1>2, <1>5
  <2>5. QED
    BY <2>2, <2>3, <2>4, <1>7 DEF Carried, sndVars
<1>12. Windows'
  <2>1. SUFFICES ASSUME NEW w \in RcvSizes, WndBound(w)
                 PROVE  \A m \in Node : sndNxt[m] <= rcvNxt'[Peer(m)] + w
    BY DEF Windows, IInv, WndBound, sndVars, wndVars
  <2>2. w \in Nat /\ \A m \in Node : sndNxt[m] \in Nat /\ sndNxt[m] <= rcvNxt[Peer(m)] + w
    BY <2>1, <1>1, RcvSizesProps DEF IInv, Windows, TypeOK
  <2>3. sndNxt[p] <= rcvNxt'[Peer(p)] + w
    BY <2>2, <1>1, <1>2, <1>5
  <2>4. sndNxt[n] <= rcvNxt'[Peer(n)] + w
    BY <2>2, <1>1, <1>2, <1>5 DEF p
  <2>5. QED
    BY <2>3, <2>4, <1>1
<1>13. QED
  BY <1>1, <1>4, <1>8, <1>9, <1>10, <1>11, <1>12 DEF IInv
-----------------------------------------------------------------------------
(* Input                                                                   *)

\* updateSndUna on a sndBuf that holds one interval finds its lower end.
LEMMA FirstSnProps ==
  ASSUME NEW buf, NEW lo \in Nat, NEW next \in Nat, lo <= next, Sns(buf) = lo..(next - 1)
  PROVE  FirstSn(buf, next) = lo
<1>1. CASE buf = {}
  <2>1. Sns(buf) = {}
    BY <1>1 DEF Sns
  <2>2. lo \notin lo..(next - 1)
    BY <2>1
  <2>3. QED
    BY <1>1, <2>2 DEF FirstSn
<1>2. CASE buf # {}
  <2>1. Sns(buf) # {}
    BY <1>2 DEF Sns
  <2>2. lo \in Sns(buf) /\ \A v \in Sns(buf) : lo <= v
    BY <2>1
  <2>3. \A u \in Sns(buf) : (\A v \in Sns(buf) : u <= v) => u = lo
    BY <2>2
  <2>4. QED
    BY <1>2, <2>2, <2>3 DEF FirstSn
<1>3. QED
  BY <1>1, <1>2

\* parseAck touches nothing but the segments the acks name.
LEMMA ParseAcksProps ==
  ASSUME NEW buf \in SUBSET SndSeg, NEW acks, NEW una, NEW next
  PROVE  /\ ParseAcks(buf, acks, una, next) \subseteq SndSeg
         /\ Sns(ParseAcks(buf, acks, una, next)) = Sns(buf)
         /\ \A t \in ParseAcks(buf, acks, una, next) :
              t \in buf \/ (t.acked /\ t.sn \in acks)
<1> DEFINE valid == {a \in acks : una <= a /\ a < next}
           mark(s) == IF s.sn \in valid THEN [sn |-> s.sn, data |-> 0, acked |-> TRUE] ELSE s
<1>1. ParseAcks(buf, acks, una, next) = {mark(s) : s \in buf}
  BY DEF ParseAcks
<1>2. ASSUME NEW s \in buf
      PROVE  /\ mark(s) \in SndSeg /\ mark(s).sn = s.sn
             /\ mark(s) \in buf \/ (mark(s).acked /\ mark(s).sn \in acks)
  BY DEF SndSeg
<1> HIDE DEF mark
<1>3. Sns({mark(s) : s \in buf}) = Sns(buf)
  BY <1>2 DEF Sns
<1>4. QED
  BY <1>1, <1>2, <1>3

\* The first half of Input keeps the invariant: una releases what the peer has in
\* order, and an ack marks a segment the peer holds.
LEMMA InputBeginStep ==
  ASSUME IInv, NEW n \in Node, NEW d \in net, InputBegin(n, d)
  PROVE  IInv'
<1> DEFINE p == Peer(n)
           kept == {s \in sndBuf[n] : s.sn >= d.una}
           una == FirstSn(kept, sndNxt[n])
           buf == ParseAcks(kept, d.acks, una, sndNxt[n])
           lo == IF sndUna[n] <= d.una THEN d.una ELSE sndUna[n]
<1>1. /\ TypeOK /\ SendSide(n) /\ ReceiveSide(p)
      /\ p \in Node /\ p # n /\ Peer(p) = n /\ \A m \in Node : m = n \/ m = p
  BY PeerProps DEF IInv
<1>2. /\ d.to = n /\ d \in Datagram /\ net' \subseteq net
      /\ rmtWnd' = [rmtWnd EXCEPT ![n] = d.wnd]
      /\ sndUna' = [sndUna EXCEPT ![n] = una]
      /\ sndBuf' = [sndBuf EXCEPT ![n] = buf]
      /\ inp' = [inp EXCEPT ![n] = [busy |-> TRUE, push |-> d.push, slid |-> kept # sndBuf[n]]]
      /\ tell' = [tell EXCEPT ![n] = @ \/ d.ask]
      /\ UNCHANGED <<sndQueue, sndNxt, rcvVars, ackList, wndVars, probeWait, hist>>
  BY <1>1 DEF InputBegin, TypeOK
<1>3. /\ sndNxt[n] \in Nat /\ sndUna[n] \in Nat /\ rcvNxt[p] \in Nat
      /\ d.una \in Nat /\ d.wnd \in Nat /\ d.acks \in SUBSET Nat /\ d.push \in SUBSET Seg
      /\ kept \in SUBSET SndSeg
  BY <1>1, <1>2 DEF TypeOK, Datagram
<1>4. /\ d.una <= rcvNxt[p] /\ Carried(d.push, p)
      /\ \A x \in d.acks : Received(p, x)
  BY <1>2 DEF IInv, Transit
<1>5. /\ sndUna[n] <= rcvNxt[p] /\ rcvNxt[p] <= sndNxt[n] /\ sndUna[n] <= sndNxt[n]
      /\ Sns(sndBuf[n]) = sndUna[n]..(sndNxt[n] - 1)
  BY <1>1 DEF ReceiveSide, SendSide
<1>6. lo \in Nat /\ sndUna[n] <= lo /\ lo <= rcvNxt[p] /\ lo <= sndNxt[n]
  BY <1>3, <1>4, <1>5
<1>7. Sns(kept) = lo..(sndNxt[n] - 1)
  <2>1. Sns(kept) = {x \in Sns(sndBuf[n]) : x >= d.una}
    BY DEF Sns
  <2>2. ASSUME NEW x
        PROVE  (x \in sndUna[n]..(sndNxt[n] - 1) /\ x >= d.una) <=> x \in lo..(sndNxt[n] - 1)
    BY <1>3
  <2>3. QED
    BY <2>1, <2>2, <1>5
<1> HIDE DEF lo, kept, p
<1>8. una = lo
  BY <1>3, <1>6, <1>7, FirstSnProps
<1> HIDE DEF una
<1>9. /\ buf \subseteq SndSeg /\ Sns(buf) = lo..(sndNxt[n] - 1)
      /\ \A t \in buf : t \in kept \/ (t.acked /\ t.sn \in d.acks)
  BY <1>3, <1>7, ParseAcksProps
<1> HIDE DEF buf
<1>10. TypeOK'
  <2>1. sndUna' \in [Node -> Nat] /\ rmtWnd' \in [Node -> Nat]
    BY <1>1, <1>2, <1>3, <1>6, <1>8 DEF TypeOK
  <2>2. sndBuf' \in [Node -> SUBSET SndSeg]
    <3>1. sndBuf \in [Node -> SUBSET SndSeg]
      BY <1>1 DEF TypeOK
    <3>2. QED
      BY <3>1, <1>2, <1>9
  <2>3. inp' \in [Node -> [busy : BOOLEAN, push : SUBSET Seg, slid : BOOLEAN]]
    <3>1. inp \in [Node -> [busy : BOOLEAN, push : SUBSET Seg, slid : BOOLEAN]]
      BY <1>1 DEF TypeOK
    <3>2. QED
      BY <3>1, <1>2, <1>3
  <2>4. tell' \in [Node -> BOOLEAN]
    <3>1. tell \in [Node -> BOOLEAN] /\ d.ask \in BOOLEAN
      BY <1>1, <1>2 DEF TypeOK, Datagram
    <3>2. QED
      BY <3>1, <1>2, Zenon
  <2>5. net' \in SUBSET Datagram
    BY <1>1, <1>2 DEF TypeOK
  <2>6. QED
    BY <1>1, <1>2, <2>1, <2>2, <2>3, <2>4, <2>5 DEF TypeOK, rcvVars, wndVars, hist
<1>11. \A m \in Node : \A x : Received(m, x)' <=> Received(m, x)
  BY <1>2 DEF Received, Stored, rcvVars
<1>12. /\ sndUna'[n] = lo /\ sndBuf'[n] = buf /\ inp'[n].push = d.push
       /\ sndUna'[p] = sndUna[p] /\ sndBuf'[p] = sndBuf[p] /\ inp'[p] = inp[p]
       /\ rmtWnd'[n] = d.wnd /\ rmtWnd'[p] = rmtWnd[p]
  BY <1>1, <1>2, <1>8 DEF TypeOK
<1>13. SendSide(n)'
  <2>1. \A s \in buf : IF s.acked THEN Received(p, s.sn)' ELSE s.data = s.sn + 1
    <3>1. ASSUME NEW s \in buf, s \in kept
          PROVE  IF s.acked THEN Received(p, s.sn)' ELSE s.data = s.sn + 1
      <4>1. s \in sndBuf[n]
        BY <3>1 DEF kept
      <4>2. QED
        BY <4>1, <1>1, <1>11 DEF SendSide, p
    <3>2. ASSUME NEW s \in buf, s.acked, s.sn \in d.acks
          PROVE  Received(p, s.sn)'
      BY <3>2, <1>1, <1>4, <1>11
    <3>3. QED
      BY <3>1, <3>2, <1>9
  <2>2. QED
    BY <2>1, <1>1, <1>2, <1>6, <1>9, <1>12 DEF SendSide, hist, p
<1>14. SendSide(p)'
  <2>1. SendSide(p)
    BY <1>1 DEF IInv
  <2>2. QED
    BY <2>1, <1>1, <1>2, <1>11, <1>12 DEF SendSide, hist
<1>15. ReceiveSide(n)'
  <2>1. ReceiveSide(n)
    BY DEF IInv
  <2>2. Carried(Stored(n), p)' /\ Carried(inp[n].push, p)'
    BY <2>1, <1>2, <1>4, <1>12 DEF ReceiveSide, Carried, Stored, rcvVars, p
  <2>3. \A x \in ackList'[n] : Received(n, x)'
    BY <2>1, <1>2, <1>11 DEF ReceiveSide
  <2>4. QED
    BY <2>1, <2>2, <2>3, <1>2, <1>12 DEF ReceiveSide, Stored, rcvVars, hist, p
<1>16. ReceiveSide(p)'
  <2>1. Carried(Stored(p), n)' /\ Carried(inp[p].push, n)'
    BY <1>1, <1>2, <1>12 DEF ReceiveSide, Carried, Stored, rcvVars
  <2>2. \A x \in ackList'[p] : Received(p, x)'
    BY <1>1, <1>2, <1>11 DEF ReceiveSide
  <2>3. QED
    BY <2>1, <2>2, <1>1, <1>2, <1>6, <1>12 DEF ReceiveSide, Stored, rcvVars, hist
<1>17. Transit'
  <2>1. SUFFICES ASSUME NEW e \in net'
                 PROVE  /\ e.una <= rcvNxt'[Peer(e.to)]
                        /\ \A x \in e.acks : Received(Peer(e.to), x)'
                        /\ Carried(e.push, Peer(e.to))'
    BY DEF Transit
  <2>2. /\ e \in net /\ Peer(e.to) \in Node
    BY <1>1, <1>2, PeerProps DEF TypeOK, Datagram
  <2>3. /\ e.una <= rcvNxt[Peer(e.to)]
        /\ \A x \in e.acks : Received(Peer(e.to), x)
        /\ Carried(e.push, Peer(e.to))
    BY <2>2 DEF IInv, Transit
  <2>4. QED
    BY <2>2, <2>3, <1>2, <1>11 DEF Carried, rcvVars
<1>18. Windows'
  <2>1. SUFFICES ASSUME NEW w \in RcvSizes, WndBound(w)
                 PROVE  \A m \in Node : rmtWnd'[m] <= w
    BY <1>2 DEF Windows, IInv, WndBound, rcvVars, wndVars
  <2>2. d.wnd <= w /\ rmtWnd[p] <= w
    BY <2>1, <1>1 DEF IInv, Windows
  <2>3. QED
    BY <2>2, <1>1, <1>12
<1>19. QED
  BY <1>1, <1>10, <1>13, <1>14, <1>15, <1>16, <1>17, <1>18 DEF IInv

\* A PUSH is dropped, acked again or stored; each keeps the invariant.
LEMMA InputPushStep ==
  ASSUME IInv, NEW n \in Node, InputPush(n)
  PROVE  IInv'
<1> DEFINE p == Peer(n)
<1>1. TypeOK /\ ReceiveSide(n) /\ \A m \in Node : ReceiveSide(m)
  BY DEF IInv
<1>2. PICK s \in inp[n].push :
        /\ inp' = [inp EXCEPT ![n].push = @ \ {s}]
        /\ \/ /\ s.sn >= rcvNxt[n] + rcvWnd[n]
              /\ UNCHANGED <<rcvVars, ackList>>
           \/ /\ s.sn < rcvNxt[n]
              /\ ackList' = [ackList EXCEPT ![n] = @ \cup {s.sn}]
              /\ UNCHANGED rcvVars
           \/ /\ rcvNxt[n] <= s.sn /\ s.sn < rcvNxt[n] + rcvWnd[n]
              /\ ackList' = [ackList EXCEPT ![n] = @ \cup {s.sn}]
              /\ \E i \in 0..Len(rcvBuf[n]) :
                   LET buf == Insert(rcvBuf[n], s, i)
                   IN  /\ Place(rcvBuf[n], s.sn, i)
                       /\ \E c \in 0..Len(buf) : MoveReady(n, rcvQueue[n], buf, c)
  BY DEF InputPush
<1>3. UNCHANGED <<sndVars, wndVars, rmtWnd, tell, probeWait, net, hist>>
  BY DEF InputPush
<1>4. /\ inp' \in [Node -> [busy : BOOLEAN, push : SUBSET Seg, slid : BOOLEAN]]
      /\ \A m \in Node : inp'[m].push \subseteq inp[m].push
  <2>1. inp \in [Node -> [busy : BOOLEAN, push : SUBSET Seg, slid : BOOLEAN]]
    BY <1>1 DEF TypeOK
  <2>2. QED
    BY <2>1, <1>2
<1>5. s \in Seg /\ s.sn \in Nat /\ s.sn < sndNxt[p] /\ s.data = s.sn + 1
  <2>1. inp[n].push \in SUBSET Seg /\ Carried(inp[n].push, p)
    BY <1>1 DEF TypeOK, ReceiveSide
  <2>2. QED
    BY <2>1 DEF Seg, Carried
<1>6. \A m \in Node : \A x \in ackList[m] : Received(m, x)
  BY <1>1 DEF ReceiveSide
<1>7. /\ rcvNxt[n] \in Nat /\ rcvWnd[n] \in Nat /\ rcvQueue[n] \in Seq(Nat) /\ rcvBuf[n] \in Seq(Seg)
      /\ read[n] \in Seq(Nat) /\ read \in [Node -> Seq(Nat)] /\ ackList \in [Node -> SUBSET Nat]
      /\ tell \in [Node -> BOOLEAN] /\ probeWait \in [Node -> BOOLEAN]
      /\ sndWnd \in [Node -> Nat \ {0}] /\ rcvWnd \in [Node -> Nat \ {0}]
  BY <1>1 DEF TypeOK
<1>8. CASE /\ s.sn >= rcvNxt[n] + rcvWnd[n]
           /\ UNCHANGED <<rcvVars, ackList>>
  <2>1. UNCHANGED <<sndVars, rcvVars, hist, rmtWnd>> /\ UNCHANGED <<ackList, tell, probeWait, net>>
    BY <1>3, <1>8
  <2>2. UNCHANGED <<sndWnd, rcvWnd>>
    BY <1>3 DEF wndVars
  <2>3. QED
    BY <1>4, <1>6, <1>7, <2>1, <2>2, QuietStep
<1>9. CASE /\ s.sn < rcvNxt[n]
           /\ ackList' = [ackList EXCEPT ![n] = @ \cup {s.sn}]
           /\ UNCHANGED rcvVars
  <2>1. ackList' \in [Node -> SUBSET Nat]
    BY <1>5, <1>7, <1>9
  <2>2. \A m \in Node : \A x \in ackList'[m] : Received(m, x)
    BY <1>6, <1>7, <1>9 DEF Received
  <2>3. QED
    BY <1>3, <1>4, <1>7, <1>9, <2>1, <2>2, QuietStep DEF wndVars
<1>10. CASE /\ rcvNxt[n] <= s.sn /\ s.sn < rcvNxt[n] + rcvWnd[n]
            /\ ackList' = [ackList EXCEPT ![n] = @ \cup {s.sn}]
            /\ \E i \in 0..Len(rcvBuf[n]) :
                 LET buf == Insert(rcvBuf[n], s, i)
                 IN  /\ Place(rcvBuf[n], s.sn, i)
                     /\ \E c \in 0..Len(buf) : MoveReady(n, rcvQueue[n], buf, c)
  <2>1. PICK at \in 0..Len(rcvBuf[n]) :
          /\ Place(rcvBuf[n], s.sn, at)
          /\ \E c \in 0..Len(Insert(rcvBuf[n], s, at)) :
               MoveReady(n, rcvQueue[n], Insert(rcvBuf[n], s, at), c)
    BY <1>10, Zenon
  <2> DEFINE buf == Insert(rcvBuf[n], s, at)
  <2>2. PICK c \in 0..Len(buf) : MoveReady(n, rcvQueue[n], buf, c)
    BY <2>1
  <2>3. /\ buf \in Seq(Seg) /\ Sorted(buf) /\ s.sn \in Sns(Range(buf))
        /\ Range(buf) = Stored(n) \/ Range(buf) = Stored(n) \cup {s}
    BY <1>1, <1>5, <1>7, <2>1, InsertProps DEF ReceiveSide, Stored
  <2> HIDE DEF buf
  <2>4. /\ Stored(n) \subseteq Range(buf)
        /\ Carried(Range(buf), Peer(n)) /\ \A t \in Range(buf) : rcvNxt[n] <= t.sn
    BY <1>1, <1>5, <1>10, <2>3 DEF ReceiveSide, Carried
  <2>5. /\ ackList'[n] \in SUBSET Nat /\ ackList' = [ackList EXCEPT ![n] = ackList'[n]]
        /\ \A x \in ackList'[n] : x \in ackList[n] \/ x \in Sns(Range(buf))
    BY <1>5, <1>7, <1>10, <2>3
  <2>6. /\ rcvNxt[n] = Len(read[n]) + Len(rcvQueue[n])
        /\ \A i \in 1..Len(read[n]) : read[n][i] = i
        /\ \A i \in 1..Len(rcvQueue[n]) : rcvQueue[n][i] = Len(read[n]) + i
    BY <1>1 DEF ReceiveSide
  <2>7. read' = read /\ read' = [read EXCEPT ![n] = read'[n]]
    BY <1>3, <1>7 DEF hist
  <2>8. QED
    BY <1>3, <1>4, <1>7, <2>2, <2>3, <2>4, <2>5, <2>6, <2>7, ReceiveStep DEF hist
<1>11. QED
  BY <1>2, <1>8, <1>9, <1>10
-----------------------------------------------------------------------------
(* The other critical sections                                             *)

\* The segments Write cuts continue the queue.
LEMMA WriteStep ==
  ASSUME IInv, NEW n \in Node, Write(n)
  PROVE  IInv'
<1>1. TypeOK /\ SendSide(n)
  BY DEF IInv
<1>2. PICK k \in 1..WriteBatch :
        LET queue == sndQueue[n] \o [i \in 1..k |-> written[n] + i]
            waiting == WaitSnd(n) + k
        IN  /\ written[n] + k <= MaxWrite[n]
            /\ written' = [written EXCEPT ![n] = @ + k]
            /\ \/ Flush(n, queue)
               \/ /\ waiting < sndWnd[n] /\ waiting < rmtWnd[n]
                  /\ sndQueue' = [sndQueue EXCEPT ![n] = queue]
                  /\ UNCHANGED <<sndBuf, sndUna, sndNxt, ackList, tell, probeWait, net>>
  BY DEF Write
<1> DEFINE more == [i \in 1..k |-> written[n] + i]
           queue == sndQueue[n] \o more
<1>3. UNCHANGED <<rcvVars, wndVars, rmtWnd, inp, read>>
  BY DEF Write
<1>4. /\ sndQueue[n] \in Seq(Nat) /\ written[n] \in Nat /\ sndNxt[n] \in Nat /\ k \in Nat
      /\ written[n] = sndNxt[n] + Len(sndQueue[n])
      /\ \A i \in 1..Len(sndQueue[n]) : sndQueue[n][i] = sndNxt[n] + i
  BY <1>1, BoundAssumption DEF TypeOK, SendSide
<1>5. more \in Seq(Nat) /\ Len(more) = k /\ \A i \in 1..k : more[i] = written[n] + i
  BY <1>4
<1> HIDE DEF more
<1>6. /\ queue \in Seq(Nat) /\ Len(queue) = Len(sndQueue[n]) + k /\ Len(sndQueue[n]) \in Nat
      /\ \A i \in 1..Len(queue) :
           queue[i] = IF i <= Len(sndQueue[n]) THEN sndQueue[n][i] ELSE more[i - Len(sndQueue[n])]
  <2>1. sndQueue[n] \in Seq(Nat) /\ more \in Seq(Nat) /\ Len(more) = k
    BY <1>4, <1>5
  <2>2. queue \in Seq(Nat) /\ Len(queue) = Len(sndQueue[n]) + Len(more)
    BY <2>1, ConcatProperties
  <2>3. \A i \in 1..(Len(sndQueue[n]) + Len(more)) :
           queue[i] = IF i <= Len(sndQueue[n]) THEN sndQueue[n][i] ELSE more[i - Len(sndQueue[n])]
    BY <2>1, ConcatProperties
  <2> HIDE DEF queue
  <2>4. Len(sndQueue[n]) \in Nat
    BY <2>1
  <2>5. QED
    BY <2>1, <2>2, <2>3, <2>4
<1>7. ASSUME NEW i \in 1..Len(queue) PROVE queue[i] = sndNxt[n] + i
  <2>1. CASE i <= Len(sndQueue[n])
    BY <2>1, <1>4, <1>6, SMTT(30)
  <2>2. CASE i > Len(sndQueue[n])
    <3>1. i - Len(sndQueue[n]) \in 1..k
      BY <2>2, <1>4, <1>6
    <3>2. queue[i] = more[i - Len(sndQueue[n])]
      BY <2>2, <1>6
    <3>3. QED
      BY <3>1, <3>2, <1>4, <1>5, <1>6
  <2>3. QED
    BY <2>1, <2>2, <1>6
<1>8. /\ written' = [written EXCEPT ![n] = @ + k]
      /\ written' = [written EXCEPT ![n] = sndNxt[n] + Len(queue)]
  <2>1. sndNxt[n] + Len(queue) = written[n] + k
    BY <1>4, <1>6
  <2>2. QED
    BY <1>2, <2>1
<1> HIDE DEF queue
<1>9. Following(n, queue)
  BY <1>6, <1>7 DEF Following
<1>10. CASE Flush(n, queue)
  <2>1. /\ inp' \in [Node -> [busy : BOOLEAN, push : SUBSET Seg, slid : BOOLEAN]]
        /\ \A m \in Node : inp'[m].push \subseteq inp[m].push
    BY <1>1, <1>3 DEF TypeOK
  <2>2. QED
    BY <1>3, <1>8, <1>9, <1>10, <2>1, FlushStep
<1>11. CASE /\ sndQueue' = [sndQueue EXCEPT ![n] = queue]
            /\ UNCHANGED <<sndBuf, sndUna, sndNxt, ackList, tell, probeWait, net>>
  <2>1. TypeOK'
    <3>1. sndQueue' \in [Node -> Seq(Nat)]
      BY <1>1, <1>6, <1>11 DEF TypeOK
    <3>2. written' \in [Node -> Nat]
      BY <1>1, <1>4, <1>8 DEF TypeOK
    <3>3. QED
      BY <1>1, <1>3, <1>11, <3>1, <3>2 DEF TypeOK, rcvVars, wndVars
  <2>2. \A m \in Node : \A x : Received(m, x)' <=> Received(m, x)
    BY <1>3 DEF Received, Stored, rcvVars
  <2>3. SendSide(n)'
    <3>1. sndQueue'[n] = queue /\ written'[n] = sndNxt[n] + Len(queue)
      BY <1>1, <1>8, <1>11 DEF TypeOK
    <3>2. QED
      BY <1>1, <1>7, <1>11, <2>2, <3>1, PeerProps DEF SendSide
  <2>4. \A m \in Node : m # n => SendSide(m)'
    <3>1. \A m \in Node : m # n => sndQueue'[m] = sndQueue[m] /\ written'[m] = written[m]
      BY <1>1, <1>8, <1>11 DEF TypeOK
    <3>2. QED
      BY <1>11, <2>2, <3>1, PeerProps DEF IInv, SendSide
  <2>5. \A m \in Node : ReceiveSide(m)'
    BY <1>3, <1>11, <2>2 DEF IInv, ReceiveSide, Carried, Stored, rcvVars
  <2>6. Transit' /\ Windows'
    BY <1>3, <1>11 DEF IInv, Transit, Windows, WndBound, Received, Stored, Carried, rcvVars,
                        wndVars
  <2>7. QED
    BY <2>1, <2>3, <2>4, <2>5, <2>6 DEF IInv
<1>12. QED
  BY <1>2, <1>10, <1>11 DEF queue, more

\* The queue of a flush that is not a Write's is the one at rest.
LEMMA QueueFollows ==
  ASSUME IInv, NEW n \in Node
  PROVE  /\ Following(n, sndQueue[n])
         /\ written = [written EXCEPT ![n] = sndNxt[n] + Len(sndQueue[n])]
BY DEF IInv, TypeOK, SendSide, Following

\* update: the periodic flush.
LEMMA UpdateStep ==
  ASSUME IInv, NEW n \in Node, Update(n)
  PROVE  IInv'
<1>1. TypeOK
  BY DEF IInv
<1>2. Flush(n, sndQueue[n]) /\ UNCHANGED <<rcvVars, wndVars, rmtWnd, inp, hist>>
  BY DEF Update
<1>3. /\ inp' \in [Node -> [busy : BOOLEAN, push : SUBSET Seg, slid : BOOLEAN]]
      /\ \A m \in Node : inp'[m].push \subseteq inp[m].push
  BY <1>1, <1>2 DEF TypeOK
<1>4. /\ UNCHANGED <<rcvVars, wndVars, rmtWnd, read>>
      /\ written' = [written EXCEPT ![n] = sndNxt[n] + Len(sndQueue[n])]
  BY <1>2, QueueFollows DEF hist
<1>5. QED
  BY <1>2, <1>3, <1>4, QueueFollows, FlushStep

\* The end of Input: a flush, the acks alone, or nothing.
LEMMA InputEndStep ==
  ASSUME IInv, NEW n \in Node, InputEnd(n)
  PROVE  IInv'
<1>1. TypeOK /\ \A m \in Node : ReceiveSide(m)
  BY DEF IInv
<1>2. /\ UNCHANGED <<rcvVars, wndVars, rmtWnd, hist>>
      /\ inp' = [inp EXCEPT ![n] = Idle]
  BY DEF InputEnd
<1>3. /\ inp' \in [Node -> [busy : BOOLEAN, push : SUBSET Seg, slid : BOOLEAN]]
      /\ \A m \in Node : inp'[m].push \subseteq inp[m].push
  <2>1. inp \in [Node -> [busy : BOOLEAN, push : SUBSET Seg, slid : BOOLEAN]]
    BY <1>1 DEF TypeOK
  <2>2. QED
    BY <1>2, <2>1 DEF Idle
<1>4. CASE Flush(n, sndQueue[n])
  <2>1. /\ UNCHANGED <<rcvVars, wndVars, rmtWnd, read>>
        /\ written' = [written EXCEPT ![n] = sndNxt[n] + Len(sndQueue[n])]
    BY <1>2, QueueFollows DEF hist
  <2>2. QED
    BY <1>3, <1>4, <2>1, QueueFollows, FlushStep
<1>5. \A m \in Node : \A x \in ackList[m] : Received(m, x)
  BY <1>1 DEF ReceiveSide
<1>6. /\ sndWnd' \in [Node -> Nat \ {0}] /\ rcvWnd' \in [Node -> Nat \ {0}] /\ rcvWnd' = rcvWnd
      /\ tell \in [Node -> BOOLEAN] /\ probeWait \in [Node -> BOOLEAN]
      /\ ackList \in [Node -> SUBSET Nat]
  BY <1>1, <1>2 DEF TypeOK, wndVars
<1>7. CASE FlushAcks(n)
  <2>1. PICK acks \in AckSegs(n) :
          /\ ackList' = [ackList EXCEPT ![n] = {}]
          /\ Transmit(Pack(n, acks, FALSE, FALSE, {}), net)
          /\ UNCHANGED <<sndVars, tell, probeWait>>
    BY <1>7 DEF FlushAcks
  <2>2. ackList' \in [Node -> SUBSET Nat] /\ \A m \in Node : \A x \in ackList'[m] : Received(m, x)
    BY <1>5, <1>6, <2>1
  <2>3. PICK f \in BOOLEAN, none \in SUBSET Seg :
          none = {} /\ Transmit(Pack(n, acks, f, f, none), net)
    BY <2>1, Zenon
  <2>4. acks \in SUBSET Nat /\ acks \subseteq ackList[n]
    BY <1>6, AckSegsProps
  <2>5. ASSUME NEW d \in net' PROVE d \in net \/ Truthful(d, n, sndNxt[n])
    <3>1. d \in net \/ d \in Pack(n, acks, f, f, none)
      BY <2>3 DEF Transmit
    <3>2. ASSUME d \in Pack(n, acks, f, f, none) PROVE Truthful(d, n, sndNxt[n])
      <4>1. /\ d \in Datagram /\ d.to = Peer(n) /\ d.una = rcvNxt[n] /\ d.wnd = UnusedWnd(n)
            /\ d.acks \subseteq acks /\ d.push \subseteq none
        BY <3>2, <2>4, <1>1, PackProps
      <4>2. QED
        BY <4>1, <2>3, <2>4, <1>1, UnusedWndBound DEF Truthful
    <3>3. QED
      BY <3>1, <3>2
  <2>6. UNCHANGED <<sndVars, rcvVars, hist, rmtWnd>> /\ UNCHANGED <<tell, probeWait>>
    BY <1>2, <2>1
  <2>7. QED
    BY <1>3, <1>6, <2>2, <2>5, <2>6, QuietStep
<1>8. CASE UNCHANGED <<sndVars, ackList, tell, probeWait, net>>
  <2>1. UNCHANGED <<sndVars, rcvVars, hist, rmtWnd>> /\ UNCHANGED <<ackList, tell, probeWait, net>>
    BY <1>2, <1>8
  <2>2. QED
    BY <1>3, <1>5, <1>6, <2>1, QuietStep
<1>9. QED
  BY <1>4, <1>7, <1>8 DEF InputEnd

\* Receive takes the head of rcvQueue; what it held is still the next payload.
LEMMA ReadStep ==
  ASSUME IInv, NEW n \in Node, Read(n)
  PROVE  IInv'
<1>1. TypeOK /\ ReceiveSide(n)
  BY DEF IInv
<1>2. /\ rcvQueue[n] # <<>>
      /\ read' = [read EXCEPT ![n] = Append(@, Head(rcvQueue[n]))]
      /\ tell' = [tell EXCEPT ![n] =
           @ \/ (Len(rcvQueue[n]) >= rcvWnd[n] /\ Len(rcvQueue'[n]) < rcvWnd[n])]
      /\ UNCHANGED <<sndVars, ackList, wndVars, rmtWnd, probeWait, inp, net, written>>
  BY Zenon DEF Read
<1>3. PICK c \in 0..Len(rcvBuf[n]) : MoveReady(n, Tail(rcvQueue[n]), rcvBuf[n], c)
  BY DEF Read
<1> DEFINE queue == Tail(rcvQueue[n])
           done == Append(read[n], Head(rcvQueue[n]))
<1>4. /\ rcvQueue[n] \in Seq(Nat) /\ read[n] \in Seq(Nat) /\ rcvBuf[n] \in Seq(Seg)
      /\ read \in [Node -> Seq(Nat)] /\ rcvNxt[n] \in Nat /\ rcvWnd[n] \in Nat
      /\ ackList \in [Node -> SUBSET Nat]
  BY <1>1 DEF TypeOK
<1>5. /\ rcvNxt[n] = Len(read[n]) + Len(rcvQueue[n])
      /\ \A i \in 1..Len(read[n]) : read[n][i] = i
      /\ \A i \in 1..Len(rcvQueue[n]) : rcvQueue[n][i] = Len(read[n]) + i
      /\ Sorted(rcvBuf[n]) /\ Carried(Stored(n), Peer(n))
      /\ \A s \in Stored(n) : rcvNxt[n] <= s.sn
  BY <1>1 DEF ReceiveSide
<1>6. /\ queue \in Seq(Nat) /\ Len(queue) = Len(rcvQueue[n]) - 1 /\ Len(rcvQueue[n]) > 0
      /\ \A i \in 1..Len(queue) : queue[i] = rcvQueue[n][i + 1]
      /\ Head(rcvQueue[n]) = rcvQueue[n][1] /\ Head(rcvQueue[n]) \in Nat
      /\ Len(queue) \in Nat /\ Len(rcvQueue[n]) \in Nat /\ Len(read[n]) \in Nat
  BY <1>2, <1>4
<1>7. /\ done \in Seq(Nat) /\ Len(done) = Len(read[n]) + 1
      /\ \A i \in 1..Len(read[n]) : done[i] = read[n][i]
      /\ done[Len(read[n]) + 1] = Head(rcvQueue[n])
  BY <1>4, <1>6
<1>8. read'[n] = done /\ read' = [read EXCEPT ![n] = done]
  BY <1>2, <1>4
<1> HIDE DEF queue, done
<1>9. /\ rcvNxt[n] = Len(done) + Len(queue)
      /\ \A i \in 1..Len(done) : done[i] = i
      /\ \A i \in 1..Len(queue) : queue[i] = Len(done) + i
  <2>1. rcvNxt[n] = Len(done) + Len(queue)
    <3>1. /\ rcvNxt[n] = Len(read[n]) + Len(rcvQueue[n])
          /\ Len(queue) = Len(rcvQueue[n]) - 1 /\ Len(done) = Len(read[n]) + 1
          /\ Len(queue) \in Nat /\ Len(rcvQueue[n]) \in Nat /\ Len(read[n]) \in Nat
      BY <1>5, <1>6, <1>7
    <3>2. \A q, d, r, l, x : q \in Nat /\ l \in Nat /\ r \in Nat /\ x = r + l /\ q = l - 1 /\ d = r + 1 => x = d + q
      OBVIOUS
    <3>3. QED
      BY <3>1, <3>2, Zenon
  <2>2. ASSUME NEW i \in 1..Len(done) PROVE done[i] = i
    <3>1. i \in 1..Len(read[n]) \/ i = Len(read[n]) + 1
      BY <1>7, <1>4
    <3>2. rcvQueue[n][1] = Len(read[n]) + 1
      BY <1>5, <1>6, <1>4
    <3>3. QED
      BY <3>1, <3>2, <1>5, <1>6, <1>7
  <2>3. ASSUME NEW i \in 1..Len(queue) PROVE queue[i] = Len(done) + i
    <3>1. i + 1 \in 1..Len(rcvQueue[n]) /\ queue[i] = rcvQueue[n][i + 1]
      BY <1>6
    <3>2. rcvQueue[n][i + 1] = Len(read[n]) + (i + 1)
      BY <3>1, <1>5
    <3>3. Len(done) = Len(read[n]) + 1 /\ Len(read[n]) \in Nat /\ i \in Nat
      BY <1>6, <1>7
    <3>4. queue[i] = Len(read[n]) + (i + 1)
      BY <3>1, <3>2
    <3>5. \A r \in Nat, j \in Nat : r + (j + 1) = (r + 1) + j
      OBVIOUS
    <3>6. QED
      BY <3>3, <3>4, <3>5, Zenon
  <2>4. QED
    BY <2>1, <2>2, <2>3
<1>10. tell' \in [Node -> BOOLEAN]
  <2>1. tell \in [Node -> BOOLEAN]
    BY <1>1 DEF TypeOK
  <2>2. QED
    BY <2>1, <1>2, Zenon
<1>11. /\ inp' \in [Node -> [busy : BOOLEAN, push : SUBSET Seg, slid : BOOLEAN]]
       /\ \A m \in Node : inp'[m].push \subseteq inp[m].push
  BY <1>1, <1>2 DEF TypeOK
<1>12. ackList'[n] \in SUBSET Nat /\ ackList' = [ackList EXCEPT ![n] = ackList'[n]] /\ ackList' = ackList
  BY <1>2, <1>4
<1>13. /\ MoveReady(n, queue, rcvBuf[n], c) /\ c \in 0..Len(rcvBuf[n])
       /\ Stored(n) = Range(rcvBuf[n]) /\ Stored(n) \subseteq Range(rcvBuf[n])
  BY <1>3, <1>4 DEF queue, Stored
<1>14. QED
  BY <1>2, <1>4, <1>5, <1>6, <1>7, <1>8, <1>9, <1>10, <1>11, <1>12, <1>13, ReceiveStep, ZenonT(60)
-----------------------------------------------------------------------------
(* The theorems                                                            *)

\* A conversation that has done nothing satisfies the invariant.
LEMMA InitHolds == Init => IInv
<1> SUFFICES ASSUME Init PROVE IInv
  OBVIOUS
<1>1. TypeOK
  <2>1. {} \in SUBSET SndSeg /\ {} \in SUBSET Seg /\ {} \in SUBSET Nat /\ {} \in SUBSET Datagram
    OBVIOUS
  <2>2. Idle \in [busy : BOOLEAN, push : SUBSET Seg, slid : BOOLEAN]
    BY Zenon, <2>1 DEF Idle
  <2>3. WndDefault \in Nat \ {0} /\ WndDefault \in Nat
    BY WndAssumption
  <2>4. /\ tell \in [Node -> BOOLEAN] /\ probeWait \in [Node -> BOOLEAN]
        /\ inp \in [Node -> [busy : BOOLEAN, push : SUBSET Seg, slid : BOOLEAN]]
        /\ rcvBuf \in [Node -> Seq(Seg)] /\ sndBuf \in [Node -> SUBSET SndSeg]
        /\ ackList \in [Node -> SUBSET Nat]
    <3>1. <<>> \in Seq(Seg)
      OBVIOUS
    <3>2. QED
      BY <2>1, <2>2, <3>1, Zenon DEF Init
  <2>5. QED
    BY <2>1, <2>3, <2>4 DEF Init, TypeOK
<1>2. \A n \in Node : SendSide(n)
  BY PeerProps DEF Init, SendSide, Sns
<1>3. \A n \in Node : ReceiveSide(n)
  <2>1. \A n \in Node : rcvBuf[n] = <<>> /\ Stored(n) = {} /\ Sorted(rcvBuf[n])
    <3>1. Range(<<>>) = {} /\ Len(<<>>) = 0
      BY DEF Range
    <3>2. \A n \in Node : rcvBuf[n] = <<>>
      BY DEF Init
    <3>3. QED
      BY <3>1, <3>2 DEF Stored, Sorted
  <2>2. QED
    BY <2>1, PeerProps DEF Init, ReceiveSide, Carried, Idle
<1>4. Transit /\ Windows
  <2>1. Transit
    BY DEF Init, Transit
  <2>2. ASSUME NEW w \in RcvSizes, WndBound(w) PROVE w \in Nat /\ WndDefault <= w
    BY <2>2, RcvSizesProps DEF WndBound, RcvSizes
  <2>3. QED
    BY <2>1, <2>2, PeerProps DEF Init, Windows
<1>5. QED
  BY <1>1, <1>2, <1>3, <1>4 DEF IInv

\* Every step keeps the invariant.
LEMMA NextHolds == IInv /\ [Next]_vars => IInv'
<1> SUFFICES ASSUME IInv, [Next]_vars PROVE IInv'
  OBVIOUS
<1>1. ASSUME NEW n \in Node, Write(n) PROVE IInv'
  BY <1>1, WriteStep
<1>2. ASSUME NEW n \in Node, Read(n) PROVE IInv'
  BY <1>2, ReadStep
<1>3. ASSUME NEW n \in Node, Update(n) PROVE IInv'
  BY <1>3, UpdateStep
<1>4. ASSUME NEW n \in Node, WndSize(n) PROVE IInv'
  BY <1>4, WndSizeStep
<1>5. ASSUME NEW n \in Node, NEW d \in net, InputBegin(n, d) PROVE IInv'
  BY <1>5, InputBeginStep
<1>6. ASSUME NEW n \in Node, InputPush(n) PROVE IInv'
  BY <1>6, InputPushStep
<1>7. ASSUME NEW n \in Node, InputEnd(n) PROVE IInv'
  BY <1>7, InputEndStep
<1>8. ASSUME NEW d \in net, Lose(d) PROVE IInv'
  BY <1>8, LoseStep
<1>9. CASE UNCHANGED vars
  BY <1>9 DEF vars, sndVars, rcvVars, wndVars, hist, IInv, TypeOK, SendSide, ReceiveSide,
              Transit, Windows, WndBound, Carried, Received, Stored
<1>10. QED
  BY <1>1, <1>2, <1>3, <1>4, <1>5, <1>6, <1>7, <1>8, <1>9 DEF Next

\* The invariant that ties the two control blocks, the datagrams between them and
\* the histories together (NewRudp, Send, Input, flush and Receive of rudp.go).
THEOREM Invariance == Spec => []IInv
<1>1. QED
  BY InitHolds, NextHolds, PTL DEF Spec

\* Every field of the two control blocks and of every datagram keeps its type.
THEOREM Typing == Spec => []TypeOK
<1>1. IInv => TypeOK
  BY DEF IInv
<1>2. QED
  BY <1>1, Invariance, PTL

\* Receive returns the written payloads in order, each once and unchanged.
THEOREM Delivery == Spec => []InOrderDelivery
<1>1. IInv => InOrderDelivery
  <2>1. SUFFICES ASSUME IInv, NEW n \in Node
                 PROVE  /\ read[n] = [i \in 1..Len(read[n]) |-> i]
                        /\ Len(read[n]) <= written[Peer(n)]
    BY DEF InOrderDelivery
  <2>2. /\ ReceiveSide(n) /\ SendSide(Peer(n)) /\ TypeOK /\ Peer(n) \in Node
    BY <2>1, PeerProps DEF IInv
  <2>3. /\ Len(read[n]) \in Nat /\ Len(rcvQueue[n]) \in Nat /\ Len(sndQueue[Peer(n)]) \in Nat
        /\ sndNxt[Peer(n)] \in Nat /\ rcvNxt[n] \in Nat /\ read[n] \in Seq(Nat)
    <3>1. /\ read[n] \in Seq(Nat) /\ rcvQueue[n] \in Seq(Nat) /\ sndQueue[Peer(n)] \in Seq(Nat)
          /\ sndNxt[Peer(n)] \in Nat /\ rcvNxt[n] \in Nat
      BY <2>2 DEF TypeOK
    <3>2. QED
      BY <3>1
  <2>4. read[n] = [i \in 1..Len(read[n]) |-> i]
    <3>1. \A i \in 1..Len(read[n]) : read[n][i] = i
      BY <2>2 DEF ReceiveSide
    <3>2. \A s \in Seq(Nat) : s = [i \in 1..Len(s) |-> s[i]]
      OBVIOUS
    <3>3. read[n] = [i \in 1..Len(read[n]) |-> read[n][i]]
      BY <3>2, <2>3, Zenon
    <3>4. QED
      BY <3>1, <3>3
  <2>5. Len(read[n]) <= written[Peer(n)]
    <3>1. /\ rcvNxt[n] <= sndNxt[Peer(n)] /\ rcvNxt[n] = Len(read[n]) + Len(rcvQueue[n])
          /\ written[Peer(n)] = sndNxt[Peer(n)] + Len(sndQueue[Peer(n)])
      BY <2>2 DEF ReceiveSide, SendSide
    <3>2. \A x, y, z, r, q \in Nat : r <= q /\ r = x + y => x <= q + z
      OBVIOUS
    <3>3. QED
      BY <2>3, <3>1, <3>2, Zenon
  <2>6. QED
    BY <2>4, <2>5
<1>2. QED
  BY <1>1, Invariance, PTL

\* A segment whose data parseAck has freed is at the peer.
THEOREM AckSafety == Spec => []AckedIsReceived
<1>1. IInv => AckedIsReceived
  BY DEF IInv, SendSide, AckedIsReceived
<1>2. QED
  BY <1>1, Invariance, PTL

\* parseUna frees only what the peer has received in order.
THEOREM UnaSafety == Spec => []ReleasedIsReceived
<1>1. IInv => ReleasedIsReceived
  <2>1. SUFFICES ASSUME IInv, NEW n \in Node PROVE sndUna[n] <= rcvNxt[Peer(n)]
    BY DEF ReleasedIsReceived
  <2>2. ReceiveSide(Peer(n)) /\ Peer(Peer(n)) = n
    BY <2>1, PeerProps DEF IInv
  <2>3. QED
    BY <2>2 DEF ReceiveSide
<1>2. QED
  BY <1>1, Invariance, PTL

\* A written payload is always in the sender's queues, unacked, or at the peer.
THEOREM Conservation == Spec => []NoDataLost
<1>1. IInv => NoDataLost
  <2>1. SUFFICES ASSUME IInv, NEW n \in Node, NEW k \in 1..written[n]
                 PROVE  \/ \E i \in 1..Len(sndQueue[n]) : sndQueue[n][i] = k
                        \/ \E s \in sndBuf[n] : s.data = k /\ ~s.acked
                        \/ \E s \in Stored(Peer(n)) : s.data = k
                        \/ k <= Len(read[Peer(n)]) + Len(rcvQueue[Peer(n)])
    BY DEF NoDataLost
  <2>2. /\ SendSide(n) /\ ReceiveSide(Peer(n)) /\ Peer(n) \in Node /\ Peer(Peer(n)) = n /\ TypeOK
    BY <2>1, PeerProps DEF IInv
  <2>3. /\ written[n] \in Nat /\ sndNxt[n] \in Nat /\ sndUna[n] \in Nat /\ rcvNxt[Peer(n)] \in Nat
        /\ Len(sndQueue[n]) \in Nat
    BY <2>2 DEF TypeOK
  <2>4. /\ written[n] = sndNxt[n] + Len(sndQueue[n])
        /\ sndUna[n] <= rcvNxt[Peer(n)]
        /\ rcvNxt[Peer(n)] = Len(read[Peer(n)]) + Len(rcvQueue[Peer(n)])
    BY <2>2 DEF SendSide, ReceiveSide
  <2>5. k \in Nat /\ k - 1 \in Nat /\ (k - 1) + 1 = k /\ k <= written[n]
    BY <2>3
  <2>6. CASE k > sndNxt[n]
    <3>1. k - sndNxt[n] \in 1..Len(sndQueue[n]) /\ sndNxt[n] + (k - sndNxt[n]) = k
      BY <2>3, <2>4, <2>5, <2>6
    <3>2. sndQueue[n][k - sndNxt[n]] = sndNxt[n] + (k - sndNxt[n])
      BY <3>1, <2>2 DEF SendSide
    <3>3. QED
      BY <3>1, <3>2, Zenon
  <2>7. CASE k - 1 < rcvNxt[Peer(n)]
    <3>1. k <= rcvNxt[Peer(n)]
      BY <2>3, <2>5, <2>7
    <3>2. QED
      BY <3>1, <2>4, Zenon
  <2>8. CASE sndUna[n] <= k - 1 /\ k <= sndNxt[n]
    <3>1. k - 1 \in sndUna[n]..(sndNxt[n] - 1)
      BY <2>3, <2>5, <2>8
    <3>2. PICK s \in sndBuf[n] : s.sn = k - 1
      BY <3>1, <2>2 DEF SendSide, Sns
    <3>3. CASE s.acked
      <4>1. Received(Peer(n), k - 1)
        BY <3>2, <3>3, <2>2, Zenon DEF SendSide
      <4>2. CASE k - 1 \in Sns(Stored(Peer(n)))
        <5>1. PICK t \in Stored(Peer(n)) : t.sn = k - 1
          BY <4>2 DEF Sns
        <5>2. t.data = (k - 1) + 1
          BY <5>1, <2>2 DEF ReceiveSide, Carried
        <5>3. QED
          BY <5>2, <2>5
      <4>3. QED
        BY <4>1, <4>2, <2>7, Zenon DEF Received
    <3>4. CASE ~s.acked
      <4>1. s.data = (k - 1) + 1
        BY <3>2, <3>4, <2>2, Zenon DEF SendSide
      <4>2. QED
        BY <4>1, <3>4, <2>5
    <3>5. QED
      BY <3>3, <3>4
  <2>9. k > sndNxt[n] \/ k - 1 < rcvNxt[Peer(n)] \/ (sndUna[n] <= k - 1 /\ k <= sndNxt[n])
    <3>1. sndUna[n] <= rcvNxt[Peer(n)]
      BY <2>4
    <3>2. QED
      BY <3>1, <2>3, <2>5
  <2>10. QED
    BY <2>6, <2>7, <2>8, <2>9, Zenon
<1>2. QED
  BY <1>1, Invariance, PTL

\* No PUSH in flight lies beyond the largest window its receiver can have.
THEOREM FlowControl == Spec => []SentWithinWindow
<1>1. IInv => SentWithinWindow
  <2>1. SUFFICES ASSUME IInv, NEW w \in RcvSizes, WndBound(w),
                        NEW d \in net, NEW s \in d.push
                 PROVE  s.sn < rcvNxt[d.to] + w
    BY DEF SentWithinWindow
  <2>2. d \in Datagram /\ d.to \in Node /\ Peer(d.to) \in Node /\ Peer(Peer(d.to)) = d.to /\ TypeOK
    BY <2>1, PeerProps DEF IInv, TypeOK, Datagram
  <2>3. /\ s.sn \in Nat /\ sndNxt[Peer(d.to)] \in Nat /\ rcvNxt[d.to] \in Nat /\ w \in Nat
    BY <2>2, RcvSizesProps DEF TypeOK, Datagram, Seg
  <2>4. s.sn < sndNxt[Peer(d.to)]
    BY <2>1 DEF IInv, Transit, Carried
  <2>5. sndNxt[Peer(d.to)] <= rcvNxt[d.to] + w
    BY <2>1, <2>2 DEF IInv, Windows
  <2>6. QED
    BY <2>3, <2>4, <2>5
<1>2. QED
  BY <1>1, Invariance, PTL

-----------------------------------------------------------------------------
(* What a step does to the two halves of an end                            *)

\* Receive and parseData: the only steps that touch the receiving half hand
\* segments of a sorted rcvBuf, of which none is new unless it lies in the
\* window, to what Receive left of rcvQueue.
Transfer(n) ==
  \E queue \in Seq(Nat), buf \in Seq(Seg) : \E c \in 0..Len(buf) :
    /\ MoveReady(n, queue, buf, c)
    /\ Sorted(buf) /\ Carried(Range(buf), Peer(n))
    /\ Len(queue) <= Len(rcvQueue[n])
    /\ \A s \in Range(buf) :
         rcvNxt[n] <= s.sn /\ (s \in Stored(n) \/ s.sn < rcvNxt[n] + rcvWnd[n])

\* Receive hands ready segments of rcvBuf to what it leaves of rcvQueue.
LEMMA ReadTransfers ==
  ASSUME IInv, NEW n \in Node, Read(n)
  PROVE  Transfer(n)
<1>1. /\ rcvQueue[n] \in Seq(Nat) /\ rcvBuf[n] \in Seq(Seg)
      /\ Sorted(rcvBuf[n]) /\ Carried(Range(rcvBuf[n]), Peer(n))
      /\ \A s \in Range(rcvBuf[n]) : rcvNxt[n] <= s.sn /\ s \in Stored(n)
  BY DEF IInv, TypeOK, ReceiveSide, Stored
<1>2. /\ rcvQueue[n] # <<>>
      /\ \E c \in 0..Len(rcvBuf[n]) : MoveReady(n, Tail(rcvQueue[n]), rcvBuf[n], c)
  BY Zenon DEF Read
<1>3. Tail(rcvQueue[n]) \in Seq(Nat) /\ Len(Tail(rcvQueue[n])) <= Len(rcvQueue[n])
  BY <1>1, <1>2
<1>4. QED
  BY <1>1, <1>2, <1>3, Zenon DEF Transfer

\* parseData does, with the segment it accepts; a segment outside the window changes nothing.
LEMMA InputPushTransfers ==
  ASSUME IInv, NEW n \in Node, InputPush(n)
  PROVE  UNCHANGED rcvVars \/ Transfer(n)
<1>1. /\ rcvQueue[n] \in Seq(Nat) /\ rcvBuf[n] \in Seq(Seg)
      /\ inp[n].push \in SUBSET Seg
      /\ Sorted(rcvBuf[n]) /\ Carried(Stored(n), Peer(n)) /\ Carried(inp[n].push, Peer(n))
      /\ \A t \in Stored(n) : rcvNxt[n] <= t.sn
  BY DEF IInv, TypeOK, ReceiveSide
<1>2. PICK s \in inp[n].push :
        \/ UNCHANGED rcvVars
        \/ /\ rcvNxt[n] <= s.sn /\ s.sn < rcvNxt[n] + rcvWnd[n]
           /\ \E i \in 0..Len(rcvBuf[n]) :
                /\ Place(rcvBuf[n], s.sn, i)
                /\ \E c \in 0..Len(Insert(rcvBuf[n], s, i)) :
                     MoveReady(n, rcvQueue[n], Insert(rcvBuf[n], s, i), c)
  BY Zenon DEF InputPush
<1>3. ASSUME rcvNxt[n] <= s.sn, s.sn < rcvNxt[n] + rcvWnd[n],
             NEW i \in 0..Len(rcvBuf[n]), Place(rcvBuf[n], s.sn, i),
             \E c \in 0..Len(Insert(rcvBuf[n], s, i)) :
               MoveReady(n, rcvQueue[n], Insert(rcvBuf[n], s, i), c)
      PROVE  Transfer(n)
  <2> DEFINE buf == Insert(rcvBuf[n], s, i)
  <2>1. /\ buf \in Seq(Seg) /\ Sorted(buf)
        /\ Range(buf) = Stored(n) \/ Range(buf) = Stored(n) \cup {s}
    BY <1>1, <1>3, InsertProps DEF Stored
  <2> HIDE DEF buf
  <2>2. Carried(Range(buf), Peer(n))
    BY <1>1, <2>1 DEF Carried
  <2>3. \A t \in Range(buf) :
          rcvNxt[n] <= t.sn /\ (t \in Stored(n) \/ t.sn < rcvNxt[n] + rcvWnd[n])
    BY <1>1, <1>3, <2>1
  <2>4. \E c \in 0..Len(buf) : MoveReady(n, rcvQueue[n], buf, c)
    BY <1>3 DEF buf
  <2>5. Len(rcvQueue[n]) <= Len(rcvQueue[n])
    BY <1>1
  <2>6. QED
    BY <1>1, <2>1, <2>2, <2>3, <2>4, <2>5, Zenon DEF Transfer
<1>4. QED
  BY <1>2, <1>3, Zenon

\* A transfer moves rcvNxt forward, fills rcvQueue up to the window at most, and
\* goes on as long as the next segment is there and finds room.
LEMMA TransferProps ==
  ASSUME IInv, NEW n \in Node, Transfer(n)
  PROVE  \E c \in Nat :
           /\ rcvNxt' = [rcvNxt EXCEPT ![n] = @ + c]
           /\ rcvBuf' = [rcvBuf EXCEPT ![n] = rcvBuf'[n]] /\ Stored(n)' \subseteq Seg
           /\ rcvQueue' = [rcvQueue EXCEPT ![n] = rcvQueue'[n]]
           /\ rcvQueue'[n] \in Seq(Nat)
           /\ Len(rcvQueue'[n]) <= Len(rcvQueue[n]) \/ Len(rcvQueue'[n]) <= rcvWnd[n]
           /\ \A s \in Stored(n)' : s \in Stored(n) \/ s.sn < rcvNxt[n] + rcvWnd[n]
           /\ rcvNxt[n] + c \in Sns(Stored(n)') => Len(rcvQueue'[n]) >= rcvWnd[n]
<1>1. PICK queue \in Seq(Nat), buf \in Seq(Seg) : \E c \in 0..Len(buf) :
        /\ MoveReady(n, queue, buf, c)
        /\ Sorted(buf) /\ Carried(Range(buf), Peer(n))
        /\ Len(queue) <= Len(rcvQueue[n])
        /\ \A s \in Range(buf) :
             rcvNxt[n] <= s.sn /\ (s \in Stored(n) \/ s.sn < rcvNxt[n] + rcvWnd[n])
  BY Zenon DEF Transfer
<1>2. PICK c \in 0..Len(buf) :
        /\ MoveReady(n, queue, buf, c)
        /\ Sorted(buf) /\ Carried(Range(buf), Peer(n))
        /\ Len(queue) <= Len(rcvQueue[n])
        /\ \A s \in Range(buf) :
             rcvNxt[n] <= s.sn /\ (s \in Stored(n) \/ s.sn < rcvNxt[n] + rcvWnd[n])
  BY <1>1, Zenon
<1>3. /\ TypeOK /\ rcvNxt[n] <= sndNxt[Peer(n)] /\ Len(rcvQueue[n]) \in Nat
      /\ rcvNxt[n] \in Nat /\ rcvWnd[n] \in Nat /\ c \in Nat /\ Len(queue) \in Nat
  <2>1. c \in Nat /\ Len(queue) \in Nat
    OBVIOUS
  <2>2. TypeOK /\ ReceiveSide(n)
    BY DEF IInv
  <2>3. Len(rcvQueue[n]) \in Nat /\ rcvNxt[n] \in Nat /\ rcvWnd[n] \in Nat
    BY <2>2 DEF TypeOK
  <2>4. rcvNxt[n] <= sndNxt[Peer(n)]
    BY <2>2 DEF ReceiveSide
  <2>5. QED
    BY <2>1, <2>2, <2>3, <2>4
<1>4. /\ rcvNxt' = [rcvNxt EXCEPT ![n] = @ + c]
      /\ rcvBuf' = [rcvBuf EXCEPT ![n] = rcvBuf'[n]] /\ rcvBuf'[n] \in Seq(Seg)
      /\ Range(rcvBuf'[n]) = {s \in Range(buf) : s.sn >= rcvNxt[n] + c}
      /\ rcvQueue' = [rcvQueue EXCEPT ![n] = rcvQueue'[n]] /\ rcvQueue'[n] \in Seq(Nat)
      /\ Len(rcvQueue'[n]) = Len(queue) + c
      /\ c > 0 => Len(queue) + c <= rcvWnd[n]
      /\ rcvNxt[n] + c \in Sns(Range(buf)) => Len(queue) + c >= rcvWnd[n]
  <2>1. Moved(n, queue, buf, c)
    BY <1>2, <1>3, MoveReadyProps
  <2>2. QED
    BY <2>1, Zenon DEF Moved
<1>5. Stored(n)' = {s \in Range(buf) : s.sn >= rcvNxt[n] + c} /\ Range(buf) \subseteq Seg
  BY <1>4, RangeOfSeq DEF Stored
<1>6. Len(rcvQueue'[n]) <= Len(rcvQueue[n]) \/ Len(rcvQueue'[n]) <= rcvWnd[n]
  BY <1>2, <1>3, <1>4
<1>7. \A s \in Stored(n)' : s \in Stored(n) \/ s.sn < rcvNxt[n] + rcvWnd[n]
  BY <1>2, <1>5
<1>8. rcvNxt[n] + c \in Sns(Stored(n)') => Len(rcvQueue'[n]) >= rcvWnd[n]
  BY <1>4, <1>5 DEF Sns
<1>9. QED
  BY <1>3, <1>4, <1>5, <1>6, <1>7, <1>8

\* The other steps leave the receiving half alone.
LEMMA ReceiverMoves ==
  ASSUME IInv, [Next]_vars
  PROVE  UNCHANGED rcvVars \/ \E n \in Node : Transfer(n)
<1>1. ASSUME NEW n \in Node, Write(n) PROVE UNCHANGED rcvVars
  BY <1>1 DEF Write
<1>2. ASSUME NEW n \in Node, Update(n) PROVE UNCHANGED rcvVars
  BY <1>2 DEF Update
<1>3. ASSUME NEW n \in Node, WndSize(n) PROVE UNCHANGED rcvVars
  BY <1>3 DEF WndSize
<1>4. ASSUME NEW n \in Node, NEW d \in net, InputBegin(n, d) PROVE UNCHANGED rcvVars
  BY <1>4 DEF InputBegin
<1>5. ASSUME NEW n \in Node, InputEnd(n) PROVE UNCHANGED rcvVars
  BY <1>5 DEF InputEnd
<1>6. ASSUME NEW d \in net, Lose(d) PROVE UNCHANGED rcvVars
  BY <1>6 DEF Lose
<1>7. CASE UNCHANGED vars
  BY <1>7 DEF vars
<1>8. ASSUME NEW n \in Node, Read(n) PROVE Transfer(n)
  BY <1>8, ReadTransfers
<1>9. ASSUME NEW n \in Node, InputPush(n) PROVE UNCHANGED rcvVars \/ Transfer(n)
  BY <1>9, InputPushTransfers
<1>10. QED
  BY <1>1, <1>2, <1>3, <1>4, <1>5, <1>6, <1>7, <1>8, <1>9, Zenon DEF Next
-----------------------------------------------------------------------------
(* Bounds on the receiver                                                  *)

\* The largest window bounds rcvQueue and rcvBuf, and a segment that is next in
\* order only waits behind others.
Held(n) ==
  /\ \A w \in RcvSizes :
       WndBound(w) => /\ Len(rcvQueue[n]) <= w
                      /\ \A s \in Stored(n) : s.sn < rcvNxt[n] + w
  /\ rcvNxt[n] \in Sns(Stored(n)) => rcvQueue[n] # <<>>
Holding == \A n \in Node : Held(n)

\* A transfer keeps the receiver within its window.
LEMMA TransferHolds ==
  ASSUME IInv, Holding, NEW n \in Node, Transfer(n)
  PROVE  Holding'
<1>1. PICK c \in Nat :
        /\ rcvNxt' = [rcvNxt EXCEPT ![n] = @ + c]
        /\ rcvBuf' = [rcvBuf EXCEPT ![n] = rcvBuf'[n]] /\ Stored(n)' \subseteq Seg
        /\ rcvQueue' = [rcvQueue EXCEPT ![n] = rcvQueue'[n]]
        /\ rcvQueue'[n] \in Seq(Nat)
        /\ Len(rcvQueue'[n]) <= Len(rcvQueue[n]) \/ Len(rcvQueue'[n]) <= rcvWnd[n]
        /\ \A s \in Stored(n)' : s \in Stored(n) \/ s.sn < rcvNxt[n] + rcvWnd[n]
        /\ rcvNxt[n] + c \in Sns(Stored(n)') => Len(rcvQueue'[n]) >= rcvWnd[n]
  BY TransferProps
<1>2. /\ rcvNxt \in [Node -> Nat] /\ rcvQueue \in [Node -> Seq(Nat)]
      /\ rcvBuf \in [Node -> Seq(Seg)] /\ Stored(n) \subseteq Seg /\ rcvWnd[n] \in Nat \ {0}
      /\ \A w \in RcvSizes : WndBound(w) => rcvWnd[n] <= w
  BY StoredProps DEF IInv, TypeOK, Windows
<1>3. ASSUME NEW m \in Node, m # n PROVE Held(m)'
  <2>1. rcvNxt'[m] = rcvNxt[m] /\ rcvBuf'[m] = rcvBuf[m] /\ rcvQueue'[m] = rcvQueue[m]
    BY <1>1, <1>2, <1>3
  <2>2. Held(m)
    BY DEF Holding
  <2>3. QED
    BY <2>1, <2>2 DEF Held, WndBound, Sns, Stored
<1>4. Held(n)'
  <2>1. rcvNxt'[n] = rcvNxt[n] + c
    BY <1>1, <1>2
  <2>2. Held(n)
    BY DEF Holding
  <2>3. ASSUME NEW w \in RcvSizes, WndBound(w)
        PROVE  Len(rcvQueue'[n]) <= w /\ \A s \in Stored(n)' : s.sn < rcvNxt'[n] + w
    <3>1. w \in Nat /\ rcvWnd[n] <= w /\ Len(rcvQueue[n]) <= w
      BY <1>2, <2>2, <2>3, RcvSizesProps DEF Held
    <3>2. Len(rcvQueue[n]) \in Nat /\ Len(rcvQueue'[n]) \in Nat
      BY <1>1, <1>2
    <3>3. ASSUME NEW s \in Stored(n)' PROVE s.sn < rcvNxt'[n] + w
      <4>1. s \in Stored(n) => s.sn < rcvNxt[n] + w
        BY <2>2, <2>3 DEF Held
      <4>2. s \in Stored(n) => s.sn \in Nat
        BY <1>2 DEF Seg
      <4>3. CASE s \in Stored(n)
        BY <1>2, <2>1, <3>1, <4>1, <4>2, <4>3
      <4>4. CASE s.sn < rcvNxt[n] + rcvWnd[n] /\ s \notin Stored(n)
        <5>1. s.sn \in Nat
          BY <1>1, <3>3 DEF Seg
        <5>2. QED
          BY <1>2, <2>1, <3>1, <4>4, <5>1
      <4>5. QED
        BY <1>1, <4>3, <4>4
    <3>4. QED
      BY <1>1, <1>2, <3>1, <3>2, <3>3
  <2>4. ASSUME rcvNxt'[n] \in Sns(Stored(n)') PROVE rcvQueue'[n] # <<>>
    BY <1>1, <1>2, <2>1, <2>4
  <2>5. QED
    BY <2>3, <2>4 DEF Held, WndBound, Sns
<1>5. QED
  BY <1>3, <1>4 DEF Holding

\* The other steps leave the receiving half alone, and the bounds are constants.
LEMMA HoldingHolds == IInv /\ Holding /\ [Next]_vars => Holding'
<1> SUFFICES ASSUME IInv, Holding, [Next]_vars PROVE Holding'
  OBVIOUS
<1>1. CASE UNCHANGED rcvVars
  BY <1>1 DEF Holding, Held, WndBound, Sns, Stored, rcvVars
<1>2. ASSUME NEW n \in Node, Transfer(n) PROVE Holding'
  BY <1>2, TransferHolds
<1>3. QED
  BY <1>1, <1>2, ReceiverMoves

\* At the start a receiver holds nothing.
LEMMA HoldingInit == Init => Holding
<1> SUFFICES ASSUME Init, NEW n \in Node PROVE Held(n)
  BY DEF Holding
<1>1. rcvQueue[n] = <<>> /\ rcvBuf[n] = <<>>
  BY DEF Init
<1>2. Stored(n) = {}
  BY <1>1 DEF Stored, Range
<1>3. \A w \in RcvSizes : w \in Nat
  BY RcvSizesProps
<1>4. QED
  BY <1>1, <1>2, <1>3 DEF Held, Sns

\* What a receiver holds, in every state.
LEMMA HoldingAlways == Spec => []Holding
<1>1. QED
  BY HoldingInit, HoldingHolds, Invariance, PTL DEF Spec

\* Receive and parseData leave no segment in order behind an empty rcvQueue.
THEOREM NoHidden == Spec => []NoHiddenSegment
<1>1. Holding => NoHiddenSegment
  BY DEF Holding, Held, NoHiddenSegment
<1>2. QED
  BY <1>1, HoldingAlways, PTL

\* The receive window bounds what an end keeps, out of order or in order, and
\* what it keeps out of order is sorted.
THEOREM Bounded == Spec => []BoundedReceiver
<1>1. ASSUME IInv, Holding, NEW n \in Node, NEW w \in RcvSizes, WndBound(w)
      PROVE  /\ Len(rcvQueue[n]) <= w
             /\ Sns(Stored(n)) \subseteq rcvNxt[n]..(rcvNxt[n] + w - 1)
  <2>1. /\ Stored(n) \in SUBSET Seg /\ rcvNxt[n] \in Nat /\ w \in Nat
        /\ \A s \in Stored(n) : rcvNxt[n] <= s.sn
    BY <1>1, RcvSizesProps, StoredProps DEF IInv, TypeOK, ReceiveSide
  <2>2. Len(rcvQueue[n]) <= w /\ \A s \in Stored(n) : s.sn < rcvNxt[n] + w
    BY <1>1 DEF Holding, Held
  <2>3. QED
    BY <2>1, <2>2 DEF Sns, Seg
<1>2. IInv => \A n \in Node : Sorted(rcvBuf[n])
  BY DEF IInv, ReceiveSide
<1>3. IInv /\ Holding => BoundedReceiver
  BY <1>1, <1>2 DEF BoundedReceiver
<1>4. QED
  BY <1>3, Invariance, HoldingAlways, PTL
-----------------------------------------------------------------------------
(* Nothing goes backwards                                                  *)

\* A flush leaves sndUna alone and moves sndNxt forward.
LEMMA FlushMoves ==
  ASSUME TypeOK, NEW n \in Node, NEW queue, Len(queue) \in Nat, Flush(n, queue)
  PROVE  sndUna' = sndUna /\ \E k \in Nat : sndNxt' = [sndNxt EXCEPT ![n] = @ + k]
<1>1. PICK cwnd \in 0..Limit(n) :
        /\ sndNxt' = [sndNxt EXCEPT ![n] = @ + MoveCount(n, queue, cwnd)]
        /\ sndUna' = sndUna
  BY Zenon DEF Flush
<1>2. sndNxt[n] \in Nat /\ sndUna[n] \in Nat
  BY DEF TypeOK
<1>3. MoveCount(n, queue, cwnd) \in Nat
  BY <1>2 DEF MoveCount, Least
<1>4. QED
  BY <1>1, <1>3

\* What the sending half of every end does in a step.
SenderForward == \A n \in Node : sndUna[n] <= sndUna'[n] /\ sndNxt[n] <= sndNxt'[n]

\* A flush takes the sending half nowhere back.
LEMMA FlushForward ==
  ASSUME TypeOK, NEW n \in Node, NEW queue, Len(queue) \in Nat, Flush(n, queue)
  PROVE  SenderForward
<1>1. sndUna \in [Node -> Nat] /\ sndNxt \in [Node -> Nat]
  BY DEF TypeOK
<1>2. PICK k \in Nat : sndUna' = sndUna /\ sndNxt' = [sndNxt EXCEPT ![n] = @ + k]
  BY FlushMoves
<1>3. QED
  BY <1>1, <1>2 DEF SenderForward

\* Nor does Write, which may flush or leave the flush to update.
LEMMA WriteForward ==
  ASSUME TypeOK, NEW n \in Node, Write(n)
  PROVE  SenderForward
<1>1. PICK k \in 1..WriteBatch :
        \/ Flush(n, sndQueue[n] \o [i \in 1..k |-> written[n] + i])
        \/ UNCHANGED <<sndUna, sndNxt>>
  BY Zenon DEF Write
<1>2. /\ sndQueue[n] \in Seq(Nat) /\ written[n] \in Nat /\ k \in Nat
      /\ sndUna \in [Node -> Nat] /\ sndNxt \in [Node -> Nat]
  BY BoundAssumption DEF TypeOK
<1> DEFINE more == [i \in 1..k |-> written[n] + i]
<1>3. more \in Seq(Nat)
  BY <1>2
<1> HIDE DEF more
<1>4. Len(sndQueue[n] \o more) \in Nat
  BY <1>2, <1>3
<1>5. CASE Flush(n, sndQueue[n] \o more)
  BY <1>4, <1>5, FlushForward
<1>6. CASE UNCHANGED <<sndUna, sndNxt>>
  BY <1>2, <1>6 DEF SenderForward
<1>7. QED
  BY <1>1, <1>5, <1>6 DEF more

\* parseUna and updateSndUna: what is left of sndBuf lies where it lay.
LEMMA InputBeginForward ==
  ASSUME IInv, IInv', NEW n \in Node, NEW d \in net, InputBegin(n, d)
  PROVE  SenderForward
<1> DEFINE kept == {s \in sndBuf[n] : s.sn >= d.una}
           una == FirstSn(kept, sndNxt[n])
<1>1. /\ sndUna' = [sndUna EXCEPT ![n] = una] /\ sndNxt' = sndNxt
      /\ sndBuf' = [sndBuf EXCEPT ![n] = ParseAcks(kept, d.acks, una, sndNxt[n])]
  BY Zenon DEF InputBegin
<1>2. /\ sndUna \in [Node -> Nat] /\ sndNxt \in [Node -> Nat] /\ sndUna'[n] \in Nat
      /\ sndBuf \in [Node -> SUBSET SndSeg]
  BY DEF IInv, TypeOK
<1>3. /\ Sns(sndBuf[n]) = sndUna[n]..(sndNxt[n] - 1) /\ sndUna[n] <= sndNxt[n]
      /\ Sns(sndBuf'[n]) = sndUna'[n]..(sndNxt'[n] - 1)
  BY DEF IInv, SendSide, Sns
<1>4. kept \in SUBSET SndSeg /\ Sns(kept) \subseteq Sns(sndBuf[n])
  BY <1>2 DEF Sns
<1> HIDE DEF kept, una
<1>5. Sns(sndBuf'[n]) = Sns(kept)
  BY <1>1, <1>2, <1>4, ParseAcksProps
<1>6. sndUna[n] <= sndUna'[n]
  <2>1. CASE sndUna'[n] <= sndNxt[n] - 1
    <3>1. sndUna'[n] \in Sns(sndBuf[n])
      BY <1>1, <1>2, <1>3, <1>4, <1>5, <2>1
    <3>2. QED
      BY <1>3, <3>1
  <2>2. CASE sndUna'[n] >= sndNxt[n]
    BY <1>2, <1>3, <2>2
  <2>3. QED
    BY <1>2, <2>1, <2>2
<1>7. QED
  BY <1>1, <1>2, <1>6 DEF SenderForward

\* Nor does any other step.
LEMMA SenderMoves ==
  ASSUME IInv, IInv', [Next]_vars
  PROVE  SenderForward
<1>1. /\ TypeOK /\ sndUna \in [Node -> Nat] /\ sndNxt \in [Node -> Nat]
      /\ \A n \in Node : Len(sndQueue[n]) \in Nat
  BY DEF IInv, TypeOK
<1>2. CASE UNCHANGED <<sndUna, sndNxt>>
  BY <1>1, <1>2 DEF SenderForward
<1>3. ASSUME NEW n \in Node, Write(n) PROVE SenderForward
  BY <1>1, <1>3, WriteForward
<1>4. ASSUME NEW n \in Node, Update(n) PROVE SenderForward
  BY <1>1, <1>4, FlushForward DEF Update
<1>5. ASSUME NEW n \in Node, NEW d \in net, InputBegin(n, d) PROVE SenderForward
  BY <1>5, InputBeginForward
<1>6. ASSUME NEW n \in Node, InputEnd(n) PROVE SenderForward
  <2>1. CASE Flush(n, sndQueue[n])
    BY <1>1, <2>1, FlushForward
  <2>2. CASE ~Flush(n, sndQueue[n])
    BY <1>2, <1>6, <2>2 DEF InputEnd, FlushAcks, sndVars
  <2>3. QED
    BY <2>1, <2>2
<1>7. ASSUME NEW n \in Node, Read(n) \/ WndSize(n) \/ InputPush(n) PROVE SenderForward
  BY <1>2, <1>7 DEF Read, WndSize, InputPush, sndVars
<1>8. ASSUME NEW d \in net, Lose(d) PROVE SenderForward
  BY <1>2, <1>8 DEF Lose, sndVars
<1>9. CASE UNCHANGED vars
  BY <1>2, <1>9 DEF vars, sndVars
<1>10. QED
  BY <1>3, <1>4, <1>5, <1>6, <1>7, <1>8, <1>9 DEF Next

\* However old the una of a datagram, Input never takes an end backwards.
THEOREM Forward == Spec => Monotonic
<1> DEFINE A == \A n \in Node : /\ sndUna[n] <= sndUna'[n] /\ sndNxt[n] <= sndNxt'[n]
                                /\ rcvNxt[n] <= rcvNxt'[n] /\ sndUna'[n] <= sndNxt'[n]
<1>1. ASSUME IInv, IInv', [Next]_vars PROVE A
  <2>1. SenderForward
    BY <1>1, SenderMoves
  <2>2. \A n \in Node : sndUna'[n] <= sndNxt'[n]
    BY <1>1 DEF IInv, SendSide
  <2>3. \A n \in Node : rcvNxt[n] <= rcvNxt'[n]
    <3>1. rcvNxt \in [Node -> Nat]
      BY <1>1 DEF IInv, TypeOK
    <3>2. CASE UNCHANGED rcvVars
      BY <3>1, <3>2 DEF rcvVars
    <3>3. ASSUME NEW m \in Node, Transfer(m) PROVE \A n \in Node : rcvNxt[n] <= rcvNxt'[n]
      <4>1. PICK c \in Nat : rcvNxt' = [rcvNxt EXCEPT ![m] = @ + c]
        BY <1>1, <3>3, TransferProps
      <4>2. QED
        BY <3>1, <4>1
    <3>4. QED
      BY <1>1, <3>2, <3>3, ReceiverMoves
  <2>4. QED
    BY <2>1, <2>2, <2>3 DEF SenderForward
<1>2. IInv /\ IInv' /\ [Next]_vars => [A]_vars
  BY <1>1
<1>3. QED
  BY <1>2, Invariance, PTL DEF Spec, Monotonic
-----------------------------------------------------------------------------
(* Refinement                                                              *)

\* The payloads 1..k, as the abstract stream has them, end with those of the
\* last batch.
Numbers(k) == [i \in 1..k |-> i]

LEMMA NumbersProps ==
  ASSUME NEW k \in Nat
  PROVE  /\ Numbers(k) \in Seq(Nat) /\ Len(Numbers(k)) = k
         /\ \A i \in 1..k : Numbers(k)[i] = i
<1>1. Numbers(k) \in [1..k -> Nat]
  BY DEF Numbers
<1>2. QED
  BY <1>1 DEF Numbers

LEMMA NumbersBatch ==
  ASSUME NEW k \in Nat, NEW m \in Nat
  PROVE  Numbers(k) \o [i \in 1..m |-> k + i] = Numbers(k + m)
<1> DEFINE batch == [i \in 1..m |-> k + i]
<1>1. batch \in [1..m -> Nat] /\ \A i \in 1..m : batch[i] = k + i
  OBVIOUS
<1>2. batch \in Seq(Nat) /\ Len(batch) = m
  BY <1>1
<1> HIDE DEF batch
<1>3. k + m \in Nat /\ Numbers(k) \in Seq(Nat) /\ Numbers(k + m) \in Seq(Nat)
  BY NumbersProps
<1>4. Len(Numbers(k)) = k /\ Len(Numbers(k + m)) = k + m
  BY <1>3, NumbersProps
<1>5. /\ Numbers(k) \o batch \in Seq(Nat) /\ Len(Numbers(k) \o batch) = k + m
      /\ \A i \in 1..(k + m) :
           (Numbers(k) \o batch)[i] = IF i <= k THEN Numbers(k)[i] ELSE batch[i - k]
  <2>1. /\ Numbers(k) \o batch \in Seq(Nat)
        /\ Len(Numbers(k) \o batch) = Len(Numbers(k)) + Len(batch)
        /\ \A i \in 1..Len(Numbers(k)) + Len(batch) : (Numbers(k) \o batch)[i] =
             IF i <= Len(Numbers(k)) THEN Numbers(k)[i] ELSE batch[i - Len(Numbers(k))]
    BY <1>2, <1>3, ConcatProperties, Zenon
  <2>2. QED
    BY <1>2, <1>4, <2>1
<1>6. ASSUME NEW i \in 1..(k + m) PROVE (Numbers(k) \o batch)[i] = Numbers(k + m)[i]
  <2>1. Numbers(k + m)[i] = i
    BY <1>3, NumbersProps
  <2>2. CASE i <= k
    <3>1. (Numbers(k) \o batch)[i] = Numbers(k)[i]
      BY <1>5, <2>2
    <3>2. i \in 1..k
      BY <2>2
    <3>3. QED
      BY <2>1, <3>1, <3>2, NumbersProps
  <2>3. CASE i > k
    <3>1. (Numbers(k) \o batch)[i] = batch[i - k] /\ i - k \in 1..m
      BY <1>5, <2>3
    <3>2. QED
      BY <1>1, <2>1, <3>1
  <2>4. i <= k \/ i > k
    OBVIOUS
  <2>5. QED
    BY <2>2, <2>3, <2>4, Zenon
<1>7. Numbers(k) \o batch = Numbers(k + m)
  BY <1>3, <1>4, <1>5, <1>6, SeqEqual
<1>8. QED
  BY <1>7 DEF batch

\* The two streams of the refinement mapping.
Accepted == [n \in Node |-> Numbers(written[n])]
Returned == [n \in Node |-> read[Peer(n)]]

\* A new conversation is a pair of empty streams.
LEMMA StreamInit == Init => Stream!Init
<1> SUFFICES ASSUME Init PROVE Stream!Init
  OBVIOUS
<1>1. \A n \in Node : written[n] = 0 /\ read[Peer(n)] = <<>>
  BY PeerProps DEF Init
<1>2. Numbers(0) = <<>>
  BY NumbersProps
<1>3. \A n \in Node : [i \in 1..written[n] |-> i] = <<>>
  BY <1>1, <1>2 DEF Numbers
<1>4. QED
  BY <1>1, <1>3, Zenon DEF Stream!Init

\* The k segments of a Write are a batch of payloads, accepted in this order.
LEMMA WriteAccepts ==
  ASSUME TypeOK, NEW n \in Node, Write(n)
  PROVE  Stream!Accept(n)
<1>1. PICK k \in 1..WriteBatch :
        written[n] + k <= MaxWrite[n] /\ written' = [written EXCEPT ![n] = @ + k]
  BY Zenon DEF Write
<1>2. read' = read
  BY Zenon DEF Write
<1>3. /\ k \in Nat /\ k > 0 /\ written \in [Node -> Nat] /\ written[n] \in Nat
      /\ MaxWrite[n] \in Nat
  BY BoundAssumption DEF TypeOK
<1> DEFINE batch == [i \in 1..k |-> written[n] + i]
           Payloads == UNION {1..MaxWrite[m] : m \in Node}
<1>4. batch \in [1..k -> Payloads]
  <2>1. ASSUME NEW i \in 1..k PROVE written[n] + i \in 1..MaxWrite[n]
    BY <1>1, <1>3
  <2>2. 1..MaxWrite[n] \subseteq Payloads
    OBVIOUS
  <2>3. \A i \in 1..k : written[n] + i \in Payloads
    BY <2>1, <2>2
  <2>4. QED
    BY <2>3
<1>5. written'[n] = written[n] + k /\ \A m \in Node : m # n => written'[m] = written[m]
  BY <1>1, <1>3
<1>6. Numbers(written'[n]) = Numbers(written[n]) \o batch
  BY <1>3, <1>5, NumbersBatch
<1>7. Accepted' = [Accepted EXCEPT ![n] = @ \o batch]
  <2>1. Accepted' = [m \in Node |-> Numbers(written'[m])]
    BY DEF Accepted, Numbers
  <2>2. \A m \in Node : Numbers(written'[m]) = IF m = n THEN Accepted[n] \o batch ELSE Accepted[m]
    BY <1>5, <1>6, Zenon DEF Accepted
  <2>3. QED
    BY <2>1, <2>2 DEF Accepted
<1>8. Accepted' # Accepted
  <2>1. Len(Numbers(written'[n])) = written[n] + k /\ Len(Numbers(written[n])) = written[n]
    <3>1. written[n] + k \in Nat
      BY <1>3
    <3>2. QED
      BY <1>3, <1>5, <3>1, NumbersProps
  <2>2. Numbers(written'[n]) # Numbers(written[n])
    BY <1>3, <2>1
  <2>3. Accepted'[n] = Numbers(written'[n]) /\ Accepted[n] = Numbers(written[n])
    BY DEF Accepted, Numbers
  <2>4. QED
    BY <2>2, <2>3
<1>9. Returned' = Returned
  BY <1>2 DEF Returned
<1> HIDE DEF batch, Payloads
<1>10. \E l \in 1..WriteBatch : \E b \in [1..l -> Payloads] :
         Accepted' = [Accepted EXCEPT ![n] = @ \o b]
  BY <1>4, <1>7
<1>11. QED
  BY <1>8, <1>9, <1>10, Zenon DEF Stream!Accept, Accepted, Returned, Numbers, Payloads

\* A Read returns the first payload the peer wrote and this end has not read.
LEMMA ReadDelivers ==
  ASSUME TypeOK, InOrderDelivery', NEW n \in Node, Read(n)
  PROVE  Stream!Deliver(Peer(n))
<1> DEFINE p == Peer(n)
           x == Head(rcvQueue[n])
<1>1. read' = [read EXCEPT ![n] = Append(@, x)] /\ written' = written
  BY Zenon DEF Read
<1>2. /\ p \in Node /\ Peer(p) = n
      /\ \A m \in Node : Peer(m) \in Node /\ (Peer(m) = n <=> m = p)
  BY PeerProps
<1>3. /\ read \in [Node -> Seq(Nat)] /\ read[n] \in Seq(Nat) /\ Len(read[n]) \in Nat
      /\ x \in Nat /\ written[p] \in Nat
  <2>1. rcvQueue[n] \in Seq(Nat) /\ rcvQueue[n] # <<>>
    BY DEF TypeOK, Read
  <2>2. x \in Nat
    BY <2>1
  <2>3. Len(read[n]) \in Nat
    BY DEF TypeOK
  <2>4. QED
    BY <1>2, <2>2, <2>3 DEF TypeOK
<1> HIDE DEF x, p
<1>4. /\ read'[n] = Append(read[n], x) /\ Len(read'[n]) = Len(read[n]) + 1
      /\ read'[n][Len(read[n]) + 1] = x
  BY <1>1, <1>3
<1>5. /\ \A i \in 1..Len(read'[n]) : read'[n][i] = i
      /\ Len(read'[n]) <= written[p]
  <2>1. read'[n] = [i \in 1..Len(read'[n]) |-> i] /\ Len(read'[n]) <= written[p]
    BY <1>1 DEF InOrderDelivery, p
  <2>2. QED
    BY <2>1
<1>6. x = Len(read[n]) + 1 /\ Len(read[n]) < written[p]
  BY <1>3, <1>4, <1>5
<1>7. Numbers(written[p])[Len(read[n]) + 1] = x /\ Len(Numbers(written[p])) = written[p]
  <2>1. Len(read[n]) + 1 \in 1..written[p]
    BY <1>3, <1>6
  <2>2. QED
    BY <1>3, <1>6, <2>1, NumbersProps
<1>8. Accepted[p] = Numbers(written[p]) /\ Returned[p] = read[n]
  BY <1>2, Zenon DEF Accepted, Returned
<1>9. Len(Returned[p]) < Len(Accepted[p])
  BY <1>6, <1>7, <1>8
<1>10. Returned' = [Returned EXCEPT ![p] = Append(@, Accepted[p][Len(@) + 1])]
  <2>1. \A m \in Node : read'[Peer(m)] = IF m = p THEN Append(read[n], x) ELSE read[Peer(m)]
    BY <1>1, <1>2, <1>3
  <2>2. Append(read[n], x) = Append(Returned[p], Accepted[p][Len(Returned[p]) + 1])
    BY <1>7, <1>8
  <2>3. Returned' = [m \in Node |-> read'[Peer(m)]] /\ Returned = [m \in Node |-> read[Peer(m)]]
    BY DEF Returned
  <2>4. QED
    BY <1>2, <2>1, <2>2, <2>3
<1>11. Accepted' = Accepted
  BY <1>1 DEF Accepted, Numbers
<1>12. QED
  BY <1>9, <1>10, <1>11, Zenon DEF Stream!Deliver, Accepted, Returned, Numbers, p

\* Write accepts a batch, Read delivers the next payload of the peer, and no other
\* step is visible to the applications.
LEMMA StreamStep ==
  ASSUME TypeOK, InOrderDelivery', [Next]_vars
  PROVE  [Stream!Next]_(Stream!vars)
<1>1. ASSUME NEW n \in Node, Write(n) PROVE Stream!Accept(n)
  BY <1>1, WriteAccepts
<1>2. ASSUME NEW n \in Node, Read(n) PROVE Stream!Deliver(Peer(n))
  BY <1>2, ReadDelivers
<1>3. CASE UNCHANGED hist
  BY <1>3 DEF hist, Stream!vars
<1>4. ASSUME NEW n \in Node, Update(n) \/ WndSize(n) \/ InputPush(n) \/ InputEnd(n)
      PROVE  UNCHANGED hist
  BY <1>4 DEF Update, WndSize, InputPush, InputEnd
<1>5. ASSUME NEW n \in Node, NEW d \in net, InputBegin(n, d) PROVE UNCHANGED hist
  BY <1>5 DEF InputBegin
<1>6. ASSUME NEW d \in net, Lose(d) PROVE UNCHANGED hist
  BY <1>6 DEF Lose
<1>7. CASE UNCHANGED vars
  BY <1>3, <1>7 DEF vars
<1>8. QED
  BY <1>1, <1>2, <1>3, <1>4, <1>5, <1>6, <1>7, PeerProps DEF Next, Stream!Next

\* The conversation implements the pair of reliable streams of ReliableStream:
\* Read hands over the payloads that Write accepted at the other end, in that
\* order, each once, through Send, flush, Input and Receive of rudp.go.
THEOREM Implementation == Spec => ImplementsStream
<1>1. TypeOK /\ InOrderDelivery' /\ [Next]_vars => [Stream!Next]_(Stream!vars)
  BY StreamStep
<1>2. QED
  BY <1>1, StreamInit, Typing, Delivery, PTL DEF Spec, ImplementsStream, Stream!Spec
=============================================================================
