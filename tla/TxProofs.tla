------------------------------ MODULE TxProofs ------------------------------
(***************************************************************************)
(* What a call of tx sends, and what it counts, for every queue and every  *)
(* behaviour of the socket.                                                *)
(***************************************************************************)
EXTENDS Tx, WellFoundedInduction, TLAPS

\* The numbers in a set have a least one.
LEMMA LeastNat ==
  ASSUME NEW T \in SUBSET Nat, T # {}
  PROVE  \E x \in T : \A y \in T : x <= y
<1>1. IsWellFoundedOn(OpToRel(<, Nat), Nat)
  BY NatLessThanWellFounded
<1>2. PICK x \in T : \A y \in T : <<y, x>> \notin OpToRel(<, Nat)
  BY <1>1, WFMin, Zenon
<1>3. \A y \in T : ~(y < x)
  BY <1>2 DEF OpToRel
<1>4. QED
  BY <1>3

\* Rounds that sum the lengths up to the n-th datagram.
SumTo(s, n) ==
  {g \in [0..n -> Nat] :
     g = [k \in 0..n |-> IF k = 0 THEN 0 ELSE g[k - 1] + Length(s[k])]}

\* The sum of the lengths exists, whatever the queue.
LEMMA SumExists == ASSUME NEW s \in Seq(Nat) PROVE \A n \in 0..Len(s) : SumTo(s, n) # {}
<1> DEFINE T == {n \in 0..Len(s) : SumTo(s, n) = {}}
<1> SUFFICES ASSUME T # {} PROVE FALSE
  OBVIOUS
<1>1. PICK n \in T : \A y \in T : n <= y
  <2>1. T \in SUBSET Nat
    OBVIOUS
  <2> HIDE DEF T
  <2>2. QED
    BY <2>1, LeastNat
<1>2. CASE n = 0
  <2> DEFINE g == [k \in 0..0 |-> 0]
  <2>1. g \in SumTo(s, 0)
    BY DEF SumTo
  <2>2. QED
    BY <1>2, <2>1
<1>3. CASE n # 0
  <2>1. /\ n \in Nat /\ n \in 1..Len(s) /\ n - 1 \in 0..Len(s) /\ n - 1 \notin T
    BY <1>1, <1>3
  <2>2. PICK g \in SumTo(s, n - 1) : TRUE
    BY <2>1
  <2>3. /\ g \in [0..(n - 1) -> Nat] /\ Length(s[n]) \in Nat
        /\ \A k \in 0..(n - 1) : g[k] = IF k = 0 THEN 0 ELSE g[k - 1] + Length(s[k])
    BY <2>1, <2>2 DEF SumTo, Length
  <2> DEFINE h == [k \in 0..n |-> IF k = n THEN g[n - 1] + Length(s[n]) ELSE g[k]]
  <2>4. h \in [0..n -> Nat]
    BY <2>1, <2>3
  <2>5. \A k \in 0..n : h[k] = IF k = 0 THEN 0 ELSE h[k - 1] + Length(s[k])
    BY <2>1, <2>3
  <2> HIDE DEF h
  <2>6. h \in SumTo(s, n)
    BY <2>4, <2>5 DEF SumTo
  <2>7. QED
    BY <1>1, <2>6
<1>4. QED
  BY <1>2, <1>3

\* Two such rounds agree.
LEMMA SumUnique ==
  ASSUME NEW s \in Seq(Nat), NEW n \in 0..Len(s), NEW g \in SumTo(s, n), NEW f,
         f = [k \in 0..n |-> IF k = 0 THEN 0 ELSE f[k - 1] + Length(s[k])]
  PROVE  f = g
<1> DEFINE T == {k \in 0..n : f[k] # g[k]}
<1>1. /\ g = [k \in 0..n |-> IF k = 0 THEN 0 ELSE g[k - 1] + Length(s[k])]
      /\ n \in Nat
  BY DEF SumTo
<1>2. T = {}
  <2> SUFFICES ASSUME T # {} PROVE FALSE
    OBVIOUS
  <2>1. PICK k \in T : \A y \in T : k <= y
    <3>1. T \in SUBSET Nat
      OBVIOUS
    <3> HIDE DEF T
    <3>2. QED
      BY <3>1, LeastNat
  <2>2. k # 0
    BY <1>1, <2>1
  <2>3. k - 1 \in 0..n /\ k - 1 \notin T
    BY <2>1, <2>2
  <2>4. f[k - 1] = g[k - 1]
    BY <2>3
  <2>5. f[k] = f[k - 1] + Length(s[k]) /\ g[k] = g[k - 1] + Length(s[k])
    BY <1>1, <2>1, <2>2
  <2>6. QED
    BY <2>1, <2>4, <2>5
<1>3. f = [k \in 0..n |-> f[k]] /\ g = [k \in 0..n |-> g[k]]
  <2>1. DOMAIN f = 0..n /\ DOMAIN g = 0..n
    BY <1>1
  <2>2. f = [k \in DOMAIN f |-> f[k]] /\ g = [k \in DOMAIN g |-> g[k]]
    BY <1>1, Zenon
  <2>3. QED
    BY <2>1, <2>2
<1>4. \A k \in 0..n : f[k] = g[k]
  BY <1>2
<1>5. QED
  BY <1>3, <1>4, Zenon

\* A count of bytes is a number.
LEMMA BytesNat == \A s \in Seq(Nat) : Bytes(s) \in Nat
<1> SUFFICES ASSUME NEW s \in Seq(Nat) PROVE Bytes(s) \in Nat
  OBVIOUS
<1>1. Len(s) \in 0..Len(s) /\ Len(s) \in Nat
  OBVIOUS
<1>2. PICK g \in SumTo(s, Len(s)) : TRUE
  BY <1>1, SumExists
<1> DEFINE f == CHOOSE f : f = [n \in 0..Len(s) |-> IF n = 0 THEN 0 ELSE f[n - 1] + Length(s[n])]
<1>3. Bytes(s) = f[Len(s)]
  BY DEF Bytes
<1>4. f = [n \in 0..Len(s) |-> IF n = 0 THEN 0 ELSE f[n - 1] + Length(s[n])]
  <2>1. g = [n \in 0..Len(s) |-> IF n = 0 THEN 0 ELSE g[n - 1] + Length(s[n])]
    BY <1>2 DEF SumTo
  <2>2. QED
    BY <2>1, Zenon
<1> HIDE DEF f
<1>5. f = g
  BY <1>1, <1>2, <1>4, SumUnique
<1>6. g[Len(s)] \in Nat
  BY <1>1, <1>2 DEF SumTo
<1>7. QED
  BY <1>3, <1>5, <1>6

-----------------------------------------------------------------------------
(* What a call of tx has done so far                                       *)

\* The types of the variables.
Typed ==
  /\ xconn \in BOOLEAN /\ pc \in {"flush", "batch", "default", "recycle"}
  /\ txqueue \in Seq(Nat) /\ rest \in Seq(Nat) /\ wire \in Seq(Nat)
  /\ i \in Nat /\ npkts \in Nat /\ nbytes \in Nat /\ outPkts \in Nat /\ outBytes \in Nat
  /\ out \in Nat /\ pkts \in Nat /\ bytes \in Nat
  /\ xconnWriteError \in BOOLEAN /\ roundError \in BOOLEAN

\* The loop of tx: what is sent and what is left make up the queue.
Batching ==
  pc = "batch" =>
    /\ xconn /\ ~xconnWriteError
    /\ i = 1 /\ (roundError => rest = <<>> /\ Len(wire) < Len(txqueue))
    /\ ~roundError => /\ Len(wire) + Len(rest) = Len(txqueue)
                      /\ \A k \in 1..Len(rest) : rest[k] = txqueue[Len(wire) + k]

\* The loop of defaultTx: as many datagrams are left as are still to send.
Looping ==
  pc = "default" =>
    /\ 1 <= i /\ i <= Len(rest) + 1 /\ Len(rest) <= Len(txqueue)
    /\ roundError => i = Len(rest) + 1 /\ Len(wire) < Len(txqueue)
    /\ ~roundError => Len(wire) + Len(rest) + 1 = Len(txqueue) + i

\* Before the fallback the right datagrams are sent, and WriteBatch's counted.
Straight ==
  ~xconnWriteError =>
    /\ pc # "flush" => /\ Len(wire) <= Len(txqueue)
                       /\ \A k \in 1..Len(wire) : wire[k] = txqueue[k]
    /\ pc = "default" => /\ ~xconn /\ rest = txqueue
                         /\ ~roundError => Len(wire) + 1 = i
    /\ xconn /\ pc = "batch" => outPkts + npkts = pkts /\ outBytes + nbytes = bytes
    /\ xconn /\ pc # "batch" => outPkts = pkts /\ outBytes = bytes

TxInv == Typed /\ Batching /\ Looping /\ Straight /\ AsManySent

\* A session starts with nothing to send.
LEMMA TxInit == Init => TxInv
<1> SUFFICES ASSUME Init PROVE TxInv
  OBVIOUS
<1>1. <<>> \in Seq(Nat)
  OBVIOUS
<1>2. Typed
  BY <1>1 DEF Init, Typed
<1>3. Batching /\ Looping /\ Straight /\ AsManySent
  BY DEF Init, Batching, Looping, Straight, AsManySent
<1>4. QED
  BY <1>2, <1>3 DEF TxInv

\* output adds to the queue, uncork hands it over.
LEMMA QueueStep == TxInv /\ (Output \/ Uncork \/ Recycle) => TxInv'
<1> USE DEF TxInv
<1>1. TxInv /\ Output => TxInv'
  BY DEF Output, Typed, Batching, Looping, Straight, AsManySent, countVars, snmpVars,
         errVars, sentVars
<1>2. TxInv /\ Uncork => TxInv'
  <2> SUFFICES ASSUME TxInv, Uncork PROVE TxInv'
    OBVIOUS
  <2>1. /\ pc = "flush" /\ txqueue # <<>> /\ rest' = txqueue /\ i' = 1
        /\ npkts' = 0 /\ nbytes' = 0 /\ wire' = <<>> /\ roundError' = FALSE
        /\ pc' = IF xconn /\ ~xconnWriteError THEN "batch" ELSE "default"
        /\ UNCHANGED <<xconn, txqueue, xconnWriteError, outPkts, outBytes, out, pkts, bytes>>
    BY DEF Uncork, snmpVars
  <2>2. Typed'
    <3>1. pc' \in {"flush", "batch", "default", "recycle"} /\ wire' \in Seq(Nat)
      BY <2>1
    <3>2. QED
      BY <2>1, <3>1 DEF Typed
  <2>3. Batching' /\ Looping' /\ AsManySent'
    BY <2>1 DEF Typed, Batching, Looping, AsManySent
  <2>4. Straight'
    BY <2>1 DEF Typed, Straight
  <2>5. QED
    BY <2>2, <2>3, <2>4
<1>3. TxInv /\ Recycle => TxInv'
  BY DEF Recycle, Typed, Batching, Looping, Straight, AsManySent, countVars, snmpVars,
         errVars, sentVars
<1>4. QED
  BY <1>1, <1>2, <1>3

\* A queue cut in two.
LEMMA Cut ==
  ASSUME NEW s \in Seq(Nat), NEW n \in 1..Len(s)
  PROVE  /\ SubSeq(s, 1, n) \in Seq(Nat) /\ Len(SubSeq(s, 1, n)) = n
         /\ \A k \in 1..n : SubSeq(s, 1, n)[k] = s[k]
         /\ SubSeq(s, n + 1, Len(s)) \in Seq(Nat)
         /\ Len(SubSeq(s, n + 1, Len(s))) = Len(s) - n
         /\ \A k \in 1..(Len(s) - n) : SubSeq(s, n + 1, Len(s))[k] = s[n + k]
<1>1. SubSeq(s, 1, n) \in Seq(Nat) /\ Len(SubSeq(s, 1, n)) = n
  OBVIOUS
<1>2. \A k \in 1..n : SubSeq(s, 1, n)[k] = s[k]
  OBVIOUS
<1>3. /\ SubSeq(s, n + 1, Len(s)) \in Seq(Nat)
      /\ Len(SubSeq(s, n + 1, Len(s))) = Len(s) - n
  OBVIOUS
<1>4. \A k \in 1..(Len(s) - n) : SubSeq(s, n + 1, Len(s))[k] = s[n + k]
  OBVIOUS
<1>5. QED
  BY <1>1, <1>2, <1>3, <1>4

\* Two queues, one after the other.
LEMMA Joined ==
  ASSUME NEW s \in Seq(Nat), NEW u \in Seq(Nat)
  PROVE  /\ s \o u \in Seq(Nat) /\ Len(s \o u) = Len(s) + Len(u)
         /\ \A k \in 1..Len(s) : (s \o u)[k] = s[k]
         /\ \A k \in 1..Len(u) : (s \o u)[Len(s) + k] = u[k]
<1>1. s \o u \in Seq(Nat) /\ Len(s \o u) = Len(s) + Len(u)
  OBVIOUS
<1>2. \A k \in 1..Len(s) : (s \o u)[k] = s[k]
  OBVIOUS
<1>3. \A k \in 1..Len(u) : (s \o u)[Len(s) + k] = u[k]
  OBVIOUS
<1>4. QED
  BY <1>1, <1>2, <1>3

\* WriteBatch takes the first n datagrams of what is left.
LEMMA BatchStep == TxInv /\ BatchSend => TxInv'
<1> SUFFICES ASSUME TxInv, BatchSend PROVE TxInv'
  OBVIOUS
<1> DEFINE Taken(n) == SubSeq(rest, 1, n)
<1>1. Typed /\ Batching /\ Straight
  BY DEF TxInv
<1>2. /\ pc = "batch" /\ rest # <<>>
      /\ UNCHANGED <<xconn, pc, txqueue, i, xconnWriteError, roundError, outPkts, outBytes, out>>
  BY DEF BatchSend, errVars, snmpVars
<1>3. PICK n \in 1..Len(rest) :
        /\ Send(Taken(n)) /\ npkts' = npkts + n /\ nbytes' = nbytes + Bytes(Taken(n))
        /\ rest' = SubSeq(rest, n + 1, Len(rest))
  BY Zenon DEF BatchSend
<1>4. /\ n \in Nat /\ n <= Len(rest) /\ Len(rest) \in Nat /\ rest \in Seq(Nat) /\ wire \in Seq(Nat)
  BY <1>1 DEF Typed
<1>5. /\ Taken(n) \in Seq(Nat) /\ Len(Taken(n)) = n /\ \A k \in 1..n : Taken(n)[k] = rest[k]
      /\ rest' \in Seq(Nat) /\ Len(rest') = Len(rest) - n
      /\ \A k \in 1..Len(rest') : rest'[k] = rest[n + k]
  BY <1>3, <1>4, Cut
<1>6. Bytes(Taken(n)) \in Nat
  BY <1>5, BytesNat
<1> HIDE DEF Taken
<1>7. wire' = wire \o Taken(n) /\ pkts' = pkts + n /\ bytes' = bytes + Bytes(Taken(n))
  BY <1>3, <1>5 DEF Send
<1>8. /\ wire' \in Seq(Nat) /\ Len(wire') = Len(wire) + n
      /\ \A k \in 1..Len(wire) : wire'[k] = wire[k]
      /\ \A k \in 1..n : wire'[Len(wire) + k] = rest[k]
  <2> DEFINE f == Taken(n)
  <2>1. f \in Seq(Nat) /\ Len(f) = n /\ \A k \in 1..n : f[k] = rest[k]
    BY <1>5
  <2> HIDE DEF f
  <2>2. /\ wire \o f \in Seq(Nat) /\ Len(wire \o f) = Len(wire) + Len(f)
        /\ \A k \in 1..Len(wire) : (wire \o f)[k] = wire[k]
        /\ \A k \in 1..Len(f) : (wire \o f)[Len(wire) + k] = f[k]
    BY <1>4, <2>1, Joined
  <2>3. wire' = wire \o f
    BY <1>7 DEF f
  <2>4. QED
    BY <2>1, <2>2, <2>3
<1>9. Typed'
  <2>1. npkts' \in Nat /\ nbytes' \in Nat /\ pkts' \in Nat /\ bytes' \in Nat
    BY <1>1, <1>3, <1>4, <1>6, <1>7 DEF Typed
  <2>2. QED
    BY <1>1, <1>2, <1>5, <1>8, <2>1 DEF Typed
<1>10. /\ xconn /\ ~xconnWriteError /\ i = 1 /\ ~roundError /\ Len(wire) \in Nat
       /\ Len(wire) + Len(rest) = Len(txqueue) /\ Len(txqueue) \in Nat
       /\ \A k \in 1..Len(rest) : rest[k] = txqueue[Len(wire) + k]
       /\ \A k \in 1..Len(wire) : wire[k] = txqueue[k]
       /\ outPkts + npkts = pkts /\ outBytes + nbytes = bytes
  BY <1>1, <1>2 DEF Typed, Batching, Straight
<1>11. ASSUME NEW k \in 1..Len(rest')
       PROVE  rest'[k] = txqueue'[Len(wire') + k]
  <2>1. n + k \in 1..Len(rest) /\ Len(wire) + (n + k) = Len(wire') + k
    BY <1>4, <1>5, <1>8, <1>10
  <2>2. QED
    BY <1>2, <1>5, <1>10, <2>1
<1>12. Batching'
  <2>1. Len(wire') + Len(rest') = Len(txqueue')
    <3>1. /\ Len(wire) \in Nat /\ Len(rest) \in Nat /\ n \in Nat
          /\ Len(wire') = Len(wire) + n /\ Len(rest') = Len(rest) - n
          /\ Len(wire) + Len(rest) = Len(txqueue) /\ txqueue' = txqueue
      BY <1>2, <1>4, <1>5, <1>8, <1>10
    <3>2. QED
      BY <3>1
  <2>2. xconn' /\ ~xconnWriteError' /\ i' = 1 /\ ~roundError'
    BY <1>2, <1>10
  <2>3. QED
    BY <1>11, <2>1, <2>2 DEF Batching
<1>13. ASSUME NEW k \in 1..Len(wire')
       PROVE  wire'[k] = txqueue'[k]
  <2>1. CASE k \in 1..Len(wire)
    BY <1>2, <1>8, <1>10, <2>1
  <2>2. CASE k \notin 1..Len(wire)
    <3>1. /\ k - Len(wire) \in 1..n /\ k - Len(wire) \in 1..Len(rest)
          /\ Len(wire) + (k - Len(wire)) = k
      BY <1>4, <1>8, <1>10, <2>2
    <3>2. QED
      BY <1>2, <1>8, <1>10, <3>1
  <2>3. QED
    BY <2>1, <2>2
<1>14. outPkts' + npkts' = pkts' /\ outBytes' + nbytes' = bytes'
  <2>1. /\ npkts \in Nat /\ nbytes \in Nat /\ pkts \in Nat /\ bytes \in Nat
        /\ outPkts \in Nat /\ outBytes \in Nat
    BY <1>1 DEF Typed
  <2>2. outPkts' = outPkts /\ outBytes' = outBytes
    BY <1>2
  <2>3. QED
    <3>1. outPkts + npkts = pkts /\ outBytes + nbytes = bytes
      BY <1>10
    <3>2. /\ npkts' = npkts + n /\ pkts' = pkts + n
          /\ nbytes' = nbytes + Bytes(Taken(n)) /\ bytes' = bytes + Bytes(Taken(n))
      BY <1>3, <1>7
    <3> DEFINE b == Bytes(Taken(n))
    <3>3. b \in Nat /\ nbytes' = nbytes + b /\ bytes' = bytes + b
      BY <1>6, <3>2
    <3> HIDE DEF b
    <3>4. outPkts' + npkts' = pkts'
      BY <1>4, <2>1, <2>2, <3>1, <3>2
    <3>5. outBytes' + nbytes' = bytes'
      BY <2>1, <2>2, <3>1, <3>3
    <3>6. QED
      BY <3>4, <3>5
<1>15. Straight'
  <2>1. Len(wire') <= Len(txqueue') /\ pc' = "batch"
    BY <1>2, <1>4, <1>8, <1>10
  <2>2. QED
    BY <1>13, <1>14, <2>1 DEF Straight
<1>16. QED
  BY <1>2, <1>9, <1>12, <1>15 DEF TxInv, Looping, AsManySent

\* The two errors of WriteBatch, and its count.
LEMMA BatchEnds == TxInv /\ (BatchFallback \/ BatchFail \/ BatchCount) => TxInv'
<1>1. ASSUME TxInv, BatchFallback PROVE TxInv'
  <2>1. /\ Typed /\ Batching /\ pc = "batch" /\ rest # <<>> /\ pc' = "default"
        /\ xconnWriteError' = TRUE /\ npkts' = 0 /\ nbytes' = 0
        /\ UNCHANGED <<xconn, txqueue, rest, i, roundError, outPkts, outBytes, out, wire, pkts, bytes>>
    BY <1>1 DEF BatchFallback, TxInv, snmpVars, sentVars
  <2>2. Typed'
    BY <2>1 DEF Typed
  <2>3. /\ ~roundError /\ i = 1 /\ Len(wire) + Len(rest) = Len(txqueue)
        /\ Len(rest) \in Nat /\ Len(wire) \in Nat /\ Len(txqueue) \in Nat
    BY <2>1 DEF Typed, Batching
  <2>4. /\ 1 <= i /\ i <= Len(rest) + 1 /\ Len(rest) <= Len(txqueue)
        /\ Len(wire) + Len(rest) + 1 = Len(txqueue) + i
    BY <2>3
  <2>5. Looping'
    BY <2>1, <2>3, <2>4 DEF Looping
  <2>6. QED
    BY <2>1, <2>2, <2>5 DEF TxInv, Batching, Straight, AsManySent
<1>2. TxInv /\ BatchFail => TxInv'
  BY DEF BatchFail, NotifyWriteError, TxInv, Typed, Batching, Looping, Straight, AsManySent,
         countVars, snmpVars, sentVars
<1>3. TxInv /\ BatchCount => TxInv'
  BY DEF BatchCount, TxInv, Typed, Batching, Looping, Straight, AsManySent,
         countVars, errVars, sentVars
<1>4. QED
  BY <1>1, <1>2, <1>3

\* defaultTx sends s.txqueue[i].
LEMMA DefaultStep == TxInv /\ DefaultSend => TxInv'
<1> SUFFICES ASSUME TxInv, DefaultSend PROVE TxInv'
  OBVIOUS
<1> DEFINE d == txqueue[i]
<1>1. Typed /\ Looping /\ Straight
  BY DEF TxInv
<1>2. /\ pc = "default" /\ i <= Len(rest) /\ i' = i + 1 /\ npkts' = npkts + 1
      /\ nbytes' = nbytes + Length(d) /\ Send(<<d>>)
      /\ UNCHANGED <<xconn, pc, txqueue, rest, xconnWriteError, roundError, outPkts, outBytes, out>>
  BY DEF DefaultSend, errVars, snmpVars
<1>3. /\ 1 <= i /\ i \in Nat /\ Len(rest) <= Len(txqueue) /\ ~roundError
      /\ Len(rest) \in Nat /\ Len(txqueue) \in Nat /\ Len(wire) \in Nat /\ wire \in Seq(Nat)
      /\ Len(wire) + Len(rest) + 1 = Len(txqueue) + i
  BY <1>1, <1>2 DEF Typed, Looping
<1>4. d \in Nat /\ Length(d) \in Nat
  <2>1. txqueue \in Seq(Nat) /\ i \in 1..Len(txqueue)
    BY <1>1, <1>2, <1>3 DEF Typed
  <2>2. d \in Nat
    BY <2>1
  <2>3. QED
    BY <2>2 DEF Length
<1> HIDE DEF d
<1>5. /\ <<d>> \in Seq(Nat) /\ Len(<<d>>) = 1 /\ Bytes(<<d>>) \in Nat
      /\ wire' = wire \o <<d>> /\ pkts' = pkts + 1 /\ bytes' = bytes + Bytes(<<d>>)
  <2>1. <<d>> \in Seq(Nat) /\ Len(<<d>>) = 1
    BY <1>4
  <2>2. QED
    BY <1>2, <2>1, BytesNat DEF Send
<1>6. /\ wire' \in Seq(Nat) /\ Len(wire') = Len(wire) + 1
      /\ wire'[Len(wire) + 1] = d /\ \A k \in 1..Len(wire) : wire'[k] = wire[k]
  <2>1. wire' = Append(wire, d)
    BY <1>3, <1>4, <1>5
  <2>2. QED
    BY <1>3, <1>4, <2>1
<1>7. Typed'
  <2>1. /\ i' \in Nat /\ npkts' \in Nat /\ nbytes' \in Nat /\ pkts' \in Nat /\ bytes' \in Nat
    BY <1>1, <1>2, <1>4, <1>5 DEF Typed
  <2>2. QED
    BY <1>1, <1>2, <1>6, <2>1 DEF Typed
<1>8. Looping'
  <2>1. /\ 1 <= i' /\ i' <= Len(rest) + 1
        /\ Len(wire') + Len(rest) + 1 = Len(txqueue) + i'
    <3>1. i' = i + 1 /\ i <= Len(rest) /\ Len(wire') = Len(wire) + 1
      BY <1>2, <1>6
    <3>2. /\ 1 <= i /\ i \in Nat /\ Len(rest) \in Nat /\ Len(txqueue) \in Nat
          /\ Len(wire) \in Nat /\ Len(wire) + Len(rest) + 1 = Len(txqueue) + i
      BY <1>3
    <3>3. QED
      BY <3>1, <3>2
  <2>2. ~roundError' /\ rest' = rest /\ txqueue' = txqueue
    BY <1>2, <1>3
  <2>3. QED
    BY <1>3, <2>1, <2>2 DEF Looping
<1>9. Straight'
  <2> SUFFICES ASSUME ~xconnWriteError PROVE Straight'
    BY <1>2 DEF Straight
  <2>1. /\ ~xconn /\ rest = txqueue /\ Len(wire) + 1 = i
        /\ \A k \in 1..Len(wire) : wire[k] = txqueue[k]
    BY <1>1, <1>2, <1>3 DEF Straight
  <2>2. Len(wire') <= Len(txqueue') /\ Len(wire') + 1 = i'
    BY <1>2, <1>3, <1>6, <2>1
  <2>3. ASSUME NEW k \in 1..Len(wire') PROVE wire'[k] = txqueue'[k]
    <3>1. CASE k \in 1..Len(wire)
      BY <1>2, <1>6, <2>1, <3>1
    <3>2. CASE k = Len(wire) + 1
      BY <1>2, <1>6, <2>1, <3>2 DEF d
    <3>3. QED
      BY <1>3, <1>6, <3>1, <3>2
  <2>4. QED
    BY <1>2, <2>1, <2>2, <2>3 DEF Straight
<1>10. QED
  BY <1>2, <1>7, <1>8, <1>9 DEF TxInv, Batching, AsManySent

\* The error of WriteTo, and the count of defaultTx.
LEMMA DefaultEnds == TxInv /\ (DefaultFail \/ DefaultCount) => TxInv'
<1>1. TxInv /\ DefaultFail => TxInv'
  BY DEF DefaultFail, NotifyWriteError, TxInv, Typed, Batching, Looping, Straight, AsManySent,
         countVars, snmpVars, sentVars
<1>2. TxInv /\ DefaultCount => TxInv'
  BY DEF DefaultCount, TxInv, Typed, Batching, Looping, Straight, AsManySent,
         countVars, errVars, sentVars
<1>3. QED
  BY <1>1, <1>2

\* What tx knows of what it sent, whatever the socket answers.
THEOREM TxInvariance == Spec => []TxInv
<1>1. TxInv /\ UNCHANGED vars => TxInv'
  BY DEF vars, TxInv, Typed, Batching, Looping, Straight, AsManySent, countVars, snmpVars,
         errVars, sentVars
<1>2. TxInv /\ [Next]_vars => TxInv'
  BY <1>1, QueueStep, BatchStep, BatchEnds, DefaultStep, DefaultEnds DEF Next
<1>3. QED
  BY TxInit, <1>2, PTL DEF Spec

\* A call of tx that notifies no error sends as many datagrams as were queued.
THEOREM AsMany == Spec => []AsManySent
<1>1. TxInv => AsManySent
  BY DEF TxInv
<1>2. QED
  BY <1>1, TxInvariance, PTL

\* Before the fallback a call that meets no error sends the queue in order, one
\* that does a beginning of it, and what WriteBatch sent is counted.
THEOREM SentInOrder == Spec => []RoundSentBeforeFallback
<1>1. ASSUME TxInv PROVE RoundSentBeforeFallback
  <2> SUFFICES ASSUME ~xconnWriteError
               PROVE  /\ RoundSent
                      /\ pc = "flush" /\ xconn => outPkts = pkts /\ outBytes = bytes
    BY DEF RoundSentBeforeFallback
  <2>1. Typed /\ Straight /\ AsManySent
    BY <1>1 DEF TxInv
  <2>2. ASSUME pc = "recycle"
        PROVE  IsPrefix(wire, txqueue) /\ (~roundError => wire = txqueue)
    <3>1. /\ wire \in Seq(Nat) /\ txqueue \in Seq(Nat) /\ Len(wire) <= Len(txqueue)
          /\ \A k \in 1..Len(wire) : wire[k] = txqueue[k]
      BY <2>1, <2>2 DEF Typed, Straight
    <3>2. SubSeq(wire, 1, Len(wire)) = SubSeq(txqueue, 1, Len(wire))
      BY <3>1
    <3>3. IsPrefix(wire, txqueue)
      BY <3>1, <3>2 DEF IsPrefix
    <3>4. ~roundError => wire = txqueue
      BY <2>1, <2>2, <3>1 DEF AsManySent
    <3>5. QED
      BY <3>3, <3>4
  <2>3. QED
    BY <2>1, <2>2 DEF Straight, RoundSent
<1>2. QED
  BY <1>1, TxInvariance, PTL
=============================================================================
