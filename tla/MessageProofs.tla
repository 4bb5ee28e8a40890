---------------------------- MODULE MessageProofs ----------------------------
(***************************************************************************)
(* That messages keep their bytes and their borders, and segments their    *)
(* size, for every mtu, every reserved header and every sequence of calls. *)
(***************************************************************************)
EXTENDS Message, WellFoundedInduction, TLAPS

-----------------------------------------------------------------------------
(* The invariant                                                           *)

Seg == [from : Nat, to : Nat, frg : Nat]

\* The types; mss follows mtu.
TypeOK ==
  /\ mtu \in Nat /\ mtu >= MtuMin /\ mss = mtu - Overhead - Reserve /\ stream \in BOOLEAN
  /\ sndQueue \in Seq(Seg) /\ sndBuf \in Seq(Seg) /\ rcvQueue \in Seq(Seg)
  /\ got \in 0..Len(sndBuf) /\ read \in Nat /\ written \in Nat
  /\ ends \in SUBSET Nat /\ messages \in SUBSET (Nat \X Nat)
  /\ lowered \in BOOLEAN /\ crashed \in BOOLEAN

\* The segments of w hold the bytes from lo to hi, in order and without a gap.
Chain(w, lo, hi) ==
  /\ \A i \in 1..Len(w) :
       /\ w[i].from = IF i = 1 THEN lo ELSE w[i - 1].to
       /\ w[i].from < w[i].to /\ lo <= w[i].from /\ w[i].to <= hi
  /\ \A i, j \in 1..Len(w) : i < j => w[i].to <= w[j].from
  /\ hi = IF w = <<>> THEN lo ELSE w[Len(w)].to

\* A segment with number frg is followed by the frg other fragments of its message.
Numbered(w) ==
  \A i \in 1..Len(w) : /\ i + w[i].frg <= Len(w)
                       /\ \A d \in 0..w[i].frg : w[i + d].frg = w[i].frg - d

\* The bytes of message m, of which lo are read: the message before it ends where
\* m begins, and none ends inside m, neither among the results of Receive nor
\* among the segments w on their way.
Whole(m, w, lo, hi, es) ==
  /\ m[1] < m[2] /\ m[2] <= hi
  /\ m[1] <= lo => m[1] \in es
  /\ m[1] > lo => \E i \in 1..Len(w) : w[i].frg = 0 /\ w[i].to = m[1]
  /\ \A i \in 1..Len(w) : w[i].frg = 0 => ~(m[1] < w[i].to /\ w[i].to < m[2])
  /\ \A e \in es : ~(m[1] < e /\ e < m[2])

\* No segment is longer than mss, unless SetMtu lowered it below one that waited.
Fitting ==
  /\ crashed => lowered
  /\ ~lowered => /\ \A i \in 1..Len(sndBuf) : Length(sndBuf[i]) <= mss
                 /\ \A i \in 1..Len(sndQueue) : Length(sndQueue[i]) <= mss

MInv ==
  /\ TypeOK /\ Fitting
  /\ Chain(OnTheWay, read, written) /\ Numbered(OnTheWay)
  /\ read \in ends /\ \A e \in ends : e <= read
  /\ \A m \in messages : Whole(m, OnTheWay, read, written, ends)
-----------------------------------------------------------------------------
(* Numbers and sequences                                                   *)

\* The numbers in a set have a least one.
LEMMA LeastNat ==
  ASSUME NEW T \in SUBSET Nat, T # {}
  PROVE  \E x \in T : \A y \in T : x <= y
<1>1. IsWellFoundedOn(OpToRel(<, Nat), Nat)
  BY NatLessThanWellFounded
<1>2. PICK x \in T : \A y \in T : <<y, x>> \notin OpToRel(<, Nat)
  BY <1>1, WFMin, Zenon
<1>3. \A y \in T : ~(y < x)
  BY <1>2 DEF OpToRel
<1>4. QED
  BY <1>3

\* Multiples grow with the factor.
LEMMA Multiples ==
  ASSUME NEW a \in Nat, NEW b \in Nat, NEW m \in Nat, a <= b
  PROVE  a * m \in Nat /\ b * m \in Nat /\ a * m <= b * m
<1>1. PICK d \in Nat : b = a + d
  <2>1. b - a \in Nat /\ b = a + (b - a)
    OBVIOUS
  <2>2. QED
    BY <2>1
<1>2. (a + d) * m = a * m + d * m /\ a * m \in Nat /\ d * m \in Nat
  OBVIOUS
<1>3. QED
  BY <1>1, <1>2

\* One segment more is mss bytes more.
LEMMA OneMore ==
  ASSUME NEW i \in Nat, NEW m \in Nat
  PROVE  i * m \in Nat /\ (i + 1) * m = i * m + m
OBVIOUS

\* The number of fragments of n bytes: as many as reach n, and no fewer do.
LEMMA CountBounds ==
  ASSUME mss \in Nat \ {0}, NEW n \in Nat
  PROVE  /\ Count(n) \in Nat /\ n <= Count(n) * mss
         /\ n = 0 => Count(n) = 0
         /\ n > 0 => Count(n) >= 1 /\ (Count(n) - 1) * mss < n
<1> DEFINE m == mss
           y == n + m - 1
           q == y \div m
<1>1. m \in Nat \ {0} /\ y \in Nat /\ Count(n) = q
  BY DEF Count
<1> HIDE DEF m
<1>2. \A z \in Nat, d \in Nat \ {0} : z \div d \in Nat /\ d * (z \div d) <= z /\ z < d * (z \div d) + d
  OBVIOUS
<1>3. q \in Nat /\ m * q <= y /\ y < m * q + m
  BY <1>1, <1>2
<1> HIDE DEF q
<1>4. (q - 1) * m = m * q - m /\ q * m = m * q /\ m * q \in Nat
  BY <1>1, <1>3
<1>5. n <= q * m /\ (q - 1) * m < n
  BY <1>1, <1>3, <1>4
<1>6. n = 0 => q = 0
  <2> SUFFICES ASSUME n = 0, q >= 1 PROVE FALSE
    BY <1>3
  <2>1. (q - 1) * m \in Nat
    BY <1>1, <1>3
  <2>2. QED
    BY <1>5, <2>1
<1>7. n > 0 => q >= 1
  <2> SUFFICES ASSUME n > 0, q = 0 PROVE FALSE
    BY <1>3
  <2>1. q * m = 0
    BY <1>1
  <2>2. QED
    BY <1>5, <2>1
<1>8. QED
  BY <1>1, <1>3, <1>5, <1>6, <1>7 DEF m

\* A sequence is its elements.
LEMMA SameSeq ==
  ASSUME NEW s \in Seq(Seg), NEW u \in Seq(Seg), Len(s) = Len(u),
         \A i \in 1..Len(s) : s[i] = u[i]
  PROVE  s = u
OBVIOUS

\* Two sequences, one after the other.
LEMMA Joined ==
  ASSUME NEW s \in Seq(Seg), NEW u \in Seq(Seg)
  PROVE  /\ s \o u \in Seq(Seg) /\ Len(s \o u) = Len(s) + Len(u)
         /\ Len(s) \in Nat /\ Len(u) \in Nat
         /\ \A k \in 1..Len(s) : (s \o u)[k] = s[k]
         /\ \A k \in 1..Len(u) : (s \o u)[Len(s) + k] = u[k]
         /\ \A k \in 1..Len(s \o u) :
              IF k <= Len(s) THEN k \in 1..Len(s) /\ (s \o u)[k] = s[k]
              ELSE k - Len(s) \in 1..Len(u) /\ (s \o u)[k] = u[k - Len(s)]
<1>1. /\ s \o u \in Seq(Seg) /\ Len(s \o u) = Len(s) + Len(u)
      /\ Len(s) \in Nat /\ Len(u) \in Nat
  OBVIOUS
<1>2. \A k \in 1..Len(s) : (s \o u)[k] = s[k]
  OBVIOUS
<1>3. \A k \in 1..Len(u) : (s \o u)[Len(s) + k] = u[k]
  OBVIOUS
<1>4. ASSUME NEW k \in 1..Len(s \o u), ~(k <= Len(s))
      PROVE  k - Len(s) \in 1..Len(u) /\ (s \o u)[k] = u[k - Len(s)]
  <2>1. k - Len(s) \in 1..Len(u) /\ Len(s) + (k - Len(s)) = k
    BY <1>1, <1>4
  <2>2. QED
    BY <1>3, <2>1
<1>5. ASSUME NEW k \in 1..Len(s \o u), k <= Len(s)
      PROVE  k \in 1..Len(s) /\ (s \o u)[k] = s[k]
  BY <1>1, <1>2, <1>5
<1>6. QED
  BY <1>1, <1>2, <1>3, <1>4, <1>5

\* A part of a sequence.
LEMMA PartOf ==
  ASSUME NEW s \in Seq(Seg), NEW a \in 1..(Len(s) + 1), NEW b \in (a - 1)..Len(s)
  PROVE  /\ SubSeq(s, a, b) \in Seq(Seg) /\ Len(SubSeq(s, a, b)) = b - a + 1
         /\ b - a + 1 \in Nat /\ Len(s) \in Nat
         /\ \A k \in 1..(b - a + 1) :
              a + k - 1 \in 1..Len(s) /\ SubSeq(s, a, b)[k] = s[a + k - 1]
<1>1. Len(s) \in Nat /\ a \in Nat /\ b \in Int /\ b - a + 1 \in Nat
  OBVIOUS
<1>2. \A k \in a..b : k \in 1..Len(s) /\ s[k] \in Seg
  OBVIOUS
<1>3. SubSeq(s, a, b) \in Seq(Seg)
  BY <1>1, <1>2
<1>4. Len(SubSeq(s, a, b)) = b - a + 1
  BY <1>1, <1>2
<1>5. \A k \in 1..(b - a + 1) : a + k - 1 \in 1..Len(s)
  BY <1>1
<1>6. \A k \in 1..(b - a + 1) : SubSeq(s, a, b)[k] = s[a + k - 1]
  BY <1>1, <1>2, <1>4
<1>7. QED
  BY <1>1, <1>3, <1>4, <1>5, <1>6

\* What is left of a sequence after its first k elements.
LEMMA RestOf ==
  ASSUME NEW q \in Seq(Seg), NEW k \in 0..Len(q)
  PROVE  /\ SubSeq(q, k + 1, Len(q)) \in Seq(Seg)
         /\ Len(SubSeq(q, k + 1, Len(q))) = Len(q) - k
         /\ Len(q) \in Nat /\ k \in Nat /\ Len(q) - k \in Nat
         /\ \A i \in 1..(Len(q) - k) :
              k + i \in 1..Len(q) /\ SubSeq(q, k + 1, Len(q))[i] = q[k + i]
<1> DEFINE b == SubSeq(q, k + 1, Len(q))
<1>1. /\ k + 1 \in 1..(Len(q) + 1) /\ Len(q) \in ((k + 1) - 1)..Len(q)
      /\ Len(q) \in Nat /\ k \in Nat /\ Len(q) - k \in Nat
  OBVIOUS
<1>2. Len(q) - (k + 1) + 1 = Len(q) - k /\ \A i \in Int : (k + 1) + i - 1 = k + i
  BY <1>1
<1>3. /\ b \in Seq(Seg) /\ Len(b) = Len(q) - (k + 1) + 1
      /\ \A i \in 1..(Len(q) - (k + 1) + 1) :
           (k + 1) + i - 1 \in 1..Len(q) /\ b[i] = q[(k + 1) + i - 1]
  BY <1>1, PartOf
<1> HIDE DEF b
<1>4. b \in Seq(Seg) /\ Len(b) = Len(q) - k
  BY <1>2, <1>3
<1>5. ASSUME NEW i \in 1..(Len(q) - k) PROVE k + i \in 1..Len(q) /\ b[i] = q[k + i]
  <2>1. i \in 1..(Len(q) - (k + 1) + 1) /\ i \in Int
    BY <1>2
  <2>2. (k + 1) + i - 1 \in 1..Len(q) /\ b[i] = q[(k + 1) + i - 1]
    BY <1>3, <2>1
  <2>3. (k + 1) + i - 1 = k + i
    BY <1>2, <2>1
  <2>4. QED
    BY <2>2, <2>3
<1>6. QED
  BY <1>1, <1>4, <1>5 DEF b

-----------------------------------------------------------------------------
(* Chains of segments                                                      *)

\* A chain is never longer than what it holds allows: it ends after it begins.
LEMMA ChainEnds ==
  ASSUME NEW w \in Seq(Seg), NEW lo \in Nat, NEW hi \in Nat, Chain(w, lo, hi)
  PROVE  /\ lo <= hi /\ (w # <<>> => lo < hi)
         /\ w # <<>> => Len(w) \in 1..Len(w) /\ w[Len(w)].to = hi
<1>1. CASE w = <<>>
  BY <1>1 DEF Chain
<1>2. CASE w # <<>>
  <2>1. Len(w) \in 1..Len(w) /\ w[Len(w)] \in Seg
    BY <1>2
  <2>2. /\ w[Len(w)].to = hi /\ w[Len(w)].from < w[Len(w)].to /\ lo <= w[Len(w)].from
    BY <1>2, <2>1 DEF Chain
  <2>3. QED
    BY <1>2, <2>1, <2>2 DEF Seg
<1>3. QED
  BY <1>1, <1>2

\* A chain that goes on where another ends.
LEMMA ChainJoined ==
  ASSUME NEW w \in Seq(Seg), NEW v \in Seq(Seg), NEW lo \in Nat, NEW mid \in Nat,
         NEW hi \in Nat, Chain(w, lo, mid), Chain(v, mid, hi)
  PROVE  Chain(w \o v, lo, hi)
<1> DEFINE x == w \o v
<1>1. /\ x \in Seq(Seg) /\ Len(x) = Len(w) + Len(v) /\ Len(w) \in Nat /\ Len(v) \in Nat
      /\ \A k \in 1..Len(x) :
           IF k <= Len(w) THEN k \in 1..Len(w) /\ x[k] = w[k]
           ELSE k - Len(w) \in 1..Len(v) /\ x[k] = v[k - Len(w)]
  BY Joined
<1> HIDE DEF x
<1>2. lo <= mid /\ mid <= hi
  BY ChainEnds
<1>3. /\ \A i \in 1..Len(w) : /\ w[i].from = IF i = 1 THEN lo ELSE w[i - 1].to
                              /\ w[i].from < w[i].to /\ lo <= w[i].from /\ w[i].to <= mid
                              /\ w[i] \in Seg
      /\ \A i \in 1..Len(v) : /\ v[i].from = IF i = 1 THEN mid ELSE v[i - 1].to
                              /\ v[i].from < v[i].to /\ mid <= v[i].from /\ v[i].to <= hi
                              /\ v[i] \in Seg
      /\ mid = IF w = <<>> THEN lo ELSE w[Len(w)].to
      /\ hi = IF v = <<>> THEN mid ELSE v[Len(v)].to
  BY DEF Chain
<1>4. ASSUME NEW i \in 1..Len(x)
      PROVE  /\ x[i].from = IF i = 1 THEN lo ELSE x[i - 1].to
             /\ x[i].from < x[i].to /\ lo <= x[i].from /\ x[i].to <= hi
  <2>1. CASE i <= Len(w)
    <3>1. i \in 1..Len(w) /\ x[i] = w[i] /\ x[i].from \in Nat /\ x[i].to \in Nat
      BY <1>1, <1>3, <2>1 DEF Seg
    <3>2. x[i].from < x[i].to /\ lo <= x[i].from /\ x[i].to <= hi
      BY <1>2, <1>3, <3>1
    <3>3. i # 1 => i - 1 \in 1..Len(x) /\ i - 1 <= Len(w) /\ x[i - 1] = w[i - 1]
      BY <1>1, <2>1
    <3>4. QED
      BY <1>3, <3>1, <3>2, <3>3
  <2>2. CASE ~(i <= Len(w))
    <3> DEFINE j == i - Len(w)
    <3>1. j \in 1..Len(v) /\ x[i] = v[j] /\ x[i].from \in Nat /\ x[i].to \in Nat
      BY <1>1, <1>3, <2>2 DEF Seg
    <3>2. x[i].from < x[i].to /\ lo <= x[i].from /\ x[i].to <= hi
      BY <1>2, <1>3, <3>1
    <3>3. CASE j = 1
      <4>1. i - 1 = Len(w)
        BY <1>1, <2>2, <3>3
      <4>2. CASE w = <<>>
        BY <1>1, <1>3, <3>1, <3>2, <3>3, <4>1, <4>2
      <4>3. CASE w # <<>>
        <5>1. i # 1 /\ i - 1 \in 1..Len(x) /\ x[i - 1] = w[Len(w)]
          BY <1>1, <4>1, <4>3
        <5>2. QED
          BY <1>3, <3>1, <3>2, <3>3, <4>3, <5>1
      <4>4. QED
        BY <4>2, <4>3
    <3>4. CASE j # 1
      <4>1. i # 1 /\ i - 1 \in 1..Len(x) /\ ~(i - 1 <= Len(w)) /\ (i - 1) - Len(w) = j - 1
        BY <1>1, <2>2, <3>1, <3>4
      <4>2. x[i - 1] = v[j - 1]
        BY <1>1, <4>1
      <4>3. QED
        BY <1>3, <3>1, <3>2, <3>4, <4>1, <4>2
    <3>5. QED
      BY <3>3, <3>4
  <2>3. QED
    BY <2>1, <2>2
<1>5. ASSUME NEW i \in 1..Len(x), NEW j \in 1..Len(x), i < j
      PROVE  x[i].to <= x[j].from
  <2>1. CASE j <= Len(w)
    <3>1. i \in 1..Len(w) /\ j \in 1..Len(w) /\ x[i] = w[i] /\ x[j] = w[j]
      BY <1>1, <1>5, <2>1
    <3>2. QED
      BY <1>5, <3>1 DEF Chain
  <2>2. CASE ~(j <= Len(w)) /\ i <= Len(w)
    <3>1. i \in 1..Len(w) /\ x[i] = w[i] /\ j - Len(w) \in 1..Len(v) /\ x[j] = v[j - Len(w)]
      BY <1>1, <2>2
    <3>2. x[i].to <= mid /\ mid <= x[j].from /\ x[i].to \in Nat /\ x[j].from \in Nat
      BY <1>3, <3>1 DEF Seg
    <3>3. QED
      BY <3>2
  <2>3. CASE ~(j <= Len(w)) /\ ~(i <= Len(w))
    <3>1. /\ i - Len(w) \in 1..Len(v) /\ x[i] = v[i - Len(w)]
          /\ j - Len(w) \in 1..Len(v) /\ x[j] = v[j - Len(w)] /\ i - Len(w) < j - Len(w)
      BY <1>1, <1>5, <2>3
    <3>2. QED
      BY <3>1 DEF Chain
  <2>4. QED
    BY <2>1, <2>2, <2>3
<1>6. hi = IF x = <<>> THEN lo ELSE x[Len(x)].to
  <2>1. CASE v = <<>>
    <3>1. Len(x) = Len(w) /\ (x = <<>> <=> w = <<>>)
      BY <1>1, <2>1
    <3>2. w # <<>> => Len(x) \in 1..Len(x) /\ x[Len(x)] = w[Len(w)]
      BY <1>1, <3>1
    <3>3. QED
      BY <1>3, <2>1, <3>1, <3>2
  <2>2. CASE v # <<>>
    <3>1. Len(x) \in 1..Len(x) /\ ~(Len(x) <= Len(w)) /\ Len(x) - Len(w) = Len(v) /\ x # <<>>
      BY <1>1, <2>2
    <3>2. QED
      BY <1>1, <1>3, <2>2, <3>1
  <2>3. QED
    BY <2>1, <2>2
<1>7. QED
  BY <1>4, <1>5, <1>6 DEF Chain, x

\* What is left of a chain after its first k segments.
LEMMA ChainCut ==
  ASSUME NEW w \in Seq(Seg), NEW lo \in Nat, NEW hi \in Nat, Chain(w, lo, hi),
         NEW k \in 1..Len(w)
  PROVE  Chain(SubSeq(w, k + 1, Len(w)), w[k].to, hi)
<1> DEFINE x == SubSeq(w, k + 1, Len(w))
           n == Len(w) - k
<1>1. /\ x \in Seq(Seg) /\ Len(x) = n /\ n \in Nat /\ Len(w) \in Nat
      /\ \A i \in 1..n : k + i \in 1..Len(w) /\ x[i] = w[k + i]
  BY RestOf
<1> HIDE DEF x
<1>2. \A i \in 1..Len(w) : w[i] \in Seg /\ w[i].from \in Nat /\ w[i].to \in Nat
  <2>1. \A i \in 1..Len(w) : w[i] \in Seg
    OBVIOUS
  <2>2. QED
    BY <2>1 DEF Seg
<1>3. ASSUME NEW i \in 1..Len(x)
      PROVE  /\ x[i].from = IF i = 1 THEN w[k].to ELSE x[i - 1].to
             /\ x[i].from < x[i].to /\ w[k].to <= x[i].from /\ x[i].to <= hi
  <2>1. k + i \in 1..Len(w) /\ x[i] = w[k + i] /\ k + i # 1 /\ k < k + i /\ (k + i) - 1 = k + (i - 1)
    BY <1>1
  <2>2. /\ w[k + i].from = w[(k + i) - 1].to /\ w[k + i].from < w[k + i].to
        /\ w[k + i].to <= hi /\ w[k].to <= w[k + i].from
    BY <2>1 DEF Chain
  <2>3. i # 1 => i - 1 \in 1..n /\ x[i - 1] = w[k + (i - 1)]
    <3>1. i \in 1..n
      BY <1>1
    <3>2. i # 1 => i - 1 \in 1..n
      BY <1>1, <3>1
    <3>3. QED
      BY <1>1, <3>2
  <2>4. QED
    BY <2>1, <2>2, <2>3
<1>4. ASSUME NEW i \in 1..Len(x), NEW j \in 1..Len(x), i < j
      PROVE  x[i].to <= x[j].from
  <2>1. /\ k + i \in 1..Len(w) /\ x[i] = w[k + i] /\ k + j \in 1..Len(w) /\ x[j] = w[k + j]
        /\ k + i < k + j
    BY <1>1, <1>4
  <2>2. QED
    BY <2>1 DEF Chain
<1>5. hi = IF x = <<>> THEN w[k].to ELSE x[Len(x)].to
  <2>1. w # <<>> /\ hi = w[Len(w)].to
    BY DEF Chain
  <2>2. CASE x = <<>>
    BY <1>1, <2>1, <2>2
  <2>3. CASE x # <<>>
    <3>1. Len(x) \in 1..n /\ k + Len(x) = Len(w)
      BY <1>1, <2>3
    <3>2. QED
      BY <1>1, <2>1, <2>3, <3>1
  <2>4. QED
    BY <2>2, <2>3
<1>6. QED
  BY <1>3, <1>4, <1>5 DEF Chain, x

\* Fragment numbers of two lists, one after the other.
LEMMA NumberedJoined ==
  ASSUME NEW w \in Seq(Seg), NEW v \in Seq(Seg), Numbered(w), Numbered(v)
  PROVE  Numbered(w \o v)
<1> DEFINE x == w \o v
<1>1. /\ x \in Seq(Seg) /\ Len(x) = Len(w) + Len(v) /\ Len(w) \in Nat /\ Len(v) \in Nat
      /\ \A k \in 1..Len(w) : x[k] = w[k]
      /\ \A k \in 1..Len(v) : x[Len(w) + k] = v[k]
      /\ \A k \in 1..Len(x) :
           IF k <= Len(w) THEN k \in 1..Len(w) /\ x[k] = w[k]
           ELSE k - Len(w) \in 1..Len(v) /\ x[k] = v[k - Len(w)]
  BY Joined
<1> HIDE DEF x
<1>2. ASSUME NEW i \in 1..Len(x)
      PROVE  /\ i + x[i].frg <= Len(x)
             /\ \A d \in 0..x[i].frg : x[i + d].frg = x[i].frg - d
  <2>1. CASE i <= Len(w)
    <3>1. i \in 1..Len(w) /\ x[i] = w[i] /\ x[i].frg \in Nat
      <4>1. i \in 1..Len(w) /\ x[i] = w[i]
        BY <1>1, <2>1
      <4>2. w[i] \in Seg
        BY <4>1
      <4>3. QED
        BY <4>1, <4>2 DEF Seg
    <3>2. i + w[i].frg <= Len(w) /\ \A d \in 0..w[i].frg : w[i + d].frg = w[i].frg - d
      BY <3>1 DEF Numbered
    <3>3. ASSUME NEW d \in 0..x[i].frg
          PROVE  x[i + d].frg = x[i].frg - d
      <4>1. i + d \in 1..Len(w)
        BY <1>1, <3>1, <3>2
      <4>2. x[i + d] = w[i + d]
        BY <1>1, <4>1
      <4>3. QED
        BY <3>1, <3>2, <4>2
    <3>4. i + x[i].frg <= Len(x)
      BY <1>1, <3>1, <3>2
    <3>5. QED
      BY <3>3, <3>4
  <2>2. CASE ~(i <= Len(w))
    <3> DEFINE j == i - Len(w)
    <3>1. j \in 1..Len(v) /\ x[i] = v[j] /\ x[i].frg \in Nat /\ i = Len(w) + j
      <4>1. j \in 1..Len(v) /\ x[i] = v[j] /\ i = Len(w) + j
        BY <1>1, <2>2
      <4>2. v[j] \in Seg
        BY <4>1
      <4>3. QED
        BY <4>1, <4>2 DEF Seg
    <3> HIDE DEF j
    <3>2. j + v[j].frg <= Len(v) /\ \A d \in 0..v[j].frg : v[j + d].frg = v[j].frg - d
      BY <3>1 DEF Numbered
    <3>3. ASSUME NEW d \in 0..x[i].frg
          PROVE  x[i + d].frg = x[i].frg - d
      <4>1. j + d \in 1..Len(v) /\ i + d = Len(w) + (j + d)
        BY <1>1, <3>1, <3>2
      <4>2. x[i + d] = v[j + d]
        BY <1>1, <4>1
      <4>3. QED
        BY <3>1, <3>2, <4>2
    <3>4. i + x[i].frg <= Len(x)
      BY <1>1, <3>1, <3>2
    <3>5. QED
      BY <3>3, <3>4
  <2>3. QED
    BY <2>1, <2>2
<1>3. QED
  BY <1>2 DEF Numbered, x

\* Fragment numbers of what is left after the end of a message.
LEMMA NumberedCut ==
  ASSUME NEW w \in Seq(Seg), Numbered(w), NEW k \in 1..Len(w)
  PROVE  Numbered(SubSeq(w, k + 1, Len(w)))
<1> DEFINE x == SubSeq(w, k + 1, Len(w))
           n == Len(w) - k
<1>1. /\ x \in Seq(Seg) /\ Len(x) = n /\ n \in Nat /\ Len(w) \in Nat /\ k \in Nat
      /\ \A i \in 1..n : k + i \in 1..Len(w) /\ x[i] = w[k + i]
  BY RestOf
<1> HIDE DEF x
<1>2. ASSUME NEW i \in 1..Len(x)
      PROVE  /\ i + x[i].frg <= Len(x)
             /\ \A d \in 0..x[i].frg : x[i + d].frg = x[i].frg - d
  <2>1. i \in 1..n /\ k + i \in 1..Len(w) /\ x[i] = w[k + i]
    BY <1>1
  <2>2. w[k + i] \in Seg
    BY <2>1
  <2>3. x[i].frg \in Nat
    BY <2>1, <2>2 DEF Seg
  <2>4. /\ (k + i) + w[k + i].frg <= Len(w)
        /\ \A d \in 0..w[k + i].frg : w[(k + i) + d].frg = w[k + i].frg - d
    BY <2>1 DEF Numbered
  <2>5. i + x[i].frg <= Len(x)
    BY <1>1, <2>1, <2>3, <2>4
  <2>6. ASSUME NEW d \in 0..x[i].frg PROVE x[i + d].frg = x[i].frg - d
    <3>1. i + d \in 1..n /\ k + (i + d) = (k + i) + d
      BY <1>1, <2>1, <2>3, <2>5
    <3>2. x[i + d] = w[(k + i) + d]
      BY <1>1, <3>1
    <3>3. QED
      BY <2>1, <2>4, <3>2
  <2>7. QED
    BY <2>5, <2>6
<1>3. QED
  BY <1>2 DEF Numbered, x

\* A list with k bytes more in its last segment.
Grown(w, k) == IF k = 0 THEN w ELSE [w EXCEPT ![Len(w)].to = @ + k]

\* It has the same segments but for the end of the last.
LEMMA GrownProps ==
  ASSUME NEW w \in Seq(Seg), NEW k \in Nat, k > 0 => w # <<>>
  PROVE  /\ Grown(w, k) \in Seq(Seg) /\ Len(Grown(w, k)) = Len(w)
         /\ \A i \in 1..Len(w) :
              /\ Grown(w, k)[i].from = w[i].from /\ Grown(w, k)[i].frg = w[i].frg
              /\ Grown(w, k)[i].to = IF i = Len(w) THEN w[i].to + k ELSE w[i].to
              /\ i # Len(w) => Grown(w, k)[i] = w[i]
<1> DEFINE x == Grown(w, k)
<1>1. \A i \in 1..Len(w) : w[i] \in Seg /\ w[i].to \in Nat
  <2>1. \A i \in 1..Len(w) : w[i] \in Seg
    OBVIOUS
  <2>2. QED
    BY <2>1 DEF Seg
<1>2. CASE k = 0
  BY <1>1, <1>2 DEF Grown
<1>3. CASE k # 0
  <2>1. x = [w EXCEPT ![Len(w)] = [w[Len(w)] EXCEPT !.to = w[Len(w)].to + k]]
    BY <1>3 DEF Grown
  <2> DEFINE s == [w[Len(w)] EXCEPT !.to = w[Len(w)].to + k]
  <2>2. Len(w) \in 1..Len(w) /\ w[Len(w)] \in Seg /\ w[Len(w)].to + k \in Nat
    <3>1. Len(w) \in 1..Len(w)
      BY <1>3
    <3>2. QED
      BY <1>1, <3>1
  <2>3. /\ s \in Seg /\ s.from = w[Len(w)].from /\ s.frg = w[Len(w)].frg
        /\ s.to = w[Len(w)].to + k
    BY <2>2 DEF Seg
  <2> HIDE DEF s
  <2>4. x = [w EXCEPT ![Len(w)] = s]
    BY <2>1 DEF s
  <2> HIDE DEF x
  <2>5. x \in Seq(Seg) /\ Len(x) = Len(w)
    BY <2>2, <2>3, <2>4
  <2>6. \A i \in 1..Len(w) : x[i] = IF i = Len(w) THEN s ELSE w[i]
    BY <2>4
  <2>7. QED
    BY <2>3, <2>5, <2>6 DEF x
<1>4. QED
  BY <1>2, <1>3

\* A chain that grows at its end is a chain, with the same numbers.
LEMMA ChainGrown ==
  ASSUME NEW w \in Seq(Seg), NEW lo \in Nat, NEW hi \in Nat, NEW k \in Nat,
         k > 0 => w # <<>>, Chain(w, lo, hi), Numbered(w)
  PROVE  Chain(Grown(w, k), lo, hi + k) /\ Numbered(Grown(w, k))
<1> DEFINE x == Grown(w, k)
<1>1. /\ x \in Seq(Seg) /\ Len(x) = Len(w) /\ Len(w) \in Nat
      /\ \A i \in 1..Len(w) :
           /\ x[i].from = w[i].from /\ x[i].frg = w[i].frg
           /\ x[i].to = IF i = Len(w) THEN w[i].to + k ELSE w[i].to
  BY GrownProps
<1> HIDE DEF x
<1>2. \A i \in 1..Len(w) : w[i].from \in Nat /\ w[i].to \in Nat /\ w[i].frg \in Nat
  <2>1. \A i \in 1..Len(w) : w[i] \in Seg
    OBVIOUS
  <2>2. QED
    BY <2>1 DEF Seg
<1>3. ASSUME NEW i \in 1..Len(x)
      PROVE  /\ x[i].from = IF i = 1 THEN lo ELSE x[i - 1].to
             /\ x[i].from < x[i].to /\ lo <= x[i].from /\ x[i].to <= hi + k
  <2>1. i \in 1..Len(w)
    BY <1>1
  <2>2. /\ w[i].from = IF i = 1 THEN lo ELSE w[i - 1].to
        /\ w[i].from < w[i].to /\ lo <= w[i].from /\ w[i].to <= hi
    BY <2>1 DEF Chain
  <2>3. i # 1 => x[i - 1].to = w[i - 1].to
    <3>1. i # 1 => i - 1 \in 1..Len(w) /\ i - 1 # Len(w)
      BY <1>1, <2>1
    <3>2. QED
      BY <1>1, <3>1
  <2>4. x[i].from = w[i].from /\ w[i].to <= x[i].to /\ x[i].to <= w[i].to + k
    BY <1>1, <1>2, <2>1
  <2>5. x[i].to \in Nat
    BY <1>1, <1>2, <2>1
  <2>6. QED
    BY <1>2, <2>1, <2>2, <2>3, <2>4, <2>5
<1>4. ASSUME NEW i \in 1..Len(x), NEW j \in 1..Len(x), i < j
      PROVE  x[i].to <= x[j].from
  <2>1. i \in 1..Len(w) /\ j \in 1..Len(w) /\ i # Len(w)
    BY <1>1, <1>4
  <2>2. w[i].to <= w[j].from
    BY <1>4, <2>1 DEF Chain
  <2>3. QED
    BY <1>1, <2>1, <2>2
<1>5. hi + k = IF x = <<>> THEN lo ELSE x[Len(x)].to
  <2>1. CASE w = <<>>
    <3>1. k = 0 /\ x = <<>> /\ hi = lo
      BY <1>1, <2>1 DEF Chain
    <3>2. QED
      BY <3>1
  <2>2. CASE w # <<>>
    <3>1. Len(w) \in 1..Len(w) /\ x # <<>>
      BY <1>1, <2>2
    <3>2. w[Len(w)].to = hi
      BY <2>2 DEF Chain
    <3>3. QED
      BY <1>1, <3>1, <3>2
  <2>3. QED
    BY <2>1, <2>2
<1>6. Chain(x, lo, hi + k)
  BY <1>3, <1>4, <1>5 DEF Chain
<1>7. Numbered(x)
  <2> SUFFICES ASSUME NEW i \in 1..Len(x)
               PROVE  /\ i + x[i].frg <= Len(x)
                      /\ \A d \in 0..x[i].frg : x[i + d].frg = x[i].frg - d
    BY DEF Numbered
  <2>1. i \in 1..Len(w) /\ x[i].frg = w[i].frg
    BY <1>1
  <2>2. i + w[i].frg <= Len(w) /\ \A d \in 0..w[i].frg : w[i + d].frg = w[i].frg - d
    BY <2>1 DEF Numbered
  <2>3. \A d \in 0..w[i].frg : i + d \in 1..Len(w)
    BY <1>1, <1>2, <2>1, <2>2
  <2>4. QED
    BY <1>1, <2>1, <2>2, <2>3
<1>8. QED
  BY <1>6, <1>7 DEF x

\* Send cuts n bytes into segments that hold them in order, none longer than mss;
\* out of stream mode only the last has number 0.
LEMMA FragmentsProps ==
  ASSUME mss \in Nat \ {0}, stream \in BOOLEAN, NEW from \in Nat, NEW n \in Nat
  PROVE  /\ Fragments(from, n) \in Seq(Seg)
         /\ Chain(Fragments(from, n), from, from + n) /\ Numbered(Fragments(from, n))
         /\ \A i \in 1..Len(Fragments(from, n)) :
              /\ Length(Fragments(from, n)[i]) <= mss
              /\ ~stream /\ Fragments(from, n)[i].frg = 0 => Fragments(from, n)[i].to = from + n
<1> DEFINE f == Fragments(from, n)
           c == Count(n)
           m == mss
<1>1. /\ c \in Nat /\ n <= c * m /\ (n = 0 => c = 0)
      /\ n > 0 => c >= 1 /\ (c - 1) * m < n
  BY CountBounds
<1>2. f = [i \in 1..c |-> [from |-> from + (i - 1) * m, to |-> from + Least(i * m, n),
                           frg |-> IF stream THEN 0 ELSE c - i]]
  BY DEF Fragments
<1>3. m \in Nat
  OBVIOUS
<1> HIDE DEF f, c, m
<1>4. ASSUME NEW i \in 1..c
      PROVE  /\ i \in Nat /\ n > 0 /\ (i - 1) * m \in Nat /\ i * m \in Nat
             /\ i * m = (i - 1) * m + m /\ (i - 1) * m < n
             /\ i < c => i * m < n
  <2>1. i \in Nat /\ i - 1 \in Nat /\ c - 1 \in Nat /\ i - 1 <= c - 1 /\ n > 0 /\ (i - 1) + 1 = i
    BY <1>1
  <2>2. (i - 1) * m \in Nat /\ (c - 1) * m \in Nat /\ (i - 1) * m <= (c - 1) * m
    BY <1>3, <2>1, Multiples
  <2>3. ((i - 1) + 1) * m = (i - 1) * m + m
    BY <1>3, <2>1, OneMore
  <2>4. i < c => i * m <= (c - 1) * m /\ i * m \in Nat
    <3>1. i < c => i <= c - 1
      BY <1>1, <2>1
    <3>2. QED
      BY <1>3, <2>1, <3>1, Multiples
  <2>5. i * m = (i - 1) * m + m
    BY <2>1, <2>3
  <2>6. i * m \in Nat
    BY <1>3, <2>2, <2>5
  <2>7. (i - 1) * m < n
    BY <1>1, <2>1, <2>2
  <2>8. i < c => i * m < n
    BY <1>1, <2>1, <2>2, <2>4
  <2>9. QED
    BY <2>1, <2>2, <2>5, <2>6, <2>7, <2>8
<1>5. ASSUME NEW i \in 1..c
      PROVE  /\ f[i] \in Seg /\ f[i].from = from + (i - 1) * m
             /\ f[i].frg = (IF stream THEN 0 ELSE c - i) /\ f[i].frg \in Nat
             /\ f[i].to \in Nat /\ f[i].from < f[i].to /\ f[i].to <= from + n
             /\ f[i].to <= from + i * m
             /\ i < c => f[i].to = from + i * m
             /\ i = c => f[i].to = from + n
             /\ Length(f[i]) <= m
  <2>1. /\ f[i].from = from + (i - 1) * m /\ f[i].to = from + Least(i * m, n)
        /\ f[i].frg = (IF stream THEN 0 ELSE c - i)
        /\ f[i] = [from |-> f[i].from, to |-> f[i].to, frg |-> f[i].frg]
    BY <1>2
  <2>2. /\ Least(i * m, n) \in Nat /\ Least(i * m, n) <= n /\ Least(i * m, n) <= i * m
        /\ (i - 1) * m < Least(i * m, n)
        /\ i < c => Least(i * m, n) = i * m
        /\ i * m >= n => Least(i * m, n) = n
    <3>1. m > 0
      BY DEF m
    <3>2. QED
      BY <1>3, <1>4, <3>1 DEF Least
  <2>3. i = c => i * m >= n
    BY <1>1, <1>4
  <2>4. f[i].frg \in Nat
    BY <1>1, <2>1
  <2>5. f[i].from \in Nat /\ f[i].to \in Nat
    BY <1>4, <2>1, <2>2
  <2>6. f[i] \in Seg
    BY <2>1, <2>4, <2>5 DEF Seg
  <2>7. /\ f[i].from < f[i].to /\ f[i].to <= from + n /\ f[i].to <= from + i * m
        /\ i < c => f[i].to = from + i * m
        /\ i = c => f[i].to = from + n
    BY <1>4, <2>1, <2>2, <2>3
  <2>8. Length(f[i]) <= m
    BY <1>3, <1>4, <2>1, <2>2 DEF Length
  <2>9. QED
    BY <2>1, <2>4, <2>5, <2>6, <2>7, <2>8
<1>6. f \in Seq(Seg) /\ Len(f) = c
  <2>1. f \in [1..c -> Seg]
    BY <1>2, <1>5
  <2>2. QED
    BY <1>1, <2>1
<1>7. ASSUME NEW i \in 1..c
      PROVE  /\ f[i].from = IF i = 1 THEN from ELSE f[i - 1].to
             /\ from <= f[i].from
  <2>1. CASE i = 1
    <3>1. (1 - 1) * m = 0
      BY <1>3
    <3>2. QED
      BY <1>5, <2>1, <3>1
  <2>2. CASE i # 1
    <3>1. i - 1 \in 1..c /\ i - 1 < c
      BY <1>1, <2>2
    <3>2. f[i - 1].to = from + (i - 1) * m
      BY <1>5, <3>1
    <3>3. QED
      BY <1>4, <1>5, <2>2, <3>2
  <2>3. QED
    BY <2>1, <2>2
<1>8. ASSUME NEW i \in 1..c, NEW j \in 1..c, i < j
      PROVE  f[i].to <= f[j].from
  <2>1. i \in Nat /\ j - 1 \in Nat /\ i <= j - 1
    BY <1>1, <1>8
  <2>2. i * m \in Nat /\ (j - 1) * m \in Nat /\ i * m <= (j - 1) * m
    BY <1>3, <2>1, Multiples
  <2>3. QED
    BY <1>5, <2>2
<1>9. from + n = IF f = <<>> THEN from ELSE f[Len(f)].to
  <2>1. CASE c = 0
    <3>1. n = 0 /\ f = <<>>
      BY <1>1, <1>6, <2>1
    <3>2. QED
      BY <3>1
  <2>2. CASE c # 0
    <3>1. c \in 1..c /\ f # <<>>
      BY <1>1, <1>6, <2>2
    <3>2. QED
      BY <1>5, <1>6, <3>1
  <2>3. QED
    BY <2>1, <2>2
<1>10. Chain(f, from, from + n)
  BY <1>5, <1>6, <1>7, <1>8, <1>9 DEF Chain
<1>11. Numbered(f)
  <2> SUFFICES ASSUME NEW i \in 1..c
               PROVE  /\ i + f[i].frg <= c
                      /\ \A d \in 0..f[i].frg : f[i + d].frg = f[i].frg - d
    BY <1>6 DEF Numbered
  <2>1. f[i].frg = IF stream THEN 0 ELSE c - i
    BY <1>5
  <2>2. CASE stream
    <3>1. f[i].frg = 0
      BY <2>1, <2>2
    <3>2. QED
      BY <1>1, <3>1
  <2>3. CASE ~stream
    <3>1. f[i].frg = c - i /\ c - i \in Nat /\ i \in Nat
      BY <1>1, <2>1, <2>3
    <3>2. ASSUME NEW d \in 0..f[i].frg PROVE f[i + d].frg = f[i].frg - d
      <4>1. i + d \in 1..c /\ d \in Nat
        BY <1>1, <3>1
      <4>2. f[i + d].frg = c - (i + d)
        BY <1>5, <2>3, <4>1
      <4>3. QED
        BY <1>1, <3>1, <4>1, <4>2
    <3>3. i + f[i].frg <= c
      BY <1>1, <3>1
    <3>4. QED
      BY <3>2, <3>3
  <2>4. QED
    BY <2>2, <2>3
<1>12. ASSUME NEW i \in 1..c, ~stream, f[i].frg = 0 PROVE f[i].to = from + n
  <2>1. i = c
    BY <1>1, <1>5, <1>12
  <2>2. QED
    BY <1>5, <2>1
<1>13. QED
  BY <1>5, <1>6, <1>10, <1>11, <1>12 DEF f, m

-----------------------------------------------------------------------------
(* What is on the way                                                      *)

\* The segments the other end does not have yet.
Ahead == SubSeq(sndBuf, got + 1, Len(sndBuf))

\* The three lists in a row are a list of segments.
LEMMA WayTyped ==
  ASSUME TypeOK
  PROVE  /\ Ahead \in Seq(Seg) /\ rcvQueue \o Ahead \in Seq(Seg) /\ OnTheWay \in Seq(Seg)
         /\ OnTheWay = (rcvQueue \o Ahead) \o sndQueue
         /\ OnTheWay = rcvQueue \o (Ahead \o sndQueue)
         /\ Ahead \o sndQueue \in Seq(Seg)
<1>1. /\ rcvQueue \in Seq(Seg) /\ sndQueue \in Seq(Seg) /\ sndBuf \in Seq(Seg)
      /\ got + 1 \in 1..(Len(sndBuf) + 1) /\ Len(sndBuf) \in ((got + 1) - 1)..Len(sndBuf)
  BY DEF TypeOK
<1>2. Ahead \in Seq(Seg)
  BY <1>1, PartOf DEF Ahead
<1>3. OnTheWay = (rcvQueue \o Ahead) \o sndQueue
  BY DEF OnTheWay, Ahead
<1>4. /\ rcvQueue \o Ahead \in Seq(Seg) /\ Ahead \o sndQueue \in Seq(Seg)
  BY <1>1, <1>2, Joined
<1>5. (rcvQueue \o Ahead) \o sndQueue \in Seq(Seg)
  BY <1>1, <1>4, Joined
<1>6. (rcvQueue \o Ahead) \o sndQueue = rcvQueue \o (Ahead \o sndQueue)
  BY <1>1, <1>2
<1>7. QED
  BY <1>2, <1>3, <1>4, <1>5, <1>6

\* Three lists in a row, whichever two are joined first.
LEMMA JoinedAssoc ==
  ASSUME NEW a \in Seq(Seg), NEW b \in Seq(Seg), NEW c \in Seq(Seg)
  PROVE  (a \o b) \o c = a \o (b \o c)
OBVIOUS

\* The end of two lists in a row.
LEMMA CutJoined ==
  ASSUME NEW s \in Seq(Seg), NEW v \in Seq(Seg), NEW g \in 0..Len(s)
  PROVE  SubSeq(s \o v, g + 1, Len(s \o v)) = SubSeq(s, g + 1, Len(s)) \o v
<1> DEFINE x == s \o v
           p == SubSeq(s, g + 1, Len(s))
           l == SubSeq(x, g + 1, Len(x))
<1>1. /\ x \in Seq(Seg) /\ Len(x) = Len(s) + Len(v) /\ Len(s) \in Nat /\ Len(v) \in Nat
      /\ \A k \in 1..Len(s) : x[k] = s[k]
      /\ \A k \in 1..Len(v) : x[Len(s) + k] = v[k]
  BY Joined
<1>2. /\ p \in Seq(Seg) /\ Len(p) = Len(s) - g
      /\ \A k \in 1..(Len(s) - g) : g + k \in 1..Len(s) /\ p[k] = s[g + k]
  BY <1>1, RestOf
<1> HIDE DEF x
<1>3. /\ l \in Seq(Seg) /\ Len(l) = Len(x) - g
      /\ \A k \in 1..(Len(x) - g) : g + k \in 1..Len(x) /\ l[k] = x[g + k]
  BY <1>1, RestOf
<1> HIDE DEF p, l
<1>4. /\ p \o v \in Seq(Seg) /\ Len(p \o v) = Len(p) + Len(v)
      /\ \A k \in 1..Len(p \o v) :
           IF k <= Len(p) THEN k \in 1..Len(p) /\ (p \o v)[k] = p[k]
           ELSE k - Len(p) \in 1..Len(v) /\ (p \o v)[k] = v[k - Len(p)]
  BY <1>2, Joined
<1>5. Len(l) = Len(p \o v)
  BY <1>1, <1>2, <1>3, <1>4
<1>6. ASSUME NEW k \in 1..Len(l) PROVE l[k] = (p \o v)[k]
  <2>1. k \in 1..(Len(x) - g) /\ l[k] = x[g + k] /\ k \in 1..Len(p \o v)
    BY <1>3, <1>5
  <2>2. CASE k <= Len(p)
    <3>1. g + k \in 1..Len(s) /\ p[k] = s[g + k]
      BY <1>1, <1>2, <2>1, <2>2
    <3>2. QED
      BY <1>1, <1>4, <2>1, <2>2, <3>1
  <2>3. CASE ~(k <= Len(p))
    <3>1. k - Len(p) \in 1..Len(v) /\ (p \o v)[k] = v[k - Len(p)]
      BY <1>4, <2>1, <2>3
    <3>2. Len(s) + (k - Len(p)) = g + k
      BY <1>1, <1>2
    <3>3. x[g + k] = v[k - Len(p)]
      BY <1>1, <3>1, <3>2
    <3>4. QED
      BY <2>1, <3>1, <3>3
  <2>4. QED
    BY <2>2, <2>3
<1>7. l = p \o v
  BY <1>3, <1>4, <1>5, <1>6, SameSeq
<1>8. QED
  BY <1>7 DEF l, p, x

\* A list is its two parts.
LEMMA TwoParts ==
  ASSUME NEW q \in Seq(Seg), NEW k \in 0..Len(q)
  PROVE  /\ SubSeq(q, 1, k) \in Seq(Seg) /\ Len(SubSeq(q, 1, k)) = k
         /\ \A i \in 1..k : i \in 1..Len(q) /\ SubSeq(q, 1, k)[i] = q[i]
         /\ SubSeq(q, k + 1, Len(q)) \in Seq(Seg)
         /\ Len(SubSeq(q, k + 1, Len(q))) = Len(q) - k
         /\ \A i \in 1..(Len(q) - k) :
              k + i \in 1..Len(q) /\ SubSeq(q, k + 1, Len(q))[i] = q[k + i]
         /\ SubSeq(q, 1, k) \o SubSeq(q, k + 1, Len(q)) = q
<1> DEFINE a == SubSeq(q, 1, k)
           b == SubSeq(q, k + 1, Len(q))
<1>1. /\ a \in Seq(Seg) /\ Len(a) = k /\ k \in Nat
      /\ \A i \in 1..k : i \in 1..Len(q) /\ a[i] = q[i]
  <2>1. 1 \in 1..(Len(q) + 1) /\ k \in (1 - 1)..Len(q)
    OBVIOUS
  <2>2. k - 1 + 1 = k /\ \A i \in Int : 1 + i - 1 = i
    OBVIOUS
  <2>3. /\ a \in Seq(Seg) /\ Len(a) = k - 1 + 1
        /\ \A i \in 1..(k - 1 + 1) : 1 + i - 1 \in 1..Len(q) /\ a[i] = q[1 + i - 1]
    BY <2>1, PartOf
  <2> HIDE DEF a
  <2>4. QED
    BY <2>2, <2>3
<1>2. /\ b \in Seq(Seg) /\ Len(b) = Len(q) - k /\ Len(q) \in Nat
      /\ \A i \in 1..(Len(q) - k) : k + i \in 1..Len(q) /\ b[i] = q[k + i]
  BY RestOf
<1> HIDE DEF a, b
<1>3. /\ a \o b \in Seq(Seg) /\ Len(a \o b) = Len(a) + Len(b)
      /\ \A i \in 1..Len(a \o b) :
           IF i <= Len(a) THEN i \in 1..Len(a) /\ (a \o b)[i] = a[i]
           ELSE i - Len(a) \in 1..Len(b) /\ (a \o b)[i] = b[i - Len(a)]
  BY <1>1, <1>2, Joined
<1>4. Len(a \o b) = Len(q)
  BY <1>1, <1>2, <1>3
<1>5. ASSUME NEW i \in 1..Len(a \o b) PROVE (a \o b)[i] = q[i]
  <2>1. CASE i <= Len(a)
    BY <1>1, <1>3, <2>1
  <2>2. CASE ~(i <= Len(a))
    <3>1. i - k \in 1..(Len(q) - k) /\ k + (i - k) = i /\ (a \o b)[i] = b[i - k]
      BY <1>1, <1>2, <1>3, <2>2
    <3>2. QED
      BY <1>2, <3>1
  <2>3. QED
    BY <2>1, <2>2
<1>6. a \o b = q
  BY <1>3, <1>4, <1>5, SameSeq
<1>7. QED
  BY <1>1, <1>2, <1>6 DEF a, b

\* Segments move from sndQueue to sndBuf.
LEMMA WayFlush ==
  ASSUME TypeOK, NEW k \in 0..Len(sndQueue),
         sndBuf' = sndBuf \o SubSeq(sndQueue, 1, k),
         sndQueue' = SubSeq(sndQueue, k + 1, Len(sndQueue)),
         got' = got, rcvQueue' = rcvQueue
  PROVE  OnTheWay' = OnTheWay
<1> DEFINE new == SubSeq(sndQueue, 1, k)
           q == SubSeq(sndQueue, k + 1, Len(sndQueue))
<1>1. /\ rcvQueue \in Seq(Seg) /\ sndQueue \in Seq(Seg) /\ sndBuf \in Seq(Seg)
      /\ got \in 0..Len(sndBuf)
  BY DEF TypeOK
<1>2. new \in Seq(Seg) /\ q \in Seq(Seg) /\ new \o q = sndQueue
  BY <1>1, TwoParts
<1> HIDE DEF new, q
<1>3. Ahead' = SubSeq(sndBuf \o new, got + 1, Len(sndBuf \o new))
  BY DEF Ahead, new
<1>4. Ahead' = Ahead \o new
  BY <1>1, <1>2, <1>3, CutJoined DEF Ahead
<1>5. Ahead \in Seq(Seg) /\ rcvQueue \o Ahead \in Seq(Seg) /\ OnTheWay = (rcvQueue \o Ahead) \o sndQueue
  BY WayTyped
<1>6. OnTheWay' = (rcvQueue \o (Ahead \o new)) \o q
  BY <1>4 DEF OnTheWay, Ahead, q
<1>7. (rcvQueue \o Ahead) \o new = rcvQueue \o (Ahead \o new)
  <2>1. \A a, b, c \in Seq(Seg) : (a \o b) \o c = a \o (b \o c)
    BY JoinedAssoc
  <2>2. QED
    <3>1. rcvQueue \in Seq(Seg) /\ Ahead \in Seq(Seg) /\ new \in Seq(Seg)
      BY <1>1, <1>2, <1>5
    <3>2. QED
      BY <2>1, <3>1, ZenonT(60)
<1>8. ((rcvQueue \o Ahead) \o new) \o q = (rcvQueue \o Ahead) \o (new \o q)
  BY <1>2, <1>5, JoinedAssoc
<1>9. QED
  BY <1>2, <1>5, <1>6, <1>7, <1>8

\* A segment arrives.
LEMMA WayArrive ==
  ASSUME TypeOK, got < Len(sndBuf), rcvQueue' = Append(rcvQueue, sndBuf[got + 1]),
         got' = got + 1, sndBuf' = sndBuf, sndQueue' = sndQueue
  PROVE  OnTheWay' = OnTheWay
<1> DEFINE x == <<sndBuf[got + 1]>>
<1>1. /\ rcvQueue \in Seq(Seg) /\ sndQueue \in Seq(Seg) /\ sndBuf \in Seq(Seg)
      /\ got \in Nat /\ got + 1 \in 0..Len(sndBuf) /\ Len(sndBuf) \in Nat
      /\ got + 1 \in 1..Len(sndBuf) /\ got \in 0..Len(sndBuf)
  BY DEF TypeOK
<1>2. sndBuf[got + 1] \in Seg
  BY <1>1
<1>3. x \in Seq(Seg) /\ Len(x) = 1 /\ x[1] = sndBuf[got + 1] /\ rcvQueue' = rcvQueue \o x
  BY <1>1, <1>2
<1>4. /\ Ahead \in Seq(Seg) /\ Len(Ahead) = Len(sndBuf) - got
      /\ \A i \in 1..(Len(sndBuf) - got) : got + i \in 1..Len(sndBuf) /\ Ahead[i] = sndBuf[got + i]
  BY <1>1, TwoParts DEF Ahead
<1>5. /\ Ahead' \in Seq(Seg) /\ Len(Ahead') = Len(sndBuf) - (got + 1)
      /\ \A i \in 1..(Len(sndBuf) - (got + 1)) :
           (got + 1) + i \in 1..Len(sndBuf) /\ Ahead'[i] = sndBuf[(got + 1) + i]
  <2>1. Ahead' = SubSeq(sndBuf, (got + 1) + 1, Len(sndBuf))
    BY DEF Ahead
  <2>2. QED
    BY <1>1, <2>1, TwoParts
<1> HIDE DEF x
<1>6. /\ x \o Ahead' \in Seq(Seg) /\ Len(x \o Ahead') = 1 + Len(Ahead')
      /\ \A i \in 1..Len(x \o Ahead') :
           IF i <= 1 THEN i \in 1..1 /\ (x \o Ahead')[i] = x[i]
           ELSE i - 1 \in 1..Len(Ahead') /\ (x \o Ahead')[i] = Ahead'[i - 1]
  <2>1. /\ x \o Ahead' \in Seq(Seg) /\ Len(x \o Ahead') = Len(x) + Len(Ahead')
        /\ \A i \in 1..Len(x \o Ahead') :
             IF i <= Len(x) THEN i \in 1..Len(x) /\ (x \o Ahead')[i] = x[i]
             ELSE i - Len(x) \in 1..Len(Ahead') /\ (x \o Ahead')[i] = Ahead'[i - Len(x)]
    BY <1>3, <1>5, Joined
  <2>2. Len(x) = 1
    BY <1>3
  <2>3. QED
    BY <2>1, <2>2
<1>7. x \o Ahead' = Ahead
  <2>1. Len(x \o Ahead') = Len(Ahead)
    BY <1>1, <1>4, <1>5, <1>6
  <2>2. ASSUME NEW i \in 1..Len(x \o Ahead') PROVE (x \o Ahead')[i] = Ahead[i]
    <3>1. i \in 1..(Len(sndBuf) - got) /\ Ahead[i] = sndBuf[got + i]
      BY <1>4, <2>1
    <3>2. CASE i = 1
      BY <1>3, <1>6, <3>1, <3>2
    <3>3. CASE i # 1
      <4>1. ~(i <= 1) /\ (got + 1) + (i - 1) = got + i
        BY <1>1, <3>3
      <4>2. i - 1 \in 1..(Len(sndBuf) - (got + 1)) /\ (x \o Ahead')[i] = Ahead'[i - 1]
        BY <1>5, <1>6, <4>1
      <4>3. QED
        BY <1>5, <3>1, <4>1, <4>2
    <3>4. QED
      BY <3>2, <3>3
  <2>3. QED
    BY <1>4, <1>6, <2>1, <2>2, SameSeq
<1>8. OnTheWay' = ((rcvQueue \o x) \o Ahead') \o sndQueue
  BY <1>3 DEF OnTheWay, Ahead
<1>9. (rcvQueue \o x) \o Ahead' = rcvQueue \o (x \o Ahead')
  BY <1>1, <1>3, <1>5, JoinedAssoc
<1>10. QED
  BY <1>7, <1>8, <1>9, WayTyped

\* una releases a segment that arrived.
LEMMA WayAcked ==
  ASSUME TypeOK, got > 0, sndBuf' = Tail(sndBuf), got' = got - 1,
         rcvQueue' = rcvQueue, sndQueue' = sndQueue
  PROVE  OnTheWay' = OnTheWay /\ sndBuf' \in Seq(Seg) /\ got' \in 0..Len(sndBuf')
<1>1. /\ sndBuf \in Seq(Seg) /\ got \in Nat /\ got \in 0..Len(sndBuf) /\ Len(sndBuf) \in Nat
      /\ sndBuf # <<>>
  BY DEF TypeOK
<1>2. /\ sndBuf' \in Seq(Seg) /\ Len(sndBuf') = Len(sndBuf) - 1
      /\ \A i \in 1..(Len(sndBuf) - 1) : sndBuf'[i] = sndBuf[i + 1]
      /\ got' \in 0..Len(sndBuf')
  BY <1>1
<1>3. /\ Ahead \in Seq(Seg) /\ Len(Ahead) = Len(sndBuf) - got
      /\ \A i \in 1..(Len(sndBuf) - got) : got + i \in 1..Len(sndBuf) /\ Ahead[i] = sndBuf[got + i]
  BY <1>1, TwoParts DEF Ahead
<1>4. /\ Ahead' \in Seq(Seg) /\ Len(Ahead') = Len(sndBuf') - got'
      /\ \A i \in 1..(Len(sndBuf') - got') : got' + i \in 1..Len(sndBuf') /\ Ahead'[i] = sndBuf'[got' + i]
  BY <1>2, TwoParts DEF Ahead
<1>5. Ahead' = Ahead
  <2>1. Len(Ahead') = Len(Ahead)
    BY <1>1, <1>2, <1>3, <1>4
  <2>2. ASSUME NEW i \in 1..Len(Ahead') PROVE Ahead'[i] = Ahead[i]
    <3>1. /\ got' + i \in 1..Len(sndBuf') /\ Ahead'[i] = sndBuf'[got' + i]
          /\ i \in 1..(Len(sndBuf) - got) /\ Ahead[i] = sndBuf[got + i]
      BY <1>3, <1>4, <2>1
    <3>2. (got' + i) + 1 = got + i
      BY <1>1
    <3>3. sndBuf'[got' + i] = sndBuf[(got' + i) + 1]
      BY <1>2, <3>1
    <3>4. QED
      BY <3>1, <3>2, <3>3
  <2>3. QED
    BY <1>3, <1>4, <2>1, <2>2, SameSeq
<1>6. OnTheWay' = (rcvQueue \o Ahead') \o sndQueue
  BY DEF OnTheWay, Ahead
<1>7. QED
  BY <1>2, <1>5, <1>6, WayTyped

-----------------------------------------------------------------------------
(* Recursion                                                               *)

\* The functions that start at b and go on by step, from their value before.
Iterates(S, N, b, step) ==
  {g \in [0..N -> S] : \A n \in 0..N : g[n] = IF n = 0 THEN b ELSE step[<<n, g[n - 1]>>]}

\* There is one.
LEMMA Recursion ==
  ASSUME NEW S, NEW N \in Nat, NEW b \in S, NEW step \in [(1..N) \X S -> S]
  PROVE  Iterates(S, N, b, step) # {}
<1> DEFINE Upto(m, g) == \A n \in 0..m : g[n] = IF n = 0 THEN b ELSE step[<<n, g[n - 1]>>]
           T == {m \in 0..N : ~\E g \in [0..m -> S] : Upto(m, g)}
<1>1. T = {}
  <2> SUFFICES ASSUME T # {} PROVE FALSE
    OBVIOUS
  <2>1. PICK m \in T : \A y \in T : m <= y
    <3>1. T \in SUBSET Nat
      OBVIOUS
    <3> HIDE DEF T
    <3>2. QED
      BY <3>1, LeastNat
  <2>2. CASE m = 0
    <3> DEFINE g == [n \in 0..0 |-> b]
    <3>1. g \in [0..0 -> S] /\ Upto(0, g)
      OBVIOUS
    <3>2. QED
      BY <2>1, <2>2, <3>1
  <2>3. CASE m # 0
    <3>1. m \in 1..N /\ m - 1 \in 0..N /\ m - 1 \notin T
      <4>1. m \in 0..N
        BY <2>1
      <4>2. m \in 1..N /\ m - 1 \in 0..N /\ ~(m <= m - 1)
        BY <2>3, <4>1
      <4> HIDE DEF T
      <4>3. m - 1 \notin T
        BY <2>1, <4>2
      <4>4. QED
        BY <4>2, <4>3
    <3>2. PICK f \in [0..(m - 1) -> S] : Upto(m - 1, f)
      BY <3>1
    <3> DEFINE h == [n \in 0..m |-> IF n = m THEN step[<<m, f[m - 1]>>] ELSE f[n]]
    <3>3. f[m - 1] \in S
      BY <3>1, <3>2
    <3>4. step[<<m, f[m - 1]>>] \in S
      BY <3>1, <3>3
    <3>5. h \in [0..m -> S]
      BY <3>1, <3>2, <3>4
    <3>6. ASSUME NEW n \in 0..m PROVE h[n] = IF n = 0 THEN b ELSE step[<<n, h[n - 1]>>]
      <4>1. CASE n = m
        <5>1. h[n] = step[<<m, f[m - 1]>>] /\ n # 0 /\ h[n - 1] = f[m - 1]
          BY <3>1, <4>1
        <5>2. QED
          BY <4>1, <5>1
      <4>2. CASE n # m
        <5>1. n \in 0..(m - 1) /\ h[n] = f[n] /\ (n # 0 => h[n - 1] = f[n - 1])
          BY <3>1, <4>2
        <5>2. f[n] = IF n = 0 THEN b ELSE step[<<n, f[n - 1]>>]
          BY <3>2, <5>1
        <5>3. QED
          BY <5>1, <5>2
      <4>3. QED
        BY <4>1, <4>2
    <3> HIDE DEF h
    <3>7. Upto(m, h)
      BY <3>6
    <3>8. QED
      BY <2>1, <3>5, <3>7
  <2>4. QED
    BY <2>2, <2>3
<1>2. N \in 0..N /\ N \notin T
  BY <1>1
<1>3. QED
  BY <1>2 DEF Iterates

\* What the encoding knows of its buffer.
Buffer == [at : Int, over : BOOLEAN]

\* A segment no longer than mss fits behind makeSpace, wherever the buffer stood.
LEMMA EncodeProps ==
  ASSUME TypeOK, NEW b \in Buffer, NEW n \in Int
  PROVE  /\ Encode(b, n) \in Buffer
         /\ n <= Overhead + mss /\ ~b.over => ~Encode(b, n).over
<1> DEFINE at == IF b.at + n >= mtu THEN Reserve ELSE b.at
<1>1. /\ mtu \in Nat /\ Reserve \in Nat /\ Overhead \in Nat /\ mss = mtu - Overhead - Reserve
      /\ b.at \in Int /\ b.over \in BOOLEAN
  BY MtuAssumption DEF TypeOK, Buffer
<1>2. Encode(b, n) = [at |-> at + n, over |-> b.over \/ at + n > mtu]
  BY DEF Encode
<1>3. at + n \in Int /\ (b.over \/ at + n > mtu) \in BOOLEAN
  BY <1>1
<1>4. Encode(b, n) \in Buffer
  BY <1>2, <1>3 DEF Buffer
<1>5. n <= Overhead + mss => ~(at + n > mtu)
  BY <1>1
<1>6. Encode(b, n).over = (b.over \/ at + n > mtu)
  BY <1>2
<1> HIDE DEF at
<1>7. n <= Overhead + mss /\ ~b.over => ~Encode(b, n).over
  BY <1>5, <1>6, Zenon
<1>8. QED
  BY <1>4, <1>7, Zenon

\* A flush of segments that are no longer than mss stays within the buffer.
LEMMA PackedProps ==
  ASSUME TypeOK, NEW ctl \in Nat, NEW segs \in Seq(Seg), NEW due
  PROVE  /\ Packed(ctl, segs, due).over \in BOOLEAN
         /\ (\A i \in 1..Len(segs) : Length(segs[i]) <= mss) => ~Packed(ctl, segs, due).over
<1> DEFINE N == ctl + Len(segs)
           start == [at |-> Reserve, over |-> FALSE]
           After(n, b) == IF n <= ctl THEN Encode(b, Overhead)
                          ELSE IF n - ctl \in due THEN Encode(b, Overhead + Length(segs[n - ctl]))
                          ELSE b
           fits == \A i \in 1..Len(segs) : Length(segs[i]) <= mss
           f == CHOOSE f : f = [n \in 0..N |->
                  IF n = 0 THEN [at |-> Reserve, over |-> FALSE]
                  ELSE IF n <= ctl THEN Encode(f[n - 1], Overhead)
                  ELSE IF n - ctl \in due THEN Encode(f[n - 1], Overhead + Length(segs[n - ctl]))
                  ELSE f[n - 1]]
<1>1. Packed(ctl, segs, due) = f[N]
  BY DEF Packed
<1>2. N \in Nat /\ Len(segs) \in Nat /\ Overhead \in Nat /\ Reserve \in Nat /\ mss \in Nat
  BY MtuAssumption DEF TypeOK
<1>3. start \in Buffer /\ ~start.over
  BY <1>2 DEF Buffer
<1>4. ASSUME NEW n \in 1..N, NEW b \in Buffer
      PROVE  After(n, b) \in Buffer /\ (fits /\ ~b.over => ~After(n, b).over)
  <2>1. CASE n <= ctl
    <3>1. After(n, b) = Encode(b, Overhead)
      BY <2>1
    <3>2. Overhead \in Int /\ Overhead <= Overhead + mss
      BY <1>2
    <3>3. Encode(b, Overhead) \in Buffer /\ (~b.over => ~Encode(b, Overhead).over)
      BY <3>2, EncodeProps
    <3> HIDE DEF fits, After
    <3>4. QED
      BY <3>1, <3>3
  <2>2. CASE ~(n <= ctl) /\ n - ctl \in due
    <3> DEFINE l == Overhead + Length(segs[n - ctl])
    <3>1. n - ctl \in 1..Len(segs)
      BY <1>2, <2>2
    <3>2. l \in Int /\ (fits => l <= Overhead + mss)
      <4>1. segs[n - ctl] \in Seg
        BY <3>1
      <4>2. Length(segs[n - ctl]) \in Int
        BY <4>1 DEF Seg, Length
      <4>3. fits => Length(segs[n - ctl]) <= mss
        BY <3>1
      <4> HIDE DEF fits
      <4>4. QED
        BY <1>2, <4>2, <4>3
    <3>3. After(n, b) = Encode(b, l)
      BY <2>2
    <3> HIDE DEF l, fits, After
    <3>4. QED
      BY <3>2, <3>3, EncodeProps
  <2>3. CASE ~(n <= ctl) /\ n - ctl \notin due
    BY <2>3
  <2>4. QED
    BY <2>1, <2>2, <2>3
<1>5. \E g : g = [n \in 0..N |-> IF n = 0 THEN start ELSE After(n, g[n - 1])]
  <2> DEFINE step == [p \in (1..N) \X Buffer |-> After(p[1], p[2])]
  <2>1. \A p \in (1..N) \X Buffer : After(p[1], p[2]) \in Buffer
    <3> HIDE DEF After, fits, N
    <3>1. QED
      BY <1>4
  <2>2. step \in [(1..N) \X Buffer -> Buffer]
    BY <2>1
  <2> HIDE DEF start, After, N
  <2>3. \A n \in 1..N, b \in Buffer : step[<<n, b>>] = After(n, b)
    OBVIOUS
  <2> HIDE DEF step
  <2>4. PICK g \in [0..N -> Buffer] :
          \A n \in 0..N : g[n] = IF n = 0 THEN start ELSE step[<<n, g[n - 1]>>]
    <3>1. N \in Nat /\ start \in Buffer
      BY <1>2, <1>3
    <3>2. Iterates(Buffer, N, start, step) # {}
      BY <2>2, <3>1, Recursion
    <3>3. QED
      BY <3>2 DEF Iterates
  <2>5. ASSUME NEW n \in 0..N
        PROVE  g[n] = IF n = 0 THEN start ELSE After(n, g[n - 1])
    <3>1. n # 0 => n \in 1..N /\ g[n - 1] \in Buffer
      BY <1>2
    <3>2. QED
      BY <2>3, <2>4, <3>1
  <2>6. g = [n \in 0..N |-> IF n = 0 THEN start ELSE After(n, g[n - 1])]
    <3>1. g = [n \in 0..N |-> g[n]]
      OBVIOUS
    <3>2. QED
      BY <2>5, <3>1
  <2>7. QED
    BY <2>6
<1>6. f = [n \in 0..N |-> IF n = 0 THEN start ELSE After(n, f[n - 1])]
  <2>1. \E g : g = [n \in 0..N |->
          IF n = 0 THEN [at |-> Reserve, over |-> FALSE]
          ELSE IF n <= ctl THEN Encode(g[n - 1], Overhead)
          ELSE IF n - ctl \in due THEN Encode(g[n - 1], Overhead + Length(segs[n - ctl]))
          ELSE g[n - 1]]
    BY <1>5
  <2>2. QED
    BY <2>1, Zenon
<1> HIDE DEF f, After, start, fits, N
<1>7. \A n \in 0..N : f[n] = IF n = 0 THEN start ELSE After(n, f[n - 1])
  BY <1>6, Zenon
<1> DEFINE Good(n) == f[n] \in Buffer /\ (fits => ~f[n].over)
           T == {n \in 0..N : ~Good(n)}
<1>8. T = {}
  <2> SUFFICES ASSUME T # {} PROVE FALSE
    OBVIOUS
  <2>1. PICK n \in T : \A y \in T : n <= y
    <3>1. T \in SUBSET Nat
      BY <1>2
    <3> HIDE DEF T
    <3>2. QED
      BY <3>1, LeastNat
  <2>2. n \in 0..N /\ ~Good(n)
    BY <2>1
  <2>3. CASE n = 0
    BY <1>3, <1>7, <2>2, <2>3
  <2>4. CASE n # 0
    <3>1. n \in 1..N /\ n - 1 \in 0..N /\ n - 1 \notin T
      BY <1>2, <2>1, <2>4
    <3>2. Good(n - 1)
      BY <3>1
    <3>3. f[n] = After(n, f[n - 1])
      BY <1>7, <2>4, <3>1
    <3>4. QED
      BY <1>4, <2>2, <3>1, <3>2, <3>3
  <2>5. QED
    BY <2>3, <2>4
<1>9. Good(N)
  <2>1. N \in 0..N
    BY <1>2
  <2>2. QED
    BY <1>8, <2>1
<1>10. QED
  BY <1>1, <1>9 DEF Buffer, fits

-----------------------------------------------------------------------------
(* Receive                                                                 *)

\* The number of segments in the first message.
Frags == Head(rcvQueue).frg + 1

\* When peekSize says that a message is complete, its last segment is the first one
\* with number 0, and Receive takes the segments up to it.
LEMMA FirstProps ==
  ASSUME TypeOK, Numbered(OnTheWay), Complete
  PROVE  /\ Frags \in 1..Len(rcvQueue) /\ Frags \in 1..Len(OnTheWay)
         /\ OnTheWay[Frags].frg = 0 /\ \A j \in 1..(Frags - 1) : OnTheWay[j].frg # 0
         /\ \A j \in 1..Len(rcvQueue) : OnTheWay[j] = rcvQueue[j]
         /\ FirstMessage = SubSeq(rcvQueue, 1, Frags)
<1> DEFINE r == rcvQueue
           w == OnTheWay
           k == Frags
<1>1. /\ r \in Seq(Seg) /\ Len(r) \in Nat /\ r # <<>> /\ Ahead \o sndQueue \in Seq(Seg)
      /\ w = r \o (Ahead \o sndQueue)
  BY WayTyped DEF TypeOK, Complete
<1>2. /\ w \in Seq(Seg) /\ Len(r) <= Len(w) /\ Len(w) \in Nat
      /\ \A j \in 1..Len(r) : w[j] = r[j]
  <2>1. /\ w \in Seq(Seg) /\ Len(w) = Len(r) + Len(Ahead \o sndQueue)
        /\ Len(Ahead \o sndQueue) \in Nat /\ \A j \in 1..Len(r) : w[j] = r[j]
    BY <1>1, Joined
  <2> HIDE DEF w
  <2>2. QED
    BY <1>1, <2>1
<1>3. 1 \in 1..Len(r) /\ 1 \in 1..Len(w) /\ Head(r) = w[1]
  BY <1>1, <1>2
<1>4. w[1].frg \in Nat
  <2>1. r[1] \in Seg /\ w[1] = r[1]
    BY <1>1, <1>2, <1>3
  <2>2. QED
    BY <2>1 DEF Seg
<1>5. k = w[1].frg + 1 /\ k \in 1..Len(r) /\ k \in 1..Len(w)
  BY <1>1, <1>2, <1>3, <1>4 DEF Frags, Complete
<1>6. \A d \in 0..w[1].frg : w[1 + d].frg = w[1].frg - d
  BY <1>3 DEF Numbered
<1> HIDE DEF w, k
<1>7. \A j \in 1..k : w[j].frg = k - j
  <2> SUFFICES ASSUME NEW j \in 1..k PROVE w[j].frg = k - j
    OBVIOUS
  <2>1. j - 1 \in 0..w[1].frg /\ 1 + (j - 1) = j
    BY <1>4, <1>5
  <2>2. w[1 + (j - 1)].frg = w[1].frg - (j - 1)
    BY <1>6, <2>1
  <2>3. w[j].frg = w[1].frg - (j - 1)
    BY <2>1, <2>2, Zenon
  <2>4. k = w[1].frg + 1 /\ j \in Int
    BY <1>5
  <2>5. QED
    BY <1>4, <2>3, <2>4
<1>8. w[k].frg = 0 /\ \A j \in 1..(k - 1) : w[j].frg # 0
  <2>1. k \in 1..k /\ k - k = 0 /\ \A j \in 1..(k - 1) : j \in 1..k /\ k - j # 0
    <3>1. k \in Nat /\ k >= 1
      BY <1>1, <1>5
    <3>2. QED
      BY <3>1
  <2>2. w[k].frg = k - k /\ \A j \in 1..(k - 1) : w[j].frg = k - j
    BY <1>7, <2>1, Zenon
  <2>3. QED
    BY <2>1, <2>2, Zenon
<1>9. SelectInSeq(r, LAMBDA s : s.frg = 0) = k
  <2> DEFINE I == {i \in 1..Len(r) : r[i].frg = 0}
  <2>1. k \in I
    BY <1>2, <1>5, <1>8
  <2>2. \A i \in I : k <= i
    <3> SUFFICES ASSUME NEW i \in 1..Len(r), r[i].frg = 0, ~(k <= i) PROVE FALSE
      OBVIOUS
    <3>1. i \in 1..(k - 1)
      BY <1>5
    <3>2. QED
      BY <1>2, <1>8, <3>1
  <2>3. SelectInSeq(r, LAMBDA s : s.frg = 0) = IF I # {} THEN Min(I) ELSE 0
    BY DEF SelectInSeq
  <2>4. I \subseteq Nat
    BY <1>1
  <2> HIDE DEF I
  <2>5. Min(I) \in I /\ \A y \in I : Min(I) <= y
    BY <2>1, <2>2 DEF Min
  <2>6. Min(I) = k
    <3>1. Min(I) <= k /\ k <= Min(I) /\ Min(I) \in Nat /\ k \in Nat
      BY <2>1, <2>2, <2>4, <2>5
    <3>2. QED
      BY <3>1
  <2>7. QED
    BY <2>1, <2>3, <2>6
<1>10. FirstMessage = SubSeq(r, 1, k)
  <2>1. k # 0
    BY <1>5
  <2>2. QED
    BY <1>9, <2>1 DEF FirstMessage
<1>11. QED
  BY <1>2, <1>5, <1>8, <1>10 DEF w, k

\* The bytes Receive returns are all from what was read to the end of the message.
LEMMA PeekProps ==
  ASSUME TypeOK, Chain(OnTheWay, read, written), Numbered(OnTheWay), Complete
  PROVE  /\ PeekSize = OnTheWay[Frags].to - read
         /\ Len(FirstMessage) = Frags /\ OnTheWay[Frags].to \in Nat
<1> DEFINE m == FirstMessage
           k == Frags
           f == CHOOSE f : f = [n \in 0..Len(m) |->
                  IF n = 0 THEN 0 ELSE f[n - 1] + Length(m[n])]
           g == [n \in 0..Len(m) |-> IF n = 0 THEN 0 ELSE m[n].to - read]
<1>1. PeekSize = f[Len(m)]
  BY DEF PeekSize
<1>2. /\ k \in 1..Len(rcvQueue) /\ k \in 1..Len(OnTheWay) /\ m = SubSeq(rcvQueue, 1, k)
      /\ \A j \in 1..Len(rcvQueue) : OnTheWay[j] = rcvQueue[j]
      /\ read \in Nat /\ rcvQueue \in Seq(Seg) /\ Len(rcvQueue) \in Nat
  BY FirstProps DEF TypeOK
<1> HIDE DEF k, m
<1>3. Len(m) = k /\ \A i \in 1..k : i \in 1..Len(rcvQueue) /\ m[i] = rcvQueue[i]
  <2>1. k \in 0..Len(rcvQueue)
    BY <1>2
  <2>2. QED
    BY <1>2, <2>1, TwoParts
<1>4. \A i \in 1..k : /\ m[i] = OnTheWay[i] /\ m[i].from \in Nat /\ m[i].to \in Nat
                      /\ i \in 1..Len(OnTheWay)
  <2> SUFFICES ASSUME NEW i \in 1..k
               PROVE  /\ m[i] = OnTheWay[i] /\ m[i].from \in Nat /\ m[i].to \in Nat
                      /\ i \in 1..Len(OnTheWay)
    OBVIOUS
  <2>1. m[i] = rcvQueue[i] /\ m[i] = OnTheWay[i] /\ i \in 1..Len(rcvQueue)
    BY <1>2, <1>3
  <2>2. rcvQueue[i] \in Seg
    BY <1>2, <2>1
  <2>3. i \in 1..Len(OnTheWay)
    <3>1. Len(OnTheWay) \in Nat
      BY WayTyped
    <3>2. QED
      BY <1>2, <3>1
  <2>4. QED
    BY <2>1, <2>2, <2>3 DEF Seg
<1>5. \A i \in 1..k : m[i].from = IF i = 1 THEN read ELSE m[i - 1].to
  <2> SUFFICES ASSUME NEW i \in 1..k PROVE m[i].from = IF i = 1 THEN read ELSE m[i - 1].to
    OBVIOUS
  <2>1. OnTheWay[i].from = IF i = 1 THEN read ELSE OnTheWay[i - 1].to
    BY <1>4 DEF Chain
  <2>2. i # 1 => i - 1 \in 1..k
    BY <1>2
  <2>3. QED
    BY <1>4, <2>1, <2>2
<1>6. g = [n \in 0..k |-> IF n = 0 THEN 0 ELSE g[n - 1] + Length(m[n])]
  <2>1. g = [n \in 0..k |-> IF n = 0 THEN 0 ELSE m[n].to - read]
    BY <1>3
  <2> HIDE DEF g
  <2>2. ASSUME NEW n \in 0..k
        PROVE  g[n] = IF n = 0 THEN 0 ELSE g[n - 1] + Length(m[n])
    <3>1. CASE n = 0
      BY <2>1, <3>1
    <3>2. CASE n = 1
      <4>1. 1 \in 1..k /\ 0 \in 0..k /\ 1 - 1 = 0 /\ 1 \in 0..k
        BY <1>2
      <4>2. g[1] = m[1].to - read /\ g[0] = 0
        BY <2>1, <4>1
      <4>3. m[1].from = read /\ m[1].to \in Nat
        BY <1>4, <1>5, <4>1
      <4>4. g[1] = g[1 - 1] + Length(m[1])
        BY <1>2, <4>1, <4>2, <4>3 DEF Length
      <4>5. QED
        BY <3>2, <4>4
    <3>3. CASE n # 0 /\ n # 1
      <4>1. n \in 1..k /\ n - 1 \in 1..k /\ n - 1 \in 0..k /\ n - 1 # 0
        BY <1>2, <3>3
      <4>2. g[n] = m[n].to - read /\ g[n - 1] = m[n - 1].to - read
        BY <2>1, <3>3, <4>1
      <4>3. m[n].from = m[n - 1].to /\ m[n].to \in Nat /\ m[n].from \in Nat
        BY <1>4, <1>5, <3>3, <4>1
      <4>4. g[n - 1] = m[n].from - read /\ Length(m[n]) = m[n].to - m[n].from
        BY <4>2, <4>3 DEF Length
      <4>5. g[n] = g[n - 1] + Length(m[n])
        <5>1. \A a, b, c \in Nat : b - c = (a - c) + (b - a)
          OBVIOUS
        <5>2. m[n].to - read = (m[n].from - read) + (m[n].to - m[n].from)
          BY <1>2, <4>3, <5>1, Zenon
        <5>3. QED
          BY <4>2, <4>4, <5>2, Zenon
      <4>6. QED
        BY <3>3, <4>5
    <3>4. QED
      BY <3>1, <3>2, <3>3
  <2>3. g = [n \in 0..k |-> g[n]]
    BY <2>1
  <2>4. QED
    BY <2>2, <2>3
<1> HIDE DEF g
<1>7. f = [n \in 0..k |-> IF n = 0 THEN 0 ELSE f[n - 1] + Length(m[n])]
  <2>1. \E h : h = [n \in 0..Len(m) |-> IF n = 0 THEN 0 ELSE h[n - 1] + Length(m[n])]
    BY <1>3, <1>6
  <2>2. f = [n \in 0..Len(m) |-> IF n = 0 THEN 0 ELSE f[n - 1] + Length(m[n])]
    BY <2>1, Zenon
  <2> HIDE DEF f
  <2>3. QED
    BY <1>3, <2>2
<1> HIDE DEF f
<1>8. \A n \in 0..k : /\ f[n] = IF n = 0 THEN 0 ELSE f[n - 1] + Length(m[n])
                      /\ g[n] = IF n = 0 THEN 0 ELSE g[n - 1] + Length(m[n])
  BY <1>6, <1>7, Zenon
<1> DEFINE T == {n \in 0..k : f[n] # g[n]}
<1>9. T = {}
  <2> SUFFICES ASSUME T # {} PROVE FALSE
    OBVIOUS
  <2>1. PICK n \in T : \A y \in T : n <= y
    <3>1. T \in SUBSET Nat
      OBVIOUS
    <3> HIDE DEF T
    <3>2. QED
      BY <3>1, LeastNat
  <2>2. n \in 0..k /\ f[n] # g[n]
    BY <2>1
  <2>3. CASE n = 0
    BY <1>8, <2>2, <2>3
  <2>4. CASE n # 0
    <3>1. n - 1 \in 0..k /\ ~(n <= n - 1)
      BY <1>2, <2>2, <2>4
    <3>2. n - 1 \notin T
      <4> HIDE DEF T
      <4>1. QED
        BY <2>1, <3>1
    <3>3. f[n - 1] = g[n - 1]
      BY <3>1, <3>2
    <3>4. f[n] = f[n - 1] + Length(m[n]) /\ g[n] = g[n - 1] + Length(m[n])
      BY <1>8, <2>2, <2>4
    <3>5. QED
      BY <2>2, <3>3, <3>4
  <2>5. QED
    BY <2>3, <2>4
<1>10. k \in 0..k /\ k # 0 /\ k \in 1..k
  BY <1>2
<1>11. f[k] = g[k]
  BY <1>9, <1>10
<1>12. g[k] = m[k].to - read
  BY <1>3, <1>10 DEF g
<1>13. QED
  BY <1>1, <1>3, <1>4, <1>10, <1>11, <1>12 DEF k, m

\* Receive takes the first segments.
LEMMA WayReceive ==
  ASSUME TypeOK, Numbered(OnTheWay), Complete,
         rcvQueue' = SubSeq(rcvQueue, Frags + 1, Len(rcvQueue)),
         sndBuf' = sndBuf, sndQueue' = sndQueue, got' = got
  PROVE  OnTheWay' = SubSeq(OnTheWay, Frags + 1, Len(OnTheWay)) /\ rcvQueue' \in Seq(Seg)
<1>1. Frags \in 1..Len(rcvQueue)
  BY FirstProps
<1>2. rcvQueue \in Seq(Seg) /\ Frags \in 0..Len(rcvQueue)
  BY <1>1 DEF TypeOK
<1>3. rcvQueue' \in Seq(Seg)
  BY <1>2, TwoParts
<1> DEFINE rest == Ahead \o sndQueue
<1>4. rest \in Seq(Seg) /\ OnTheWay = rcvQueue \o rest /\ Ahead \in Seq(Seg) /\ sndQueue \in Seq(Seg)
  BY WayTyped DEF TypeOK
<1>5. OnTheWay' = (rcvQueue' \o Ahead) \o sndQueue
  BY DEF OnTheWay, Ahead
<1>6. (rcvQueue' \o Ahead) \o sndQueue = rcvQueue' \o rest
  BY <1>3, <1>4, JoinedAssoc
<1> HIDE DEF rest
<1>7. SubSeq(rcvQueue \o rest, Frags + 1, Len(rcvQueue \o rest))
        = SubSeq(rcvQueue, Frags + 1, Len(rcvQueue)) \o rest
  BY <1>2, <1>4, CutJoined
<1>8. QED
  BY <1>3, <1>4, <1>5, <1>6, <1>7

-----------------------------------------------------------------------------
(* Send                                                                    *)

\* The lists before the one that grows do not matter.
LEMMA GrownJoined ==
  ASSUME NEW p \in Seq(Seg), NEW q \in Seq(Seg), NEW k \in Nat, k > 0 => q # <<>>
  PROVE  p \o Grown(q, k) = Grown(p \o q, k)
<1> DEFINE g == Grown(q, k)
           j == p \o q
           x == p \o g
           y == Grown(j, k)
<1>1. /\ g \in Seq(Seg) /\ Len(g) = Len(q)
      /\ \A i \in 1..Len(q) :
           /\ g[i].from = q[i].from /\ g[i].frg = q[i].frg
           /\ g[i].to = IF i = Len(q) THEN q[i].to + k ELSE q[i].to
           /\ i # Len(q) => g[i] = q[i]
  BY GrownProps
<1>2. /\ j \in Seq(Seg) /\ Len(j) = Len(p) + Len(q) /\ Len(p) \in Nat /\ Len(q) \in Nat
      /\ \A i \in 1..Len(j) :
           IF i <= Len(p) THEN i \in 1..Len(p) /\ j[i] = p[i]
           ELSE i - Len(p) \in 1..Len(q) /\ j[i] = q[i - Len(p)]
  BY Joined
<1> HIDE DEF g, j
<1>3. /\ x \in Seq(Seg) /\ Len(x) = Len(p) + Len(g)
      /\ \A i \in 1..Len(x) :
           IF i <= Len(p) THEN i \in 1..Len(p) /\ x[i] = p[i]
           ELSE i - Len(p) \in 1..Len(g) /\ x[i] = g[i - Len(p)]
  BY <1>1, Joined
<1>4. k > 0 => j # <<>>
  <2>1. k > 0 => Len(q) > 0
    BY <1>2
  <2>2. QED
    BY <1>2, <2>1
<1>5. /\ y \in Seq(Seg) /\ Len(y) = Len(j)
      /\ \A i \in 1..Len(j) :
           /\ y[i].from = j[i].from /\ y[i].frg = j[i].frg
           /\ y[i].to = IF i = Len(j) THEN j[i].to + k ELSE j[i].to
           /\ i # Len(j) => y[i] = j[i]
  BY <1>2, <1>4, GrownProps
<1> HIDE DEF x, y
<1>6. Len(x) = Len(y) /\ Len(x) \in Nat
  BY <1>1, <1>2, <1>3, <1>5
<1>7. ASSUME NEW i \in 1..Len(x) PROVE x[i] = y[i]
  <2>1. i \in 1..Len(j) /\ i \in 1..Len(y)
    BY <1>5, <1>6
  <2>2. CASE i # Len(j)
    <3>1. y[i] = j[i]
      BY <1>5, <2>1, <2>2
    <3>2. CASE i <= Len(p)
      <4>1. x[i] = p[i] /\ j[i] = p[i]
        BY <1>2, <1>3, <2>1, <3>2
      <4>2. QED
        BY <3>1, <4>1
    <3>3. CASE ~(i <= Len(p))
      <4>1. i - Len(p) \in 1..Len(q) /\ i - Len(p) # Len(q) /\ x[i] = g[i - Len(p)]
        <5>1. x[i] = g[i - Len(p)]
          BY <1>3, <3>3
        <5>2. i - Len(p) \in 1..Len(q)
          BY <1>2, <2>1, <3>3
        <5>3. i # Len(p) + Len(q)
          BY <1>2, <2>2
        <5>4. QED
          BY <1>2, <5>1, <5>2, <5>3
      <4>2. g[i - Len(p)] = q[i - Len(p)]
        BY <1>1, <4>1
      <4>3. j[i] = q[i - Len(p)]
        BY <1>2, <2>1, <3>3
      <4>4. QED
        BY <3>1, <4>1, <4>2, <4>3
    <3>4. QED
      BY <3>2, <3>3
  <2>3. CASE i = Len(j) /\ q = <<>>
    <3>1. k = 0 /\ i <= Len(p) /\ x[i] = p[i] /\ j[i] = p[i]
      BY <1>2, <1>3, <2>1, <2>3
    <3>2. y = j
      BY <3>1 DEF y, j, Grown
    <3>3. QED
      BY <3>1, <3>2
  <2>4. CASE i = Len(j) /\ q # <<>>
    <3>1. ~(i <= Len(p)) /\ i - Len(p) = Len(q) /\ Len(q) \in 1..Len(q)
      BY <1>2, <2>4
    <3>2. x[i] = g[Len(q)] /\ j[i] = q[Len(q)]
      BY <1>2, <1>3, <2>1, <3>1
    <3>3. x[i].from = y[i].from /\ x[i].to = y[i].to /\ x[i].frg = y[i].frg
      BY <1>1, <1>5, <2>1, <2>4, <3>1, <3>2
    <3>4. x[i] \in Seg /\ y[i] \in Seg
      BY <1>3, <1>5, <2>1
    <3>5. QED
      BY <3>3, <3>4 DEF Seg
  <2>5. QED
    BY <2>2, <2>3, <2>4
<1>8. x = y
  BY <1>3, <1>5, <1>6, <1>7, SameSeq
<1>9. QED
  BY <1>8 DEF x, y, g, j

\* What Send does to the list of all segments.
LEMMA WaySend ==
  ASSUME TypeOK, NEW k \in Nat, k > 0 => sndQueue # <<>>, NEW fr \in Seq(Seg),
         sndQueue' = Grown(sndQueue, k) \o fr,
         rcvQueue' = rcvQueue, sndBuf' = sndBuf, got' = got
  PROVE  /\ OnTheWay' = Grown(OnTheWay, k) \o fr /\ sndQueue' \in Seq(Seg)
         /\ k > 0 => OnTheWay # <<>>
<1> DEFINE p == rcvQueue \o Ahead
           q == Grown(sndQueue, k)
<1>1. /\ p \in Seq(Seg) /\ sndQueue \in Seq(Seg) /\ OnTheWay = p \o sndQueue
  BY WayTyped DEF TypeOK
<1>2. q \in Seq(Seg)
  BY <1>1, GrownProps
<1>3. OnTheWay' = p \o (q \o fr)
  BY DEF OnTheWay, Ahead
<1>4. p \o q = Grown(p \o sndQueue, k)
  BY <1>1, GrownJoined
<1>5. q \o fr \in Seq(Seg)
  BY <1>2, Joined
<1>6. k > 0 => p \o sndQueue # <<>>
  <2>1. Len(p \o sndQueue) = Len(p) + Len(sndQueue) /\ Len(p) \in Nat /\ Len(sndQueue) \in Nat
    BY <1>1, Joined
  <2> HIDE DEF p
  <2>2. QED
    BY <1>1, <2>1
<1> HIDE DEF p, q
<1>7. (p \o q) \o fr = p \o (q \o fr)
  BY <1>1, <1>2, JoinedAssoc
<1>8. QED
  BY <1>1, <1>3, <1>4, <1>5, <1>6, <1>7 DEF q

\* In stream mode no more is appended to the last segment than it has room for.
LEMMA FillProps ==
  ASSUME TypeOK, NEW n \in Nat
  PROVE  /\ Fill(n) \in Nat /\ Fill(n) <= n
         /\ Filled(Fill(n)) = Grown(sndQueue, Fill(n))
         /\ Fill(n) > 0 => /\ stream /\ sndQueue # <<>>
                           /\ Length(sndQueue[Len(sndQueue)]) + Fill(n) <= mss
<1>1. mss \in Nat /\ sndQueue \in Seq(Seg)
  BY MtuAssumption DEF TypeOK
<1>2. Filled(Fill(n)) = Grown(sndQueue, Fill(n))
  BY DEF Filled, Grown
<1>3. CASE stream /\ sndQueue # <<>> /\ Length(Last(sndQueue)) < mss
  <2> DEFINE l == Length(sndQueue[Len(sndQueue)])
  <2>1. Fill(n) = Least(n, mss - l) /\ l < mss
    BY <1>3 DEF Fill, Last
  <2>2. l \in Int
    <3>1. Len(sndQueue) \in 1..Len(sndQueue)
      BY <1>1, <1>3
    <3>2. sndQueue[Len(sndQueue)] \in Seg
      BY <1>1, <3>1
    <3>3. QED
      BY <3>2 DEF Seg, Length
  <2> HIDE DEF l
  <2>3. Fill(n) \in Nat /\ Fill(n) <= n /\ l + Fill(n) <= mss
    BY <1>1, <2>1, <2>2 DEF Least
  <2>4. QED
    BY <1>2, <1>3, <2>3 DEF l
<1>4. CASE ~(stream /\ sndQueue # <<>> /\ Length(Last(sndQueue)) < mss)
  <2>1. Fill(n) = 0
    BY <1>4 DEF Fill
  <2>2. QED
    BY <1>2, <2>1
<1>5. QED
  BY <1>3, <1>4

\* The last segment of all is the end of a message.
LEMMA LastEnds ==
  ASSUME NEW w \in Seq(Seg), Numbered(w), w # <<>>
  PROVE  Len(w) \in 1..Len(w) /\ w[Len(w)].frg = 0
<1>1. Len(w) \in 1..Len(w) /\ Len(w) \in Nat
  OBVIOUS
<1>2. w[Len(w)] \in Seg
  BY <1>1
<1>3. w[Len(w)].frg \in Nat /\ Len(w) + w[Len(w)].frg <= Len(w)
  BY <1>1, <1>2 DEF Numbered, Seg
<1>4. QED
  BY <1>1, <1>3

\* What Send appends touches no message before it.
LEMMA WholeKept ==
  ASSUME NEW m \in Nat \X Nat, NEW w \in Seq(Seg), NEW lo \in Nat, NEW hi \in Nat,
         NEW es, Whole(m, w, lo, hi, es), Chain(w, lo, hi),
         NEW k \in Nat, k > 0 => w # <<>>,
         NEW fr \in Seq(Seg), NEW top \in Nat, Chain(fr, hi + k, top)
  PROVE  Whole(m, Grown(w, k) \o fr, lo, top, es)
<1> DEFINE g == Grown(w, k)
           x == g \o fr
<1>1. /\ g \in Seq(Seg) /\ Len(g) = Len(w) /\ Len(w) \in Nat
      /\ \A i \in 1..Len(w) :
           /\ g[i].from = w[i].from /\ g[i].frg = w[i].frg
           /\ g[i].to = IF i = Len(w) THEN w[i].to + k ELSE w[i].to
           /\ i # Len(w) => g[i] = w[i]
  BY GrownProps
<1> HIDE DEF g
<1>2. /\ x \in Seq(Seg) /\ Len(x) = Len(g) + Len(fr) /\ Len(fr) \in Nat
      /\ \A i \in 1..Len(g) : x[i] = g[i]
      /\ \A i \in 1..Len(x) :
           IF i <= Len(g) THEN i \in 1..Len(g) /\ x[i] = g[i]
           ELSE i - Len(g) \in 1..Len(fr) /\ x[i] = fr[i - Len(g)]
  BY <1>1, Joined
<1> HIDE DEF x
<1>3. /\ m[1] \in Nat /\ m[2] \in Nat /\ m[1] < m[2] /\ m[2] <= hi
      /\ (m[1] <= lo => m[1] \in es) /\ \A e \in es : ~(m[1] < e /\ e < m[2])
  BY DEF Whole
<1>4. hi + k <= top
  BY ChainEnds
<1>5. w # <<>> => w[Len(w)].to = hi /\ Len(w) \in 1..Len(w)
  BY ChainEnds
<1>6. \A i \in 1..Len(w) : w[i].to \in Nat
  <2>1. \A i \in 1..Len(w) : w[i] \in Seg
    OBVIOUS
  <2>2. QED
    BY <2>1 DEF Seg
<1>7. m[1] > lo => \E i \in 1..Len(x) : x[i].frg = 0 /\ x[i].to = m[1]
  <2> SUFFICES ASSUME m[1] > lo PROVE \E i \in 1..Len(x) : x[i].frg = 0 /\ x[i].to = m[1]
    OBVIOUS
  <2>1. PICK i \in 1..Len(w) : w[i].frg = 0 /\ w[i].to = m[1]
    BY DEF Whole
  <2>2. i # Len(w)
    <3>1. w # <<>>
      OBVIOUS
    <3>2. QED
      BY <1>3, <1>5, <2>1, <3>1
  <2>3. i \in 1..Len(x) /\ i \in 1..Len(g)
    BY <1>1, <1>2
  <2>4. x[i] = w[i]
    BY <1>1, <1>2, <2>2, <2>3
  <2>5. QED
    BY <2>1, <2>3, <2>4
<1>8. ASSUME NEW i \in 1..Len(x), x[i].frg = 0
      PROVE  ~(m[1] < x[i].to /\ x[i].to < m[2])
  <2>1. CASE i <= Len(g)
    <3>1. i \in 1..Len(w) /\ x[i] = g[i]
      BY <1>1, <1>2, <2>1
    <3>2. w[i].frg = 0
      BY <1>1, <1>8, <3>1
    <3>3. CASE i # Len(w)
      <4>1. x[i].to = w[i].to
        BY <1>1, <3>1, <3>3
      <4>2. QED
        BY <3>1, <3>2, <4>1 DEF Whole
    <3>4. CASE i = Len(w)
      <4>1. x[i].to = w[i].to + k /\ w[i].to = hi
        <5>1. w # <<>>
          BY <3>1
        <5>2. QED
          BY <1>1, <1>5, <3>1, <3>4, <5>1
      <4>2. QED
        BY <1>3, <4>1
    <3>5. QED
      BY <3>3, <3>4
  <2>2. CASE ~(i <= Len(g))
    <3> DEFINE j == i - Len(g)
    <3>1. j \in 1..Len(fr) /\ x[i] = fr[j]
      BY <1>2, <2>2
    <3> HIDE DEF j
    <3>2. fr[j] \in Seg
      BY <3>1
    <3>3. fr[j].from < fr[j].to /\ hi + k <= fr[j].from
      BY <3>1 DEF Chain
    <3>4. fr[j].to \in Nat /\ fr[j].from \in Nat
      BY <3>2 DEF Seg
    <3>5. hi + k \in Nat /\ hi <= hi + k
      OBVIOUS
    <3>6. \A a, b, c, d, e \in Nat : a <= b /\ b <= c /\ c <= d /\ d < e => ~(e < a)
      OBVIOUS
    <3>7. ~(fr[j].to < m[2])
      BY <1>3, <3>3, <3>4, <3>5, <3>6, Zenon
    <3>8. QED
      BY <3>1, <3>7, Zenon
  <2>3. QED
    BY <2>1, <2>2
<1>9. m[2] <= top
  BY <1>3, <1>4
<1>10. Whole(m, x, lo, top, es)
  BY <1>3, <1>7, <1>8, <1>9 DEF Whole
<1>11. QED
  BY <1>10 DEF x, g

\* Nor does Receive, which takes the first message whole.
LEMMA WholeRead ==
  ASSUME NEW m \in Nat \X Nat, NEW w \in Seq(Seg), NEW lo \in Nat, NEW hi \in Nat,
         NEW es, Whole(m, w, lo, hi, es), Chain(w, lo, hi),
         NEW k \in 1..Len(w), w[k].frg = 0, \A j \in 1..(k - 1) : w[j].frg # 0
  PROVE  Whole(m, SubSeq(w, k + 1, Len(w)), w[k].to, hi, es \cup {w[k].to})
<1> DEFINE x == SubSeq(w, k + 1, Len(w))
           at == w[k].to
<1>1. /\ m[1] \in Nat /\ m[2] \in Nat /\ m[1] < m[2] /\ m[2] <= hi
      /\ m[1] <= lo => m[1] \in es
      /\ m[1] > lo => \E i \in 1..Len(w) : w[i].frg = 0 /\ w[i].to = m[1]
      /\ \A i \in 1..Len(w) : w[i].frg = 0 => ~(m[1] < w[i].to /\ w[i].to < m[2])
      /\ \A e \in es : ~(m[1] < e /\ e < m[2])
  BY DEF Whole
<1>2. /\ x \in Seq(Seg) /\ Len(x) = Len(w) - k /\ Len(w) \in Nat /\ k \in Nat
      /\ \A i \in 1..(Len(w) - k) : k + i \in 1..Len(w) /\ x[i] = w[k + i]
  <2>1. k \in 0..Len(w)
    OBVIOUS
  <2>2. QED
    BY <2>1, TwoParts
<1> HIDE DEF x
<1>3. \A i \in 1..Len(w) : w[i].to \in Nat /\ w[i].from \in Nat
  <2>1. \A i \in 1..Len(w) : w[i] \in Seg
    OBVIOUS
  <2>2. QED
    BY <2>1 DEF Seg
<1>4. at \in Nat /\ lo < at
  <2>1. w[k].from < w[k].to /\ lo <= w[k].from
    BY DEF Chain
  <2>2. w[k].to \in Nat /\ w[k].from \in Nat
    BY <1>3
  <2>3. \A a, b, c \in Nat : a <= b /\ b < c => a < c
    OBVIOUS
  <2>4. QED
    BY <2>1, <2>2, <2>3, Zenon
<1>5. ASSUME NEW i \in 1..Len(w), w[i].frg = 0
      PROVE  i = k \/ (i > k /\ at < w[i].to)
  <2>1. i >= k
    <3> SUFFICES ASSUME i < k PROVE FALSE
      BY <1>2
    <3>1. i \in 1..(k - 1)
      BY <1>2
    <3>2. QED
      BY <1>5, <3>1
  <2>2. i > k => at < w[i].to
    <3> SUFFICES ASSUME k < i PROVE at < w[i].to
      BY <1>2
    <3>1. w[k].to <= w[i].from /\ w[i].from < w[i].to
      BY DEF Chain
    <3>2. \A a, b, c \in Nat : a <= b /\ b < c => a < c
      OBVIOUS
    <3>3. QED
      BY <1>3, <3>1, <3>2, Zenon
  <2>3. QED
    BY <1>2, <2>1, <2>2
<1>6. m[1] <= at => m[1] \in es \cup {at}
  <2> SUFFICES ASSUME m[1] <= at, m[1] > lo PROVE m[1] = at
    BY <1>1
  <2>1. PICK i \in 1..Len(w) : w[i].frg = 0 /\ w[i].to = m[1]
    BY <1>1
  <2>2. i = k \/ (i > k /\ at < w[i].to)
    BY <1>5, <2>1
  <2>3. QED
    BY <1>1, <1>4, <2>1, <2>2
<1>7. m[1] > at => \E i \in 1..Len(x) : x[i].frg = 0 /\ x[i].to = m[1]
  <2> SUFFICES ASSUME m[1] > at PROVE \E i \in 1..Len(x) : x[i].frg = 0 /\ x[i].to = m[1]
    OBVIOUS
  <2>1. m[1] > lo
    BY <1>1, <1>4
  <2>2. PICK i \in 1..Len(w) : w[i].frg = 0 /\ w[i].to = m[1]
    BY <1>1, <2>1
  <2>3. i > k
    <3>1. i # k
      BY <1>1, <1>4, <2>2
    <3>2. QED
      BY <1>5, <2>2, <3>1
  <2>4. i - k \in 1..(Len(w) - k) /\ k + (i - k) = i
    BY <1>2, <2>3
  <2>5. x[i - k] = w[i] /\ i - k \in 1..Len(x)
    BY <1>2, <2>4
  <2>6. QED
    BY <2>2, <2>5
<1>8. \A i \in 1..Len(x) : x[i].frg = 0 => ~(m[1] < x[i].to /\ x[i].to < m[2])
  BY <1>1, <1>2
<1>9. \A e \in es \cup {at} : ~(m[1] < e /\ e < m[2])
  BY <1>1
<1>10. Whole(m, x, at, hi, es \cup {at})
  <2> HIDE DEF at
  <2>1. QED
    BY <1>1, <1>6, <1>7, <1>8, <1>9 DEF Whole
<1>11. QED
  BY <1>10 DEF x

-----------------------------------------------------------------------------
(* The invariant                                                           *)

\* What the invariant says of the segments on their way, after a step.
WayInv(w, lo, hi, es, ms) ==
  /\ Chain(w, lo, hi) /\ Numbered(w)
  /\ lo \in es /\ \A e \in es : e <= lo
  /\ \A m \in ms : Whole(m, w, lo, hi, es)

\* The parts of the invariant, before a step and after it.
LEMMA Parts ==
  /\ MInv <=> TypeOK /\ Fitting /\ WayInv(OnTheWay, read, written, ends, messages)
  /\ MInv' <=> TypeOK' /\ Fitting' /\ WayInv(OnTheWay', read', written', ends', messages')
<1>1. MInv <=> TypeOK /\ Fitting /\ WayInv(OnTheWay, read, written, ends, messages)
  BY Zenon DEF MInv, WayInv
<1>2. MInv' <=> TypeOK' /\ Fitting' /\ WayInv(OnTheWay', read', written', ends', messages')
  BY Zenon DEF MInv, WayInv
<1>3. QED
  BY <1>1, <1>2

\* In the beginning nothing is on its way.
LEMMA InitInv == Init => MInv
<1> SUFFICES ASSUME Init PROVE MInv
  OBVIOUS
<1>1. /\ mtu = MtuDef /\ mss = MtuDef - Overhead - Reserve /\ stream \in BOOLEAN
      /\ sndQueue = <<>> /\ sndBuf = <<>> /\ got = 0 /\ rcvQueue = <<>>
      /\ written = 0 /\ read = 0 /\ ends = {0} /\ messages = {}
      /\ lowered = FALSE /\ crashed = FALSE
  BY DEF Init
<1>2. <<>> \in Seq(Seg)
  OBVIOUS
<1>3. TypeOK
  <2>1. mtu \in Nat /\ mtu >= MtuMin /\ mss = mtu - Overhead - Reserve
    BY <1>1, MtuAssumption
  <2>2. got \in 0..Len(sndBuf) /\ read \in Nat /\ written \in Nat
    BY <1>1
  <2>3. ends \in SUBSET Nat /\ messages \in SUBSET (Nat \X Nat)
    BY <1>1
  <2>4. QED
    BY <1>1, <1>2, <2>1, <2>2, <2>3 DEF TypeOK
<1>4. OnTheWay = <<>>
  <2>1. SubSeq(sndBuf, got + 1, Len(sndBuf)) = <<>>
    BY <1>1
  <2>2. <<>> \o <<>> \o <<>> = <<>>
    OBVIOUS
  <2>3. QED
    BY <1>1, <2>1, <2>2 DEF OnTheWay
<1>5. Fitting
  BY <1>1 DEF Fitting
<1>6. Chain(<<>>, 0, 0) /\ Numbered(<<>>)
  BY DEF Chain, Numbered
<1>7. 0 \in {0} /\ \A e \in {0} : e <= 0
  OBVIOUS
<1>8. WayInv(OnTheWay, read, written, ends, messages)
  BY <1>1, <1>4, <1>6, <1>7 DEF WayInv
<1>9. QED
  BY <1>3, <1>5, <1>8, Parts

\* Steps that only move segments along, or none.
LEMMA Moved ==
  ASSUME MInv, TypeOK', Fitting', OnTheWay' = OnTheWay, read' = read, written' = written,
         ends' = ends, messages' = messages
  PROVE  MInv'
<1>1. WayInv(OnTheWay, read, written, ends, messages)
  BY Parts
<1>2. WayInv(OnTheWay', read', written', ends', messages')
  BY <1>1, Zenon
<1>3. QED
  BY <1>2, Parts

\* Nothing moves.
LEMMA WayStill ==
  ASSUME sndQueue' = sndQueue, sndBuf' = sndBuf, got' = got, rcvQueue' = rcvQueue
  PROVE  OnTheWay' = OnTheWay
BY DEF OnTheWay

\* SetStreamMode only changes what Send will do.
LEMMA StepStream ==
  ASSUME MInv, SetStreamMode
  PROVE  MInv'
<1>1. /\ stream' = ~stream /\ mtu' = mtu /\ mss' = mss /\ sndQueue' = sndQueue
      /\ sndBuf' = sndBuf /\ messages' = messages /\ written' = written
      /\ lowered' = lowered /\ got' = got /\ rcvQueue' = rcvQueue /\ read' = read
      /\ ends' = ends /\ crashed' = crashed
  BY DEF SetStreamMode, rcvVars
<1>2. TypeOK /\ Fitting
  BY Parts
<1>3. stream' \in BOOLEAN
  BY <1>1
<1>4. TypeOK'
  BY <1>1, <1>2, <1>3 DEF TypeOK
<1>5. Fitting'
  BY <1>1, <1>2 DEF Fitting
<1>6. QED
  BY <1>1, <1>4, <1>5, Moved, WayStill

\* SetMtu notes when it leaves too little room for a segment that waits.
LEMMA StepMtu ==
  ASSUME MInv, NEW m \in Mtus, SetMtu(m)
  PROVE  MInv'
<1>1. /\ stream' = stream /\ mtu' = m /\ mss' = m - Overhead - Reserve /\ sndQueue' = sndQueue
      /\ sndBuf' = sndBuf /\ messages' = messages /\ written' = written
      /\ got' = got /\ rcvQueue' = rcvQueue /\ read' = read
      /\ ends' = ends /\ crashed' = crashed /\ m >= MtuMin
  BY DEF SetMtu, rcvVars
<1>2. lowered' = (lowered \/ \E s \in ToSet(sndBuf \o sndQueue) : Length(s) > mss')
  BY DEF SetMtu
<1>3. TypeOK /\ Fitting
  BY Parts
<1>4. lowered' \in BOOLEAN
  BY <1>2, <1>3 DEF TypeOK
<1>5. m \in Nat
  BY MtuAssumption
<1>6. TypeOK'
  <2>1. mtu' \in Nat /\ mtu' >= MtuMin /\ mss' = mtu' - Overhead - Reserve
    BY <1>1, <1>5
  <2>2. QED
    BY <1>1, <1>3, <1>4, <2>1 DEF TypeOK
<1>7. Fitting'
  <2>1. crashed' => lowered'
    BY <1>1, <1>2, <1>3 DEF Fitting
  <2>2. ASSUME ~lowered'
        PROVE  /\ \A i \in 1..Len(sndBuf) : Length(sndBuf[i]) <= mss'
               /\ \A i \in 1..Len(sndQueue) : Length(sndQueue[i]) <= mss'
    <3> DEFINE j == sndBuf \o sndQueue
    <3>1. \A s \in ToSet(j) : ~(Length(s) > mss')
      BY <1>2, <2>2
    <3>2. /\ j \in Seq(Seg) /\ Len(j) = Len(sndBuf) + Len(sndQueue)
          /\ Len(sndBuf) \in Nat /\ Len(sndQueue) \in Nat
          /\ \A i \in 1..Len(sndBuf) : j[i] = sndBuf[i]
          /\ \A i \in 1..Len(sndQueue) : j[Len(sndBuf) + i] = sndQueue[i]
      BY <1>3, Joined DEF TypeOK
    <3> HIDE DEF j
    <3>3. ASSUME NEW i \in 1..Len(j) PROVE Length(j[i]) <= mss'
      <4>1. i \in DOMAIN j
        BY <3>2
      <4>2. ~(Length(j[i]) > mss')
        BY <3>1, <4>1 DEF ToSet
      <4>3. Length(j[i]) \in Int
        <5>1. j[i] \in Seg
          BY <3>2
        <5>2. QED
          BY <5>1 DEF Seg, Length
      <4>4. mss' \in Int
        BY <1>1, <1>5, MtuAssumption
      <4>5. QED
        BY <4>2, <4>3, <4>4
    <3>4. \A i \in 1..Len(sndBuf) : i \in 1..Len(j)
      BY <3>2
    <3>5. \A i \in 1..Len(sndQueue) : Len(sndBuf) + i \in 1..Len(j)
      BY <3>2
    <3>6. QED
      BY <3>2, <3>3, <3>4, <3>5
  <2>3. QED
    BY <1>1, <2>1, <2>2 DEF Fitting
<1>8. QED
  BY <1>1, <1>6, <1>7, Moved, WayStill

\* A segment that arrives only changes lists.
LEMMA StepArrive ==
  ASSUME MInv, Arrive
  PROVE  MInv'
<1>1. /\ got < Len(sndBuf) /\ rcvQueue' = Append(rcvQueue, sndBuf[got + 1]) /\ got' = got + 1
      /\ mtu' = mtu /\ mss' = mss /\ stream' = stream /\ sndQueue' = sndQueue
      /\ sndBuf' = sndBuf /\ messages' = messages /\ written' = written
      /\ lowered' = lowered /\ read' = read /\ ends' = ends /\ crashed' = crashed
  BY DEF Arrive, sndVars
<1>2. TypeOK /\ Fitting
  BY Parts
<1>3. rcvQueue' \in Seq(Seg) /\ got' \in 0..Len(sndBuf)
  <2>1. /\ rcvQueue \in Seq(Seg) /\ sndBuf \in Seq(Seg) /\ got \in 0..Len(sndBuf)
        /\ Len(sndBuf) \in Nat
    BY <1>2 DEF TypeOK
  <2>2. got + 1 \in 1..Len(sndBuf)
    BY <1>1, <2>1
  <2>3. sndBuf[got + 1] \in Seg
    BY <2>1, <2>2
  <2>4. Append(rcvQueue, sndBuf[got + 1]) \in Seq(Seg)
    BY <2>1, <2>3
  <2>5. QED
    BY <1>1, <2>2, <2>4
<1>4. TypeOK'
  BY <1>1, <1>2, <1>3 DEF TypeOK
<1>5. Fitting'
  BY <1>1, <1>2 DEF Fitting
<1>6. OnTheWay' = OnTheWay
  BY <1>1, <1>2, WayArrive
<1>7. QED
  BY <1>1, <1>4, <1>5, <1>6, Moved

\* Nor does its ack.
LEMMA StepAcked ==
  ASSUME MInv, Acked
  PROVE  MInv'
<1>1. /\ got > 0 /\ sndBuf' = Tail(sndBuf) /\ got' = got - 1
      /\ mtu' = mtu /\ mss' = mss /\ stream' = stream /\ sndQueue' = sndQueue
      /\ rcvQueue' = rcvQueue /\ messages' = messages /\ written' = written
      /\ lowered' = lowered /\ read' = read /\ ends' = ends /\ crashed' = crashed
  BY DEF Acked, rcvVars
<1>2. TypeOK /\ Fitting
  BY Parts
<1>3. OnTheWay' = OnTheWay /\ sndBuf' \in Seq(Seg) /\ got' \in 0..Len(sndBuf')
  BY <1>1, <1>2, WayAcked
<1>4. TypeOK'
  BY <1>1, <1>2, <1>3 DEF TypeOK
<1>5. \A i \in 1..Len(sndBuf') : i + 1 \in 1..Len(sndBuf) /\ sndBuf'[i] = sndBuf[i + 1]
  <2>1. sndBuf \in Seq(Seg) /\ sndBuf # <<>>
    BY <1>1, <1>2 DEF TypeOK
  <2>2. QED
    BY <1>1, <2>1
<1>6. Fitting'
  <2>1. crashed' => lowered'
    BY <1>1, <1>2 DEF Fitting
  <2>2. ASSUME ~lowered'
        PROVE  /\ \A i \in 1..Len(sndBuf') : Length(sndBuf'[i]) <= mss
               /\ \A i \in 1..Len(sndQueue) : Length(sndQueue[i]) <= mss
    BY <1>1, <1>2, <1>5, <2>2 DEF Fitting
  <2>3. QED
    BY <1>1, <2>1, <2>2 DEF Fitting
<1>7. QED
  BY <1>1, <1>3, <1>4, <1>6, Moved

\* flush moves segments, and encodes no segment that does not fit.
LEMMA StepFlush ==
  ASSUME MInv, ~crashed, NEW ctl \in 0..MaxCtl, NEW k \in 0..SndWnd, NEW again,
         Flush(ctl, k, again)
  PROVE  MInv'
<1> DEFINE new == SubSeq(sndQueue, 1, k)
           segs == sndBuf \o new
           due == again \cup (Len(sndBuf) + 1)..Len(segs)
<1>1. /\ k <= Len(sndQueue) /\ sndBuf' = segs
      /\ sndQueue' = SubSeq(sndQueue, k + 1, Len(sndQueue))
      /\ crashed' = Packed(ctl, segs, due).over
      /\ mtu' = mtu /\ mss' = mss /\ stream' = stream /\ got' = got
      /\ rcvQueue' = rcvQueue /\ messages' = messages /\ written' = written
      /\ lowered' = lowered /\ read' = read /\ ends' = ends
  BY DEF Flush, rcvVars
<1>2. TypeOK /\ Fitting
  BY Parts
<1>3. /\ sndQueue \in Seq(Seg) /\ sndBuf \in Seq(Seg) /\ k \in 0..Len(sndQueue) /\ k \in Nat
      /\ got \in 0..Len(sndBuf) /\ Len(sndBuf) \in Nat /\ ctl \in Nat
  <2>1. sndQueue \in Seq(Seg) /\ sndBuf \in Seq(Seg) /\ got \in 0..Len(sndBuf)
    BY <1>2 DEF TypeOK
  <2>2. k \in Nat /\ ctl \in Nat
    BY WindowAssumption, BoundAssumption
  <2>3. k \in 0..Len(sndQueue)
    BY <1>1, <2>1, <2>2
  <2>4. QED
    BY <2>1, <2>2, <2>3
<1>4. /\ new \in Seq(Seg) /\ Len(new) = k
      /\ \A i \in 1..k : i \in 1..Len(sndQueue) /\ new[i] = sndQueue[i]
      /\ sndQueue' \in Seq(Seg) /\ Len(sndQueue') = Len(sndQueue) - k
      /\ \A i \in 1..(Len(sndQueue) - k) :
           k + i \in 1..Len(sndQueue) /\ sndQueue'[i] = sndQueue[k + i]
  BY <1>1, <1>3, TwoParts
<1>5. OnTheWay' = OnTheWay
  BY <1>1, <1>2, <1>3, WayFlush
<1> HIDE DEF new
<1>6. /\ segs \in Seq(Seg) /\ Len(segs) = Len(sndBuf) + Len(new) /\ Len(new) \in Nat
      /\ \A i \in 1..Len(segs) :
           IF i <= Len(sndBuf) THEN i \in 1..Len(sndBuf) /\ segs[i] = sndBuf[i]
           ELSE i - Len(sndBuf) \in 1..Len(new) /\ segs[i] = new[i - Len(sndBuf)]
  BY <1>3, <1>4, Joined
<1> HIDE DEF segs, due
<1>7. crashed' \in BOOLEAN /\ ((\A i \in 1..Len(segs) : Length(segs[i]) <= mss) => ~crashed')
  BY <1>1, <1>2, <1>3, <1>6, PackedProps
<1>8. ASSUME ~lowered
      PROVE  /\ \A i \in 1..Len(segs) : Length(segs[i]) <= mss
             /\ \A i \in 1..Len(sndQueue') : Length(sndQueue'[i]) <= mss
  <2>1. /\ \A i \in 1..Len(sndBuf) : Length(sndBuf[i]) <= mss
        /\ \A i \in 1..Len(sndQueue) : Length(sndQueue[i]) <= mss
    BY <1>2, <1>8 DEF Fitting
  <2>2. \A i \in 1..Len(new) : Length(new[i]) <= mss
    BY <1>4, <2>1
  <2>3. \A i \in 1..Len(segs) : Length(segs[i]) <= mss
    BY <1>6, <2>1, <2>2
  <2>4. \A i \in 1..Len(sndQueue') : Length(sndQueue'[i]) <= mss
    BY <1>4, <2>1
  <2>5. QED
    BY <2>3, <2>4
<1>9. Fitting'
  BY <1>1, <1>7, <1>8 DEF Fitting
<1>10. got' \in 0..Len(sndBuf')
  BY <1>1, <1>3, <1>6
<1>11. TypeOK'
  BY <1>1, <1>2, <1>4, <1>6, <1>7, <1>10 DEF TypeOK
<1>12. QED
  BY <1>1, <1>5, <1>9, <1>11, Moved

\* Receive takes the first message whole.
LEMMA StepReceive ==
  ASSUME MInv, NEW b, Receive(b)
  PROVE  MInv'
<1> DEFINE w == OnTheWay
           k == Frags
           at == w[k].to
<1>1. /\ Complete /\ read' = read + PeekSize /\ ends' = ends \cup {read'}
      /\ rcvQueue' = SubSeq(rcvQueue, Len(FirstMessage) + 1, Len(rcvQueue))
      /\ mtu' = mtu /\ mss' = mss /\ stream' = stream /\ got' = got
      /\ sndQueue' = sndQueue /\ sndBuf' = sndBuf /\ messages' = messages
      /\ written' = written /\ lowered' = lowered /\ crashed' = crashed
  BY DEF Receive, sndVars
<1>2. /\ TypeOK /\ Fitting /\ Chain(w, read, written) /\ Numbered(w)
      /\ read \in ends /\ (\A e \in ends : e <= read)
      /\ \A m \in messages : Whole(m, w, read, written, ends)
  BY Zenon DEF MInv
<1>3. /\ PeekSize = at - read /\ Len(FirstMessage) = k /\ at \in Nat
      /\ k \in 1..Len(w) /\ w[k].frg = 0 /\ \A j \in 1..(k - 1) : w[j].frg # 0
  BY <1>1, <1>2, PeekProps, FirstProps
<1>4. OnTheWay' = SubSeq(w, k + 1, Len(w)) /\ rcvQueue' \in Seq(Seg)
  BY <1>1, <1>2, <1>3, WayReceive
<1>5. w \in Seq(Seg)
  BY <1>2, WayTyped
<1>6. /\ read \in Nat /\ written \in Nat /\ ends \in SUBSET Nat
      /\ messages \in SUBSET (Nat \X Nat)
  BY <1>2 DEF TypeOK
<1> HIDE DEF w, k, at
<1>7. read' = at
  BY <1>1, <1>3, <1>6
<1>8. read < at
  <2>1. /\ w[k].from < w[k].to /\ read <= w[k].from
    BY <1>2, <1>3 DEF Chain
  <2>2. w[k] \in Seg
    BY <1>3, <1>5
  <2>3. w[k].from \in Nat /\ w[k].to \in Nat
    BY <2>2 DEF Seg
  <2>4. QED
    BY <1>6, <2>1, <2>3 DEF at
<1>9. Chain(OnTheWay', read', written')
  <2>1. Chain(SubSeq(w, k + 1, Len(w)), at, written)
    BY <1>2, <1>3, <1>5, <1>6, ChainCut DEF at
  <2>2. QED
    BY <1>1, <1>4, <1>7, <2>1, Zenon
<1>10. Numbered(OnTheWay')
  <2>1. Numbered(SubSeq(w, k + 1, Len(w)))
    BY <1>2, <1>3, <1>5, NumberedCut
  <2>2. QED
    BY <1>4, <2>1, Zenon
<1>11. read' \in ends' /\ \A e \in ends' : e <= read'
  BY <1>1, <1>2, <1>3, <1>6, <1>7, <1>8
<1>12. ASSUME NEW m \in messages'
       PROVE  Whole(m, OnTheWay', read', written', ends')
  <2>1. m \in Nat \X Nat /\ Whole(m, w, read, written, ends)
    BY <1>1, <1>2, <1>6
  <2>2. Whole(m, SubSeq(w, k + 1, Len(w)), at, written, ends \cup {at})
    BY <1>2, <1>3, <1>5, <1>6, <2>1, WholeRead DEF at
  <2>3. QED
    BY <1>1, <1>4, <1>7, <2>2, Zenon
<1>13. TypeOK'
  <2>1. read' \in Nat /\ ends' \in SUBSET Nat
    BY <1>1, <1>3, <1>6, <1>7
  <2>2. QED
    BY <1>1, <1>2, <1>4, <2>1 DEF TypeOK
<1>14. Fitting'
  BY <1>1, <1>2 DEF Fitting
<1>15. WayInv(OnTheWay', read', written', ends', messages')
  BY <1>9, <1>10, <1>11, <1>12 DEF WayInv
<1>16. QED
  BY <1>13, <1>14, <1>15, Parts

\* Send appends to the last segment what fits there, and then what it cut.
LEMMA StepSend ==
  ASSUME MInv, NEW n \in Sizes, Send(n)
  PROVE  MInv'
<1> DEFINE w == OnTheWay
           fill == Fill(n)
           fits == Count(n - fill) <= MaxFrg
           cut == Fragments(written + fill, n - fill)
           fr == IF fits THEN cut ELSE <<>>
<1>1. /\ sndQueue' = Filled(fill) \o fr
      /\ written' = written + IF fits THEN n ELSE fill
      /\ messages' = IF fits /\ ~stream THEN messages \cup {<<written, written + n>>}
                     ELSE messages
      /\ mtu' = mtu /\ mss' = mss /\ stream' = stream /\ got' = got
      /\ rcvQueue' = rcvQueue /\ sndBuf' = sndBuf /\ read' = read /\ ends' = ends
      /\ lowered' = lowered /\ crashed' = crashed
  BY DEF Send, rcvVars
<1>2. /\ TypeOK /\ Fitting /\ Chain(w, read, written) /\ Numbered(w)
      /\ read \in ends /\ (\A e \in ends : e <= read)
      /\ \A m \in messages : Whole(m, w, read, written, ends)
  BY Zenon DEF MInv
<1>3. n \in Nat \ {0} /\ mss \in Nat \ {0}
  BY <1>2, BoundAssumption, MtuAssumption DEF TypeOK
<1>4. /\ stream \in BOOLEAN /\ sndQueue \in Seq(Seg) /\ read \in Nat /\ written \in Nat
      /\ messages \in SUBSET (Nat \X Nat) /\ ends \in SUBSET Nat
  BY <1>2 DEF TypeOK
<1>5. /\ fill \in Nat /\ fill <= n /\ Filled(fill) = Grown(sndQueue, fill)
      /\ fill > 0 => /\ stream /\ sndQueue # <<>>
                     /\ Length(sndQueue[Len(sndQueue)]) + fill <= mss
  BY <1>2, <1>3, FillProps
<1> HIDE DEF w, fill
<1>6. /\ written + fill \in Nat /\ n - fill \in Nat /\ (written + fill) + (n - fill) = written + n
      /\ written + n \in Nat /\ written < written + n
  BY <1>3, <1>4, <1>5
<1>7. /\ cut \in Seq(Seg) /\ Chain(cut, written + fill, written + n) /\ Numbered(cut)
      /\ \A i \in 1..Len(cut) :
           /\ Length(cut[i]) <= mss
           /\ ~stream /\ cut[i].frg = 0 => cut[i].to = written + n
  <2> DEFINE from == written + fill
             l == n - fill
  <2>1. from \in Nat /\ l \in Nat /\ from + l = written + n
    BY <1>6
  <2> HIDE DEF from, l
  <2>2. /\ Fragments(from, l) \in Seq(Seg)
        /\ Chain(Fragments(from, l), from, from + l) /\ Numbered(Fragments(from, l))
        /\ \A i \in 1..Len(Fragments(from, l)) :
             /\ Length(Fragments(from, l)[i]) <= mss
             /\ ~stream /\ Fragments(from, l)[i].frg = 0 => Fragments(from, l)[i].to = from + l
    BY <1>3, <1>4, <2>1, FragmentsProps
  <2>3. cut = Fragments(from, l)
    BY DEF from, l
  <2> HIDE DEF cut
  <2>4. QED
    BY <2>1, <2>2, <2>3, Zenon DEF from
<1> HIDE DEF cut, fits
<1>8. /\ fr \in Seq(Seg) /\ written' \in Nat /\ Chain(fr, written + fill, written') /\ Numbered(fr)
      /\ \A i \in 1..Len(fr) : Length(fr[i]) <= mss
  <2>1. CASE fits
    <3>1. fr = cut /\ written' = written + n
      BY <1>1, <2>1
    <3>2. QED
      BY <1>6, <1>7, <3>1, Zenon
  <2>2. CASE ~fits
    <3>1. fr = <<>> /\ written' = written + fill
      BY <1>1, <2>2
    <3>2. <<>> \in Seq(Seg) /\ Len(<<>>) = 0
      OBVIOUS
    <3>3. Chain(<<>>, written + fill, written + fill) /\ Numbered(<<>>)
      BY DEF Chain, Numbered
    <3>4. \A i \in 1..0 : Length(fr[i]) <= mss
      OBVIOUS
    <3> HIDE DEF fr
    <3>5. QED
      BY <1>6, <3>1, <3>2, <3>3, <3>4, Zenon
  <2>3. QED
    BY <2>1, <2>2
<1> HIDE DEF fr
<1>9. OnTheWay' = Grown(w, fill) \o fr /\ sndQueue' \in Seq(Seg) /\ (fill > 0 => w # <<>>)
  BY <1>1, <1>2, <1>5, <1>8, WaySend DEF w
<1>10. w \in Seq(Seg)
  BY <1>2, WayTyped DEF w
<1>11. /\ Chain(Grown(w, fill), read, written + fill) /\ Numbered(Grown(w, fill))
       /\ Grown(w, fill) \in Seq(Seg)
  BY <1>2, <1>4, <1>5, <1>9, <1>10, ChainGrown, GrownProps
<1>12. Chain(OnTheWay', read', written')
  <2>1. Chain(Grown(w, fill) \o fr, read, written')
    BY <1>4, <1>6, <1>8, <1>11, ChainJoined
  <2>2. QED
    BY <1>1, <1>9, <2>1, Zenon
<1>13. Numbered(OnTheWay')
  <2>1. Numbered(Grown(w, fill) \o fr)
    BY <1>8, <1>11, NumberedJoined
  <2>2. QED
    BY <1>9, <2>1, Zenon
<1>14. ASSUME NEW m \in messages
       PROVE  Whole(m, OnTheWay', read', written', ends')
  <2>1. m \in Nat \X Nat /\ Whole(m, w, read, written, ends)
    BY <1>2, <1>4
  <2>2. Whole(m, Grown(w, fill) \o fr, read, written', ends)
    BY <1>2, <1>4, <1>5, <1>8, <1>9, <1>10, <2>1, WholeKept
  <2>3. QED
    BY <1>1, <1>9, <2>2, Zenon
<1>15. ASSUME fits, ~stream
       PROVE  Whole(<<written, written + n>>, OnTheWay', read', written', ends')
  <2> DEFINE m == <<written, written + n>>
             x == w \o fr
  <2>1. fill = 0
    BY <1>5, <1>15
  <2>2. Grown(w, fill) = w
    BY <2>1 DEF Grown
  <2>3. fr = cut /\ written' = written + n
    BY <1>1, <1>15 DEF fr
  <2>4. /\ x \in Seq(Seg) /\ Len(x) = Len(w) + Len(fr) /\ Len(w) \in Nat /\ Len(fr) \in Nat
        /\ \A i \in 1..Len(w) : x[i] = w[i]
        /\ \A i \in 1..Len(x) :
             IF i <= Len(w) THEN i \in 1..Len(w) /\ x[i] = w[i]
             ELSE i - Len(w) \in 1..Len(fr) /\ x[i] = fr[i - Len(w)]
    BY <1>8, <1>10, Joined
  <2>5. m[1] = written /\ m[2] = written + n
    OBVIOUS
  <2> HIDE DEF x, m
  <2>6. read <= written /\ (w # <<>> => w[Len(w)].to = written)
    BY <1>2, <1>4, <1>10, ChainEnds
  <2>7. written <= read => written \in ends
    <3>1. written <= read => written = read
      BY <1>4, <2>6
    <3>2. QED
      BY <1>2, <3>1
  <2>8. written > read => \E i \in 1..Len(x) : x[i].frg = 0 /\ x[i].to = written
    <3> SUFFICES ASSUME written > read
                 PROVE  \E i \in 1..Len(x) : x[i].frg = 0 /\ x[i].to = written
      OBVIOUS
    <3>1. w # <<>>
      <4> SUFFICES ASSUME w = <<>> PROVE FALSE
        OBVIOUS
      <4>1. written = read
        BY <1>2 DEF Chain
      <4>2. QED
        BY <1>4, <4>1
    <3>2. Len(w) \in 1..Len(w) /\ w[Len(w)].frg = 0
      BY <1>2, <1>10, <3>1, LastEnds
    <3>3. Len(w) \in 1..Len(x) /\ x[Len(w)] = w[Len(w)]
      BY <2>4, <3>2
    <3>4. QED
      BY <2>6, <3>1, <3>2, <3>3
  <2>9. ASSUME NEW i \in 1..Len(x), x[i].frg = 0
        PROVE  ~(written < x[i].to /\ x[i].to < written + n)
    <3>1. CASE i <= Len(w)
      <4>1. i \in 1..Len(w) /\ x[i] = w[i]
        BY <2>4, <3>1
      <4>2. x[i].to <= written
        BY <1>2, <4>1 DEF Chain
      <4>3. x[i].to \in Nat
        <5>1. w[i] \in Seg
          BY <1>10, <4>1
        <5>2. QED
          BY <4>1, <5>1 DEF Seg
      <4>4. QED
        BY <1>4, <4>2, <4>3
    <3>2. CASE ~(i <= Len(w))
      <4>1. i - Len(w) \in 1..Len(cut) /\ x[i] = cut[i - Len(w)]
        BY <2>3, <2>4, <3>2
      <4>2. x[i].to = written + n
        BY <1>7, <1>15, <2>9, <4>1
      <4>3. QED
        BY <1>6, <4>2
    <3>3. QED
      BY <3>1, <3>2
  <2>10. ASSUME NEW e \in ends PROVE ~(written < e /\ e < written + n)
    BY <1>2, <1>4, <2>6
  <2>11. written + n <= written'
    BY <1>6, <2>3
  <2>12. Whole(m, x, read, written', ends)
    BY <1>6, <2>5, <2>7, <2>8, <2>9, <2>10, <2>11 DEF Whole
  <2>13. OnTheWay' = x
    BY <1>9, <2>2 DEF x
  <2>14. QED
    BY <1>1, <2>12, <2>13, Zenon DEF m
<1>16. ASSUME NEW m \in messages'
       PROVE  Whole(m, OnTheWay', read', written', ends')
  <2>1. CASE fits /\ ~stream
    <3>1. messages' = messages \cup {<<written, written + n>>}
      BY <1>1, <2>1
    <3>2. m \in messages \/ m = <<written, written + n>>
      BY <1>16, <3>1
    <3>3. QED
      BY <1>14, <1>15, <2>1, <3>2, Zenon
  <2>2. CASE ~(fits /\ ~stream)
    <3>1. messages' = messages
      BY <1>1, <2>2
    <3>2. QED
      BY <1>14, <1>16, <3>1
  <2>3. QED
    BY <2>1, <2>2
<1>17. TypeOK'
  <2>1. <<written, written + n>> \in Nat \X Nat
    BY <1>4, <1>6
  <2>2. messages' \in SUBSET (Nat \X Nat)
    BY <1>1, <1>4, <2>1
  <2>3. QED
    BY <1>1, <1>2, <1>8, <1>9, <2>2 DEF TypeOK
<1>18. ASSUME ~lowered
       PROVE  \A i \in 1..Len(sndQueue') : Length(sndQueue'[i]) <= mss
  <2> DEFINE g == Grown(sndQueue, fill)
  <2>1. \A i \in 1..Len(sndQueue) : Length(sndQueue[i]) <= mss
    BY <1>2, <1>18 DEF Fitting
  <2>2. /\ g \in Seq(Seg) /\ Len(g) = Len(sndQueue)
        /\ \A i \in 1..Len(sndQueue) :
             /\ g[i].from = sndQueue[i].from
             /\ g[i].to = IF i = Len(sndQueue) THEN sndQueue[i].to + fill ELSE sndQueue[i].to
    BY <1>4, <1>5, GrownProps
  <2> HIDE DEF g
  <2>3. ASSUME NEW i \in 1..Len(sndQueue) PROVE Length(g[i]) <= mss
    <3>1. sndQueue[i] \in Seg
      BY <1>4
    <3>2. sndQueue[i].from \in Nat /\ sndQueue[i].to \in Nat
      BY <3>1 DEF Seg
    <3>3. CASE i = Len(sndQueue) /\ fill > 0
      <4>1. (sndQueue[i].to - sndQueue[i].from) + fill <= mss
        BY <1>5, <3>3 DEF Length
      <4>2. Length(g[i]) = (sndQueue[i].to + fill) - sndQueue[i].from
        BY <2>2, <3>3 DEF Length
      <4>3. QED
        BY <1>3, <1>5, <3>2, <4>1, <4>2
    <3>4. CASE ~(i = Len(sndQueue) /\ fill > 0)
      <4>1. g[i].to = sndQueue[i].to
        BY <1>5, <2>2, <3>2, <3>4
      <4>2. Length(g[i]) = Length(sndQueue[i])
        BY <2>2, <4>1 DEF Length
      <4>3. QED
        BY <2>1, <4>2
    <3>5. QED
      BY <3>3, <3>4
  <2>4. sndQueue' = g \o fr
    BY <1>1, <1>5 DEF g
  <2>5. \A i \in 1..Len(sndQueue') :
          IF i <= Len(g) THEN i \in 1..Len(g) /\ sndQueue'[i] = g[i]
          ELSE i - Len(g) \in 1..Len(fr) /\ sndQueue'[i] = fr[i - Len(g)]
    BY <1>8, <2>2, <2>4, Joined
  <2>6. QED
    BY <1>8, <2>2, <2>3, <2>5
<1>19. Fitting'
  BY <1>1, <1>2, <1>18 DEF Fitting
<1>20. WayInv(OnTheWay', read', written', ends', messages')
  <2>1. read' \in ends' /\ \A e \in ends' : e <= read'
    BY <1>1, <1>2
  <2>2. QED
    BY <1>12, <1>13, <1>16, <2>1 DEF WayInv
<1>21. QED
  BY <1>17, <1>19, <1>20, Parts

\* Every step keeps the invariant.
LEMMA NextInv == MInv /\ [Next]_vars => MInv'
<1> SUFFICES ASSUME MInv, [Next]_vars PROVE MInv'
  OBVIOUS
<1>1. CASE Next
  <2>1. ASSUME NEW n \in Sizes, Send(n) PROVE MInv'
    BY <2>1, StepSend
  <2>2. ASSUME NEW m \in Mtus, SetMtu(m) PROVE MInv'
    BY <2>2, StepMtu
  <2>3. ASSUME NEW ctl \in 0..MaxCtl, NEW k \in 0..SndWnd, NEW again \in SUBSET (DOMAIN sndBuf),
               Flush(ctl, k, again)
        PROVE  MInv'
    BY <1>1, <2>3, StepFlush DEF Next
  <2>4. ASSUME NEW b \in 1..MaxBytes, Receive(b) PROVE MInv'
    BY <2>4, StepReceive
  <2>5. QED
    BY <1>1, <2>1, <2>2, <2>3, <2>4, StepStream, StepArrive, StepAcked, Zenon DEF Next
<1>2. CASE UNCHANGED vars
  <2>1. /\ mtu' = mtu /\ mss' = mss /\ stream' = stream /\ sndQueue' = sndQueue
        /\ sndBuf' = sndBuf /\ messages' = messages /\ written' = written
        /\ lowered' = lowered /\ got' = got /\ rcvQueue' = rcvQueue /\ read' = read
        /\ ends' = ends /\ crashed' = crashed
    BY <1>2 DEF vars, sndVars, rcvVars
  <2>2. TypeOK /\ Fitting
    BY Parts
  <2>3. TypeOK'
    BY <2>1, <2>2 DEF TypeOK
  <2>4. Fitting'
    BY <2>1, <2>2 DEF Fitting
  <2>5. QED
    BY <2>1, <2>3, <2>4, Moved, WayStill
<1>3. QED
  BY <1>1, <1>2

\* The invariant holds in every state.
THEOREM MessageInvariance == Spec => []MInv
<1>1. QED
  BY InitInv, NextInv, PTL DEF Spec
-----------------------------------------------------------------------------
(* The properties                                                          *)

\* What Receive returns is what was given to Send, byte for byte: between the two
\* ends the segments hold the bytes in order, without a gap and without a repetition.
THEOREM InOrder == Spec => []BytesInOrder
<1>1. MInv => BytesInOrder
  <2> SUFFICES ASSUME MInv PROVE BytesInOrder
    OBVIOUS
  <2>1. Chain(OnTheWay, read, written)
    BY DEF MInv
  <2> DEFINE w == OnTheWay
  <2>2. /\ \A i \in 1..Len(w) : /\ w[i].from = IF i = 1 THEN read ELSE w[i - 1].to
                                /\ w[i].from < w[i].to
        /\ written = IF w = <<>> THEN read ELSE w[Len(w)].to
    BY <2>1 DEF Chain
  <2>3. QED
    BY <2>2 DEF BytesInOrder, Last
<1>2. QED
  BY MessageInvariance, <1>1, PTL

\* Out of stream mode the borders of messages are kept: a result of Receive begins
\* where a message does, and none ends inside one.
THEOREM Borders == Spec => []WholeMessages
<1>1. MInv => WholeMessages
  <2> SUFFICES ASSUME MInv, NEW m \in messages
               PROVE  /\ read >= m[1] => m[1] \in ends
                      /\ \A e \in ends : ~(m[1] < e /\ e < m[2])
    BY DEF WholeMessages
  <2>1. Whole(m, OnTheWay, read, written, ends)
    BY DEF MInv
  <2>2. m[1] \in Nat /\ read \in Nat
    BY DEF MInv, TypeOK
  <2>3. QED
    BY <2>1, <2>2 DEF Whole
<1>2. QED
  BY MessageInvariance, <1>1, PTL

\* flush encodes every segment within the buffer of mtu bytes, headers and reserved
\* bytes included, unless SetMtu made the buffer too small for one that waited.
THEOREM Fits == Spec => []SegmentsFit
<1>1. MInv => SegmentsFit
  BY DEF MInv, Fitting, SegmentsFit
<1>2. QED
  BY MessageInvariance, <1>1, PTL
=============================================================================
