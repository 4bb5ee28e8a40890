-------------------------------- MODULE RUDP --------------------------------
(***************************************************************************)
(* The reliability engine of rudp.go run at the two ends of one            *)
(* conversation, over a network that loses, duplicates and reorders        *)
(* datagrams.  Each end is a RUDP control block guarded by the mutex of    *)
(* its UDPSession; an action is one critical section of that mutex, except *)
(* that Input is cut into one step per PUSH segment (busy = "mu is held by *)
(* Input"), so that no step needs recursion.                               *)
(*                                                                         *)
(* Abstracted: bytes (the k-th segment handed to Send carries payload k, 0 *)
(* is the nil slice delSegment leaves), time (a retransmission, or the     *)
(* probe timer, may fire in any flush) and congestion control (flush may   *)
(* use any congestion window up to its limit; see Congestion for the       *)
(* arithmetic).  sndBuf, to which flush only appends, is a set ordered by  *)
(* sn; rcvBuf, into which parseData inserts, is the slice of the code.     *)
(***************************************************************************)
EXTENDS Integers, Sequences, FiniteSets, Functions

CONSTANTS
  Node,        \* the two ends of the conversation
  WndDefault,  \* IRUDP_WND_SND = IRUDP_WND_RCV, the windows of NewRudp
  SndWnds,     \* send windows the application of each end may set
  RcvWnds,     \* receive windows the application of each end may set
  WndMod,      \* 2^16: the header carries the window in 16 bits
  Coalesce,    \* TRUE: the segments of a flush fit in one mtu; FALSE: each
               \* PUSH segment fills a datagram of its own
  WriteBatch,  \* bound: segments one Write is cut into
  MaxWrite,    \* bound: segments written at each end
  NetCap,      \* bound: datagrams on their way to each end at once
  NetTotal     \* bound: datagrams on their way at once

ASSUME NodeAssumption == \E x, y \in Node : x # y /\ Node = {x, y}
ASSUME WndAssumption ==
  /\ WndDefault \in Nat \ {0}
  /\ SndWnds \in [Node -> SUBSET (Nat \ {0})]
  /\ RcvWnds \in [Node -> SUBSET (Nat \ {0})]
  /\ WndMod \in Nat \ {0}
ASSUME BoundAssumption ==
  /\ Coalesce \in BOOLEAN
  /\ WriteBatch \in Nat
  /\ MaxWrite \in [Node -> Nat]
  /\ NetCap \in [Node -> Nat]
  /\ NetTotal \in Nat

VARIABLES
  sndQueue, sndBuf, sndUna, sndNxt,   \* sender half of each end
  rcvQueue, rcvBuf, rcvNxt, ackList,  \* receiver half of each end
  sndWnd, rcvWnd, rmtWnd,             \* windows: ours, and the peer's last
  tell,                               \* IRUDP_ASK_TELL set in probe
  probeWait,                          \* probeWait # 0: the probe timer runs
  inp,                                \* the datagram Input is working on
  net,                                \* datagrams in the network
  written, read                       \* history: accepted by Write, returned by Read

sndVars == <<sndQueue, sndBuf, sndUna, sndNxt>>
rcvVars == <<rcvQueue, rcvBuf, rcvNxt>>
wndVars == <<sndWnd, rcvWnd>>
hist    == <<written, read>>
vars    == <<sndVars, rcvVars, ackList, wndVars, rmtWnd, tell, probeWait, inp, net, hist>>

Peer(n) == CHOOSE m \in Node : m # n
Least(a, b) == IF a <= b THEN a ELSE b

SndSeg == [sn : Nat, data : Nat, acked : BOOLEAN]  \* a segment of sndBuf
Seg    == [sn : Nat, data : Nat]                   \* a segment of rcvBuf, or a PUSH
Datagram == [to : Node, una : Nat, wnd : Nat, acks : SUBSET Nat,
             ask : BOOLEAN, tell : BOOLEAN, push : SUBSET Seg]
Idle == [busy |-> FALSE, push |-> {}, slid |-> FALSE]

Sns(segs) == {s.sn : s \in segs}
WaitSnd(n) == Cardinality(sndBuf[n]) + Len(sndQueue[n])
-----------------------------------------------------------------------------
Init ==
  /\ sndQueue = [n \in Node |-> <<>>]
  /\ sndBuf = [n \in Node |-> {}]
  /\ sndUna = [n \in Node |-> 0]
  /\ sndNxt = [n \in Node |-> 0]
  /\ rcvQueue = [n \in Node |-> <<>>]
  /\ rcvBuf = [n \in Node |-> <<>>]
  /\ rcvNxt = [n \in Node |-> 0]
  /\ ackList = [n \in Node |-> {}]
  /\ sndWnd = [n \in Node |-> WndDefault]
  /\ rcvWnd = [n \in Node |-> WndDefault]
  /\ rmtWnd = [n \in Node |-> WndDefault]
  /\ tell = [n \in Node |-> FALSE]
  /\ probeWait = [n \in Node |-> FALSE]
  /\ inp = [n \in Node |-> Idle]
  /\ net = {}
  /\ written = [n \in Node |-> 0]
  /\ read = [n \in Node |-> <<>>]
-----------------------------------------------------------------------------
(* flush                                                                   *)

\* unusedWnd: what is left of the receive queue, cut to 16 bits.
UnusedWnd(n) ==
  (IF Len(rcvQueue[n]) < rcvWnd[n] THEN rcvWnd[n] - Len(rcvQueue[n]) ELSE 0) % WndMod

\* The ACK segments a flush encodes.  An entry below rcvNxt is left out, una
\* covers it, unless it is the last one; the order of ackList is abstracted, so
\* any entry may be that last one.
AckSegs(n) ==
  {{a \in ackList[n] : a >= rcvNxt[n] \/ a = last} : last \in ackList[n]}
    \cup (IF ackList[n] = {} THEN {{}} ELSE {})

\* Mutant of Header: una counts the segments received out of order.
HeaderUnaAll(n, acks, ask, tll, push) ==
  [to |-> Peer(n), una |-> rcvNxt[n] + Len(rcvBuf[n]), wnd |-> UnusedWnd(n),
   acks |-> acks, ask |-> ask, tell |-> tll, push |-> push]

\* Headers written in one flush share una and wnd.
Header(n, acks, ask, tll, push) ==
  [to |-> Peer(n), una |-> rcvNxt[n], wnd |-> UnusedWnd(n), acks |-> acks,
   ask |-> ask, tell |-> tll, push |-> push]

\* makeSpace and flushBuffer: the datagrams the segments are packed into.
Pack(n, acks, ask, tll, push) ==
  LET control == acks # {} \/ ask \/ tll
  IN  IF Coalesce
        THEN IF control \/ push # {} THEN {Header(n, acks, ask, tll, push)} ELSE {}
        ELSE (IF control THEN {Header(n, acks, ask, tll, {})} ELSE {})
               \cup {Header(n, {}, FALSE, FALSE, {s}) : s \in push}

\* output, uncork and the network: any of the datagrams may be lost.
Transmit(pkts, inFlight) ==
  \E kept \in SUBSET pkts :
    /\ net' = inFlight \cup kept
    /\ \A n \in Node : Cardinality({d \in net' : d.to = n}) <= NetCap[n]
    /\ Cardinality(net') <= NetTotal

\* Mutant of ProbeTimer: every flush starts the timer anew.
ProbeTimerAnew(n, ask) ==
  /\ probeWait' = [probeWait EXCEPT ![n] = (rmtWnd[n] = 0)]
  /\ ~ask

\* Zero-window probing: the timer is armed by the first flush that sees a closed
\* window, a later flush may find it expired and asks, an open window stops it.
ProbeTimer(n, ask) ==
  /\ probeWait' = [probeWait EXCEPT ![n] = (rmtWnd[n] = 0)]
  /\ ask => rmtWnd[n] = 0 /\ probeWait[n]

\* Segments moved from the queue to sndBuf while sndNxt < sndUna + cwnd.
MoveCount(n, queue, cwnd) ==
  IF sndNxt[n] >= sndUna[n] + cwnd THEN 0
  ELSE Least(Len(queue), sndUna[n] + cwnd - sndNxt[n])

NewSegs(n, queue, k) ==
  {[sn |-> sndNxt[n] + i - 1, data |-> queue[i], acked |-> FALSE] : i \in 1..k}

Wire(segs) == {[sn |-> s.sn, data |-> s.data] : s \in segs}

\* Mutant of Limit: flush does not look at the window of the peer.
LimitOwn(n) == sndWnd[n]

\* The congestion window of flush is at most the smaller of the two windows.
Limit(n) == Least(sndWnd[n], rmtWnd[n])

\* flush(false) with the given send queue.  Every new segment is sent; a segment
\* that was sent before and is not acked may be sent again (fast, early or
\* timeout retransmission); an acked one is skipped.
Flush(n, queue) ==
  \E cwnd \in 0..Limit(n), acks \in AckSegs(n), ask \in BOOLEAN,
     resend \in SUBSET {s \in sndBuf[n] : ~s.acked} :
    LET k == MoveCount(n, queue, cwnd)
        new == NewSegs(n, queue, k)
    IN  /\ ProbeTimer(n, ask)
        /\ sndBuf' = [sndBuf EXCEPT ![n] = @ \cup new]
        /\ sndNxt' = [sndNxt EXCEPT ![n] = @ + k]
        /\ sndQueue' = [sndQueue EXCEPT ![n] = SubSeq(queue, k + 1, Len(queue))]
        /\ ackList' = [ackList EXCEPT ![n] = {}]
        /\ tell' = [tell EXCEPT ![n] = FALSE]
        /\ Transmit(Pack(n, acks, ask, tell[n], Wire(new \cup resend)), net)
        /\ UNCHANGED sndUna

\* flush(true): the acks only.
FlushAcks(n) ==
  \E acks \in AckSegs(n) :
    /\ ackList' = [ackList EXCEPT ![n] = {}]
    /\ Transmit(Pack(n, acks, FALSE, FALSE, {}), net)
    /\ UNCHANGED <<sndVars, tell, probeWait>>
-----------------------------------------------------------------------------
(* The calls of the application and of the timer, under the session mutex  *)

\* WriteBuffers, the branch that does not block: k Sends of at most one mss,
\* then a flush unless writeDelay is on and the windows are not yet full.
Write(n) ==
  /\ ~inp[n].busy
  /\ WaitSnd(n) < sndWnd[n] /\ WaitSnd(n) < rmtWnd[n]
  /\ \E k \in 1..WriteBatch :
       LET queue == sndQueue[n] \o [i \in 1..k |-> written[n] + i]
           waiting == WaitSnd(n) + k
       IN  /\ written[n] + k <= MaxWrite[n]
           /\ written' = [written EXCEPT ![n] = @ + k]
           /\ \/ Flush(n, queue)
              \/ /\ waiting < sndWnd[n] /\ waiting < rmtWnd[n]
                 /\ sndQueue' = [sndQueue EXCEPT ![n] = queue]
                 /\ UNCHANGED <<sndBuf, sndUna, sndNxt, ackList, tell, probeWait, net>>
  /\ UNCHANGED <<rcvVars, wndVars, rmtWnd, inp, read>>

\* update: the periodic flush.
Update(n) ==
  /\ ~inp[n].busy
  /\ Flush(n, sndQueue[n])
  /\ UNCHANGED <<rcvVars, wndVars, rmtWnd, inp, hist>>

\* Mutants of MoveReady: the first segment is taken, whether it is the next one
\* or not; the queue may grow without end.
MoveFirst(n, queue, buf, c) ==
  /\ c = IF buf # <<>> /\ Len(queue) < rcvWnd[n] THEN 1 ELSE 0
  /\ rcvQueue' = [rcvQueue EXCEPT ![n] = queue \o [i \in 1..c |-> buf[i].data]]
  /\ rcvBuf' = [rcvBuf EXCEPT ![n] = SubSeq(buf, c + 1, Len(buf))]
  /\ rcvNxt' = [rcvNxt EXCEPT ![n] = @ + c]
MoveNoRoom(n, queue, buf, c) ==
  /\ \A i \in 0..c : i < c <=> i < Len(buf) /\ buf[i + 1].sn = rcvNxt[n] + i
  /\ rcvQueue' = [rcvQueue EXCEPT ![n] = queue \o [i \in 1..c |-> buf[i].data]]
  /\ rcvBuf' = [rcvBuf EXCEPT ![n] = SubSeq(buf, c + 1, Len(buf))]
  /\ rcvNxt' = [rcvNxt EXCEPT ![n] = @ + c]

\* The loop at the end of parseData and Receive: it moves the first c segments
\* of rcvBuf to rcvQueue, those that follow rcvNxt without a gap and find room.
MoveReady(n, queue, buf, c) ==
  /\ \A i \in 0..c : i < c <=> /\ i < Len(buf) /\ buf[i + 1].sn = rcvNxt[n] + i
                              /\ Len(queue) + i < rcvWnd[n]
  /\ rcvQueue' = [rcvQueue EXCEPT ![n] = queue \o [i \in 1..c |-> buf[i].data]]
  /\ rcvBuf' = [rcvBuf EXCEPT ![n] = SubSeq(buf, c + 1, Len(buf))]
  /\ rcvNxt' = [rcvNxt EXCEPT ![n] = @ + c]

\* Mutants of Read: the head stays in rcvQueue; rcvBuf is not looked at.
ReadPeek(n) ==
  /\ ~inp[n].busy
  /\ rcvQueue[n] # <<>>
  /\ read' = [read EXCEPT ![n] = Append(@, Head(rcvQueue[n]))]
  /\ UNCHANGED <<sndVars, rcvVars, ackList, wndVars, rmtWnd, tell, probeWait, inp, net, written>>
ReadNoMove(n) ==
  /\ ~inp[n].busy
  /\ rcvQueue[n] # <<>>
  /\ read' = [read EXCEPT ![n] = Append(@, Head(rcvQueue[n]))]
  /\ rcvQueue' = [rcvQueue EXCEPT ![n] = Tail(@)]
  /\ UNCHANGED <<sndVars, rcvBuf, rcvNxt, ackList, wndVars, rmtWnd, tell, probeWait, inp,
                 net, written>>

\* Receive of one message (one segment: Write cuts at mss, so frg is 0).  A
\* queue that was full and no longer is makes the next flush tell the window.
Read(n) ==
  /\ ~inp[n].busy
  /\ rcvQueue[n] # <<>>
  /\ read' = [read EXCEPT ![n] = Append(@, Head(rcvQueue[n]))]
  /\ \E c \in 0..Len(rcvBuf[n]) : MoveReady(n, Tail(rcvQueue[n]), rcvBuf[n], c)
  /\ tell' = [tell EXCEPT ![n] =
       @ \/ (Len(rcvQueue[n]) >= rcvWnd[n] /\ Len(rcvQueue'[n]) < rcvWnd[n])]
  /\ UNCHANGED <<sndVars, ackList, wndVars, rmtWnd, probeWait, inp, net, written>>

\* SetWindowSize.
WndSize(n) ==
  /\ ~inp[n].busy
  /\ \E w \in SndWnds[n] : sndWnd' = [sndWnd EXCEPT ![n] = w]
  /\ \E w \in RcvWnds[n] : rcvWnd' = [rcvWnd EXCEPT ![n] = w]
  /\ UNCHANGED <<sndVars, rcvVars, ackList, rmtWnd, tell, probeWait, inp, net, hist>>
-----------------------------------------------------------------------------
(* Input, one datagram at a time                                           *)

\* Mutant of FirstSn: an empty sndBuf gives 0.
FirstSnZero(buf, next) ==
  IF buf = {} THEN 0
  ELSE CHOOSE u \in Sns(buf) : \A v \in Sns(buf) : u <= v

\* updateSndUna.
FirstSn(buf, next) ==
  IF buf = {} THEN next
  ELSE CHOOSE u \in Sns(buf) : \A v \in Sns(buf) : u <= v

\* Mutant of ParseAcks: an ack counts for every segment up to the one it names.
ParseAcksCumulative(buf, acks, una, next) ==
  LET valid == {x \in una..(next - 1) : \E a \in acks : x <= a}
  IN  {IF s.sn \in valid THEN [sn |-> s.sn, data |-> 0, acked |-> TRUE] ELSE s : s \in buf}

\* parseAck: an ack outside [una, sndNxt) is ignored, the segment it names is
\* marked and its data released.
ParseAcks(buf, acks, una, next) ==
  LET valid == {a \in acks : una <= a /\ a < next}
  IN  {IF s.sn \in valid THEN [sn |-> s.sn, data |-> 0, acked |-> TRUE] ELSE s : s \in buf}

\* The loop of Input up to the first PUSH: the window, una (parseUna), the acks
\* and a window probe.  The network may keep a copy of the datagram.
InputBegin(n, d) ==
  /\ ~inp[n].busy
  /\ d.to = n
  /\ net' \in {net, net \ {d}}
  /\ rmtWnd' = [rmtWnd EXCEPT ![n] = d.wnd]
  /\ LET kept == {s \in sndBuf[n] : s.sn >= d.una}
         una == FirstSn(kept, sndNxt[n])
     IN  /\ sndUna' = [sndUna EXCEPT ![n] = una]
         /\ sndBuf' = [sndBuf EXCEPT ![n] = ParseAcks(kept, d.acks, una, sndNxt[n])]
         /\ inp' = [inp EXCEPT ![n] =
              [busy |-> TRUE, push |-> d.push, slid |-> kept # sndBuf[n]]]
  /\ tell' = [tell EXCEPT ![n] = @ \/ d.ask]
  /\ UNCHANGED <<sndQueue, sndNxt, rcvVars, ackList, wndVars, probeWait, hist>>

\* Mutant of Place: every segment is appended.
PlaceLast(buf, sn, i) == i = Len(buf)

\* The search of parseData, from the end of rcvBuf: it stops behind segment i,
\* the first it meets that is not above sn.
Place(buf, sn, i) ==
  /\ i > 0 => buf[i].sn <= sn
  /\ \A j \in (i + 1)..Len(buf) : sn < buf[j].sn

\* Mutant of Insert: a repeated segment is stored again.
InsertAgain(buf, s, i) == SubSeq(buf, 1, i) \o <<s>> \o SubSeq(buf, i + 1, Len(buf))

\* parseData stores the segment behind segment i, unless that is the same one.
Insert(buf, s, i) ==
  IF i > 0 /\ buf[i].sn = s.sn THEN buf
  ELSE SubSeq(buf, 1, i) \o <<s>> \o SubSeq(buf, i + 1, Len(buf))

\* Mutant of InputPush: the ack is noted before the window is checked.
InputPushAckFirst(n) ==
  /\ inp[n].busy
  /\ \E s \in inp[n].push :
       /\ \A t \in inp[n].push : s.sn <= t.sn
       /\ inp' = [inp EXCEPT ![n].push = @ \ {s}]
       /\ ackList' = [ackList EXCEPT ![n] = @ \cup {s.sn}]
       /\ IF s.sn < rcvNxt[n] \/ s.sn >= rcvNxt[n] + rcvWnd[n]
            THEN UNCHANGED rcvVars
            ELSE \E i \in 0..Len(rcvBuf[n]) :
                   LET buf == Insert(rcvBuf[n], s, i)
                   IN  /\ Place(rcvBuf[n], s.sn, i)
                       /\ \E c \in 0..Len(buf) : MoveReady(n, rcvQueue[n], buf, c)
  /\ UNCHANGED <<sndVars, wndVars, rmtWnd, tell, probeWait, net, hist>>

\* The next PUSH of the datagram.  Beyond the window it is dropped; otherwise it
\* is acked, whether it is new or not, and parseData stores it when new.
InputPush(n) ==
  /\ inp[n].busy
  /\ \E s \in inp[n].push :
       /\ \A t \in inp[n].push : s.sn <= t.sn
       /\ inp' = [inp EXCEPT ![n].push = @ \ {s}]
       /\ \/ /\ s.sn >= rcvNxt[n] + rcvWnd[n]
             /\ UNCHANGED <<rcvVars, ackList>>
          \/ /\ s.sn < rcvNxt[n]
             /\ ackList' = [ackList EXCEPT ![n] = @ \cup {s.sn}]
             /\ UNCHANGED rcvVars
          \/ /\ rcvNxt[n] <= s.sn /\ s.sn < rcvNxt[n] + rcvWnd[n]
             /\ ackList' = [ackList EXCEPT ![n] = @ \cup {s.sn}]
             /\ \E i \in 0..Len(rcvBuf[n]) :
                  LET buf == Insert(rcvBuf[n], s, i)
                  IN  /\ Place(rcvBuf[n], s.sn, i)
                      /\ \E c \in 0..Len(buf) : MoveReady(n, rcvQueue[n], buf, c)
  /\ UNCHANGED <<sndVars, wndVars, rmtWnd, tell, probeWait, net, hist>>

\* The end of Input: a flush if una released something, else the acks alone if
\* ackNoDelay is on, which the application may switch at any time.
InputEnd(n) ==
  /\ inp[n].busy
  /\ inp[n].push = {}
  /\ inp' = [inp EXCEPT ![n] = Idle]
  /\ \/ inp[n].slid /\ Flush(n, sndQueue[n])
     \/ ~inp[n].slid /\ ackList[n] # {} /\ FlushAcks(n)
     \/ ~inp[n].slid /\ UNCHANGED <<sndVars, ackList, tell, probeWait, net>>
  /\ UNCHANGED <<rcvVars, wndVars, rmtWnd, hist>>

\* The network drops a datagram.
Lose(d) ==
  /\ net' = net \ {d}
  /\ UNCHANGED <<sndVars, rcvVars, ackList, wndVars, rmtWnd, tell, probeWait, inp, hist>>
-----------------------------------------------------------------------------
Next ==
  \/ \E n \in Node : Write(n) \/ Read(n) \/ Update(n) \/ WndSize(n)
                       \/ InputPush(n) \/ InputEnd(n)
  \/ \E n \in Node, d \in net : InputBegin(n, d)
  \/ \E d \in net : Lose(d)

Spec == Init /\ [][Next]_vars
-----------------------------------------------------------------------------
(* Properties                                                              *)

\* The receive windows an end can ever have, and a bound on them.
RcvSizes == {WndDefault} \cup UNION {RcvWnds[n] : n \in Node}
WndBound(w) == \A r \in RcvSizes : r <= w

\* The segments an end holds in rcvBuf.
Stored(n) == Range(rcvBuf[n])

\* In order and without repetition.
Sorted(buf) == \A i, j \in 1..Len(buf) : i < j => buf[i].sn < buf[j].sn

\* Payload k, written as segment k - 1, has reached the peer's receiver.
Received(p, sn) == sn < rcvNxt[p] \/ sn \in Sns(Stored(p))

\* The fields of the two control blocks, the datagrams and the histories keep
\* the types NewRudp gives them.
TypeOK ==
  /\ sndQueue \in [Node -> Seq(Nat)]
  /\ sndBuf \in [Node -> SUBSET SndSeg]
  /\ sndUna \in [Node -> Nat] /\ sndNxt \in [Node -> Nat]
  /\ rcvQueue \in [Node -> Seq(Nat)]
  /\ rcvBuf \in [Node -> Seq(Seg)]
  /\ rcvNxt \in [Node -> Nat]
  /\ ackList \in [Node -> SUBSET Nat]
  /\ sndWnd \in [Node -> Nat \ {0}] /\ rcvWnd \in [Node -> Nat \ {0}]
  /\ rmtWnd \in [Node -> Nat]
  /\ tell \in [Node -> BOOLEAN] /\ probeWait \in [Node -> BOOLEAN]
  /\ inp \in [Node -> [busy : BOOLEAN, push : SUBSET Seg, slid : BOOLEAN]]
  /\ net \in SUBSET Datagram
  /\ written \in [Node -> Nat]
  /\ read \in [Node -> Seq(Nat)]

\* What Read (through Receive) returned is the payloads written at the other
\* end, each once, in order and unchanged, however datagrams were lost,
\* duplicated or reordered on the way to Input.
InOrderDelivery ==
  \A n \in Node :
    /\ read[n] = [i \in 1..Len(read[n]) |-> i]
    /\ Len(read[n]) <= written[Peer(n)]

\* parseAck frees the data of a segment on the word of an ACK, and flush never
\* sends it again: the peer must really have it, in order or in its rcvBuf.
AckedIsReceived ==
  \A n \in Node : \A s \in sndBuf[n] : s.acked => Received(Peer(n), s.sn)

\* parseUna frees every segment below una: the peer has received them all in
\* order, so sndUna never runs ahead of the peer's rcvNxt.
ReleasedIsReceived == \A n \in Node : sndUna[n] <= rcvNxt[Peer(n)]

\* A payload accepted by Write is at every moment held by somebody who will
\* pass it on: unacked in the sender's queues, or at the receiver.
NoDataLost ==
  \A n \in Node : \A k \in 1..written[n] :
    \/ \E i \in 1..Len(sndQueue[n]) : sndQueue[n][i] = k
    \/ \E s \in sndBuf[n] : s.data = k /\ ~s.acked
    \/ \E s \in Stored(Peer(n)) : s.data = k
    \/ k <= Len(read[Peer(n)]) + Len(rcvQueue[Peer(n)])

\* Flow control: no PUSH in flight lies beyond the largest window of its
\* receiver, so unless the application shrinks the window Input drops none.
SentWithinWindow ==
  \A w \in RcvSizes :
    WndBound(w) => \A d \in net : \A s \in d.push : s.sn < rcvNxt[d.to] + w

\* The next segment in order never sits in rcvBuf behind an empty rcvQueue,
\* where neither peekSize nor Receive would ever find it.
NoHiddenSegment ==
  \A n \in Node : rcvNxt[n] \in Sns(Stored(n)) => rcvQueue[n] # <<>>

\* The memory of one end: rcvQueue never exceeds the largest receive window,
\* and rcvBuf, however often and in whatever order segments arrive, is in order,
\* without repetition, within one window above rcvNxt.
BoundedReceiver ==
  \A n \in Node :
    /\ Sorted(rcvBuf[n])
    /\ \A w \in RcvSizes :
         WndBound(w) => /\ Len(rcvQueue[n]) <= w
                        /\ Sns(Stored(n)) \subseteq rcvNxt[n]..(rcvNxt[n] + w - 1)

\* A stale una, carried by a delayed datagram, never moves an end backwards,
\* and sndUna never passes sndNxt.
Monotonic ==
  [][\A n \in Node : /\ sndUna[n] <= sndUna'[n] /\ sndNxt[n] <= sndNxt'[n]
                     /\ rcvNxt[n] <= rcvNxt'[n] /\ sndUna'[n] <= sndNxt'[n]]_vars

\* The conversation implements a pair of reliable streams: what was accepted are
\* the payloads 1..written, what was delivered is what Read returned.
Stream == INSTANCE ReliableStream
            WITH Batch <- WriteBatch, Payload <- UNION {1..MaxWrite[n] : n \in Node},
                 sent <- [n \in Node |-> [i \in 1..written[n] |-> i]],
                 got <- [n \in Node |-> read[Peer(n)]]
ImplementsStream == Stream!Spec
-----------------------------------------------------------------------------
(* The inductive invariant behind the safety properties                    *)

\* Segments that left end n carry the payload of their sequence number.
Carried(segs, n) == \A s \in segs : s.sn < sndNxt[n] /\ s.data = s.sn + 1

\* The sender half of n: sndBuf holds exactly [sndUna, sndNxt), sndQueue the rest.
SendSide(n) ==
  /\ sndUna[n] <= sndNxt[n]
  /\ Sns(sndBuf[n]) = sndUna[n]..(sndNxt[n] - 1)
  /\ \A s \in sndBuf[n] : IF s.acked THEN Received(Peer(n), s.sn) ELSE s.data = s.sn + 1
  /\ written[n] = sndNxt[n] + Len(sndQueue[n])
  /\ \A i \in 1..Len(sndQueue[n]) : sndQueue[n][i] = sndNxt[n] + i

\* The receiver half of n: read, then rcvQueue, are payloads 1..rcvNxt; rcvBuf
\* and the datagram being read lie above; ackList names what was received.
ReceiveSide(n) ==
  /\ sndUna[Peer(n)] <= rcvNxt[n] /\ rcvNxt[n] <= sndNxt[Peer(n)]
  /\ rcvNxt[n] = Len(read[n]) + Len(rcvQueue[n])
  /\ \A i \in 1..Len(read[n]) : read[n][i] = i
  /\ \A i \in 1..Len(rcvQueue[n]) : rcvQueue[n][i] = Len(read[n]) + i
  /\ Carried(Stored(n), Peer(n)) /\ Carried(inp[n].push, Peer(n))
  /\ Sorted(rcvBuf[n]) /\ \A s \in Stored(n) : rcvNxt[n] <= s.sn
  /\ \A x \in ackList[n] : Received(n, x)

\* What datagrams say of the end that sent them stays true while they travel.
Transit ==
  \A d \in net :
    /\ d.una <= rcvNxt[Peer(d.to)]
    /\ \A x \in d.acks : Received(Peer(d.to), x)
    /\ Carried(d.push, Peer(d.to))

\* No end sends beyond the largest window its peer can have advertised.
Windows ==
  \A w \in RcvSizes : WndBound(w) =>
    /\ \A n \in Node : rcvWnd[n] <= w /\ rmtWnd[n] <= w /\ sndNxt[n] <= rcvNxt[Peer(n)] + w
    /\ \A d \in net : d.wnd <= w

IInv ==
  /\ TypeOK
  /\ \A n \in Node : SendSide(n) /\ ReceiveSide(n)
  /\ Transit
  /\ Windows
=============================================================================
