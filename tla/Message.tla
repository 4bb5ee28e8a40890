------------------------------ MODULE Message ------------------------------
(***************************************************************************)
(* Messages of one conversation in rudp.go: Send cuts them into fragments, *)
(* or fills the last segment in stream mode, flush packs segments into     *)
(* datagrams of at most mtu bytes, and Receive puts a message together     *)
(* again at the other end.                                                 *)
(*                                                                         *)
(* Between the ends the segments keep their order and none is lost, which  *)
(* is proved of module RUDP: here a segment stays in sndBuf, from which it *)
(* may be sent again, until its arrival is acked.  A segment holds the     *)
(* bytes from .. to - 1 of all that was given to Send.                     *)
(***************************************************************************)
EXTENDS Integers, Sequences, SequencesExt

CONSTANTS
  Overhead,       \* IRUDP_OVERHEAD
  MtuDef,         \* IRUDP_MTU_DEF
  MtuMin,         \* the least SetMtu accepts
  Mtus,           \* arguments of SetMtu
  Reserve,        \* headerSize, the argument of ReserveBytes
  MaxFrg,         \* fragments Send accepts, 255
  SndWnd, RcvWnd,
  Sizes,          \* lengths of the buffers given to Send; it refuses an empty one
  MaxCtl,         \* bound: acks and probes in front of the data of a flush
  MaxBytes        \* bound: bytes given to Send

ASSUME MtuAssumption ==
  /\ Overhead \in Nat /\ Reserve \in Nat /\ Mtus \subseteq Nat
  /\ MtuMin \in Nat /\ MtuMin > Overhead + Reserve
  /\ MtuDef \in Nat /\ MtuDef >= MtuMin
ASSUME WindowAssumption ==
  MaxFrg \in Nat \ {0} /\ SndWnd \in Nat \ {0} /\ RcvWnd \in Nat \ {0}
ASSUME BoundAssumption ==
  Sizes \subseteq Nat \ {0} /\ MaxCtl \in Nat /\ MaxBytes \in Nat

VARIABLES
  mtu, mss, stream,
  sndQueue, sndBuf,
  got,            \* how many segments of sndBuf the other end has
  rcvQueue,       \* at the other end
  written, read,  \* bytes Send has queued, and Receive returned
  ends,           \* history: where the results of Receive ended
  messages,       \* history: <<from, to>> of what Send took out of stream mode
  lowered,        \* history: SetMtu left too little room for a waiting segment
  crashed         \* encoding ran out of the buffer: the program panics

sndVars == <<mtu, mss, stream, sndQueue, sndBuf, messages, written, lowered>>
rcvVars == <<rcvQueue, read, ends>>
vars == <<sndVars, got, rcvVars, crashed>>

Length(s) == s.to - s.from
Least(a, b) == IF a <= b THEN a ELSE b

Init ==
  /\ mtu = MtuDef /\ mss = MtuDef - Overhead - Reserve
  /\ stream \in BOOLEAN
  /\ sndQueue = <<>> /\ sndBuf = <<>> /\ got = 0 /\ rcvQueue = <<>>
  /\ written = 0 /\ read = 0 /\ ends = {0} /\ messages = {}
  /\ lowered = FALSE /\ crashed = FALSE
-----------------------------------------------------------------------------
(* Send                                                                    *)

\* Mutant of Fill: the capacity left does not limit what is appended.
FillAll(n) ==
  IF stream /\ sndQueue # <<>> /\ Length(Last(sndQueue)) < mss THEN n ELSE 0

\* In stream mode, the bytes of the buffer that go into the last segment.
Fill(n) ==
  IF stream /\ sndQueue # <<>> /\ Length(Last(sndQueue)) < mss
  THEN Least(n, mss - Length(Last(sndQueue))) ELSE 0

\* Mutant of Filled: a copy of the last segment is filled, not the one in the queue.
FilledCopy(k) == sndQueue

Filled(k) ==
  IF k = 0 THEN sndQueue
  ELSE [sndQueue EXCEPT ![Len(sndQueue)].to = @ + k]

Count(n) == (n + mss - 1) \div mss

\* Mutant of Fragments: numbered from the first.
FragmentsUp(from, n) ==
  [i \in 1..Count(n) |->
     [from |-> from + (i - 1) * mss, to |-> from + Least(i * mss, n),
      frg |-> IF stream THEN 0 ELSE i - 1]]

\* frg counts down to 0 in the last fragment of a message.
Fragments(from, n) ==
  [i \in 1..Count(n) |->
     [from |-> from + (i - 1) * mss, to |-> from + Least(i * mss, n),
      frg |-> IF stream THEN 0 ELSE Count(n) - i]]

\* With too many fragments Send fails, but has filled the last segment by then.
Send(n) ==
  LET fill == Fill(n)
      fits == Count(n - fill) <= MaxFrg
  IN  /\ written + n <= MaxBytes
      /\ sndQueue' = Filled(fill) \o
           IF fits THEN Fragments(written + fill, n - fill) ELSE <<>>
      /\ written' = written + IF fits THEN n ELSE fill
      /\ messages' = IF fits /\ ~stream THEN messages \cup {<<written, written + n>>}
                     ELSE messages
      /\ UNCHANGED <<mtu, mss, stream, sndBuf, lowered, got, rcvVars, crashed>>

SetStreamMode ==
  /\ stream' = ~stream
  /\ UNCHANGED <<mtu, mss, sndQueue, sndBuf, messages, written, lowered, got, rcvVars, crashed>>

\* SetMtu replaces the buffer as well, whatever waits to be encoded into it.
SetMtu(m) ==
  /\ m >= MtuMin /\ Reserve < mtu - Overhead
  /\ mtu' = m /\ mss' = m - Overhead - Reserve
  /\ lowered' = (lowered \/ \E s \in ToSet(sndBuf \o sndQueue) : Length(s) > mss')
  /\ UNCHANGED <<stream, sndQueue, sndBuf, messages, written, got, rcvVars, crashed>>
-----------------------------------------------------------------------------
(* flush                                                                   *)

\* makeSpace(n), which ends the datagram when n more bytes do not fit, then the
\* encoding of n bytes from position buf.at of the buffer.
Encode(buf, n) ==
  LET at == IF buf.at + n >= mtu THEN Reserve ELSE buf.at
  IN  [at |-> at + n, over |-> buf.over \/ at + n > mtu]

\* The buffer after ctl headers and then the segments of segs that are due.
Packed(ctl, segs, due) ==
  LET buf[n \in 0..(ctl + Len(segs))] ==
        IF n = 0 THEN [at |-> Reserve, over |-> FALSE]
        ELSE IF n <= ctl THEN Encode(buf[n - 1], Overhead)
        ELSE IF n - ctl \in due THEN Encode(buf[n - 1], Overhead + Length(segs[n - ctl]))
        ELSE buf[n - 1]
  IN  buf[ctl + Len(segs)]

\* flush: ctl acks and probes, the segments of sndBuf that are due (again), and k
\* new ones; the windows may be smaller than SndWnd.
Flush(ctl, k, again) ==
  LET segs == sndBuf \o SubSeq(sndQueue, 1, k)
  IN  /\ k <= Len(sndQueue) /\ Len(sndBuf) + k <= SndWnd
      /\ sndBuf' = segs
      /\ sndQueue' = SubSeq(sndQueue, k + 1, Len(sndQueue))
      /\ crashed' = Packed(ctl, segs, again \cup (Len(sndBuf) + 1)..Len(segs)).over
      /\ UNCHANGED <<mtu, mss, stream, messages, written, lowered, got, rcvVars>>
-----------------------------------------------------------------------------
(* The network and the receiving end                                       *)

\* The next segment reaches rcvQueue, which holds RcvWnd segments at most,
Arrive ==
  /\ got < Len(sndBuf) /\ Len(rcvQueue) < RcvWnd
  /\ rcvQueue' = Append(rcvQueue, sndBuf[got + 1])
  /\ got' = got + 1
  /\ UNCHANGED <<sndVars, read, ends, crashed>>

\* and una releases what arrived.
Acked ==
  /\ got > 0
  /\ sndBuf' = Tail(sndBuf) /\ got' = got - 1
  /\ UNCHANGED <<mtu, mss, stream, sndQueue, messages, written, lowered, rcvVars, crashed>>

\* Mutant of Complete: it wants one segment more.
CompleteMore ==
  rcvQueue # <<>> /\ (Head(rcvQueue).frg = 0 \/ Len(rcvQueue) > Head(rcvQueue).frg + 1)

\* peekSize counts the fragments of the first message, and returns -1 without all.
Complete == rcvQueue # <<>> /\ Len(rcvQueue) >= Head(rcvQueue).frg + 1

\* The segments up to frg 0, or all there are.
FirstMessage ==
  LET i == SelectInSeq(rcvQueue, LAMBDA s : s.frg = 0)
  IN  IF i = 0 THEN rcvQueue ELSE SubSeq(rcvQueue, 1, i)

PeekSize ==
  LET sum[n \in 0..Len(FirstMessage)] ==
        IF n = 0 THEN 0 ELSE sum[n - 1] + Length(FirstMessage[n])
  IN  sum[Len(FirstMessage)]

\* Receive into a buffer of b bytes; it leaves a message that does not fit.
Receive(b) ==
  /\ Complete /\ PeekSize <= b
  /\ read' = read + PeekSize
  /\ ends' = ends \cup {read'}
  /\ rcvQueue' = SubSeq(rcvQueue, Len(FirstMessage) + 1, Len(rcvQueue))
  /\ UNCHANGED <<sndVars, got, crashed>>
-----------------------------------------------------------------------------
Next ==
  /\ ~crashed
  /\ \/ \E n \in Sizes : Send(n)
     \/ SetStreamMode
     \/ \E m \in Mtus : SetMtu(m)
     \/ \E ctl \in 0..MaxCtl, k \in 0..SndWnd, again \in SUBSET (DOMAIN sndBuf) :
          Flush(ctl, k, again)
     \/ Arrive \/ Acked
     \/ \E b \in 1..MaxBytes : Receive(b)

Spec == Init /\ [][Next]_vars

\* update flushes for ever and moves what the windows allow, which open in the end;
\* what is sent arrives and is acked in the end (properties of RUDPLive); and the
\* application reads with a buffer that is large enough, as UDPSession.Read does.
Fairness ==
  /\ WF_vars(~crashed /\ \E k \in 1..SndWnd : Flush(0, k, {}))
  /\ WF_vars(~crashed /\ Arrive) /\ WF_vars(~crashed /\ Acked)
  /\ WF_vars(~crashed /\ Receive(MaxBytes))

FairSpec == Spec /\ Fairness
-----------------------------------------------------------------------------
(* Properties                                                              *)

\* All segments on their way to the reader, the first one first.
OnTheWay == rcvQueue \o SubSeq(sndBuf, got + 1, Len(sndBuf)) \o sndQueue

\* Neither filling, cutting nor merging loses, repeats or reorders a byte, however
\* the mode and the mtu change in between.
BytesInOrder ==
  LET w == OnTheWay
  IN  /\ \A i \in 1..Len(w) :
           /\ w[i].from = IF i = 1 THEN read ELSE w[i - 1].to
           /\ w[i].from < w[i].to
      /\ written = IF w = <<>> THEN read ELSE Last(w).to

\* A message sent out of stream mode begins a result of Receive and is never cut,
\* although stream mode may append to it and to the message before.
WholeMessages ==
  \A m \in messages :
    /\ read >= m[1] => m[1] \in ends
    /\ \A e \in ends : ~(m[1] < e /\ e < m[2])

\* No segment runs out of the buffer, unless SetMtu made it too small for a segment
\* that already waited; then the next flush panics.
SegmentsFit == crashed => lowered

\* As long as no message has more fragments than the receiver's window, which Send
\* does not check, everything written is read.
AllRead ==
  [](~crashed /\ \A s \in ToSet(OnTheWay) : s.frg < RcvWnd) => <>[](read = written)
=============================================================================
