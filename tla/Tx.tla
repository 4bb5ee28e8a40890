--------------------------------- MODULE Tx ---------------------------------
(***************************************************************************)
(* How a session sends: output queues datagrams in txqueue, uncork hands   *)
(* the queue to tx and empties it.  On Linux tx uses WriteBatch, which may *)
(* take a part of what it is given, and falls back for good to one WriteTo *)
(* per datagram (defaultTx) on an error of sendmmsg.                       *)
(*                                                                         *)
(* All of it runs under s.mu; a step is one system call.  A datagram is    *)
(* its number; numbers give lengths, so that packets and bytes differ.     *)
(***************************************************************************)
EXTENDS Integers, Sequences, SequencesExt

CONSTANTS
  BatchErrors, \* errors WriteBatch may return: "sendmmsg", "other"
  MaxQueue,    \* bound: datagrams of one flush
  MaxOut       \* bound: datagrams of a run

ASSUME ErrorAssumption == BatchErrors \subseteq {"sendmmsg", "other"}
ASSUME BoundAssumption == MaxQueue \in Nat /\ MaxOut \in Nat

VARIABLES
  xconn,           \* s.xconn # nil: the platform has WriteBatch
  pc,              \* where the holder of s.mu is
  txqueue,         \* s.txqueue
  rest,            \* tx's argument, from which sent datagrams are cut off
  i,               \* index of the loop of defaultTx
  npkts, nbytes,   \* local counts
  xconnWriteError, \* an error of sendmmsg was seen
  writeError,      \* chSocketWriteError is closed
  outPkts, outBytes,   \* DefaultSnmp
  out,             \* history: datagrams queued so far
  wire,            \* history: datagrams this call of tx sent
  roundError,      \* history: this call met an error
  pkts, bytes      \* history: datagrams and bytes really sent

countVars == <<npkts, nbytes>>
snmpVars  == <<outPkts, outBytes>>
errVars   == <<xconnWriteError, writeError, roundError>>
sentVars  == <<wire, pkts, bytes>>
vars == <<xconn, pc, txqueue, rest, i, countVars, errVars, snmpVars, out, sentVars>>

Length(d) == 10 + d
Bytes(ds) ==
  LET sum[n \in 0..Len(ds)] == IF n = 0 THEN 0 ELSE sum[n - 1] + Length(ds[n])
  IN  sum[Len(ds)]

Init ==
  /\ xconn \in BOOLEAN
  /\ pc = "flush"
  /\ txqueue = <<>> /\ rest = <<>> /\ i = 0
  /\ npkts = 0 /\ nbytes = 0
  /\ xconnWriteError = FALSE /\ writeError = FALSE /\ roundError = FALSE
  /\ outPkts = 0 /\ outBytes = 0
  /\ out = 0 /\ wire = <<>> /\ pkts = 0 /\ bytes = 0

\* The datagrams leave this machine.
Send(ds) ==
  /\ wire' = wire \o ds
  /\ pkts' = pkts + Len(ds)
  /\ bytes' = bytes + Bytes(ds)

NotifyWriteError == writeError' = TRUE /\ roundError' = TRUE

\* output: a copy of the datagram is queued.
Output ==
  /\ pc = "flush" /\ Len(txqueue) < MaxQueue /\ out < MaxOut
  /\ txqueue' = Append(txqueue, out + 1)
  /\ out' = out + 1
  /\ UNCHANGED <<xconn, pc, rest, i, countVars, errVars, snmpVars, sentVars>>

\* uncork calls tx.
Uncork ==
  /\ pc = "flush" /\ txqueue # <<>>
  /\ rest' = txqueue /\ i' = 1
  /\ npkts' = 0 /\ nbytes' = 0
  /\ pc' = IF xconn /\ ~xconnWriteError THEN "batch" ELSE "default"
  /\ wire' = <<>> /\ roundError' = FALSE
  /\ UNCHANGED <<xconn, txqueue, xconnWriteError, writeError, snmpVars, out, pkts, bytes>>
-----------------------------------------------------------------------------
\* Mutants of BatchSend: the cut is off by one; what a partial call leaves is
\* forgotten.
BatchSendOverlap ==
  /\ pc = "batch" /\ rest # <<>>
  /\ \E n \in 1..Len(rest) :
       /\ Send(SubSeq(rest, 1, n))
       /\ npkts' = npkts + n
       /\ nbytes' = nbytes + Bytes(SubSeq(rest, 1, n))
       /\ rest' = IF n = Len(rest) THEN <<>> ELSE SubSeq(rest, n, Len(rest))
  /\ UNCHANGED <<xconn, pc, txqueue, i, errVars, snmpVars, out>>
BatchSendOnce ==
  /\ pc = "batch" /\ rest # <<>>
  /\ \E n \in 1..Len(rest) :
       /\ Send(SubSeq(rest, 1, n))
       /\ npkts' = npkts + n
       /\ nbytes' = nbytes + Bytes(SubSeq(rest, 1, n))
  /\ rest' = <<>>
  /\ UNCHANGED <<xconn, pc, txqueue, i, errVars, snmpVars, out>>

\* WriteBatch takes the first n datagrams.
BatchSend ==
  /\ pc = "batch" /\ rest # <<>>
  /\ \E n \in 1..Len(rest) :
       /\ Send(SubSeq(rest, 1, n))
       /\ npkts' = npkts + n
       /\ nbytes' = nbytes + Bytes(SubSeq(rest, 1, n))
       /\ rest' = SubSeq(rest, n + 1, Len(rest))
  /\ UNCHANGED <<xconn, pc, txqueue, i, errVars, snmpVars, out>>

\* It fails in sendmmsg: defaultTx takes what is left, and every later call.
BatchFallback ==
  /\ pc = "batch" /\ rest # <<>> /\ "sendmmsg" \in BatchErrors
  /\ xconnWriteError' = TRUE
  /\ npkts' = 0 /\ nbytes' = 0   \* the locals of defaultTx
  /\ pc' = "default"
  /\ UNCHANGED <<xconn, txqueue, rest, i, writeError, roundError, snmpVars, out, sentVars>>

\* It fails otherwise: the write error is notified and the rest given up.
BatchFail ==
  /\ pc = "batch" /\ rest # <<>> /\ "other" \in BatchErrors
  /\ NotifyWriteError
  /\ rest' = <<>>
  /\ UNCHANGED <<xconn, pc, txqueue, i, countVars, xconnWriteError, snmpVars, out, sentVars>>

BatchCount ==
  /\ pc = "batch" /\ rest = <<>>
  /\ outPkts' = outPkts + npkts
  /\ outBytes' = outBytes + nbytes
  /\ pc' = "recycle"
  /\ UNCHANGED <<xconn, txqueue, rest, i, countVars, errVars, out, sentVars>>

\* defaultTx ranges over its argument, and sends s.txqueue[i].
DefaultSend ==
  /\ pc = "default" /\ i <= Len(rest)
  /\ Send(<<txqueue[i]>>)
  /\ npkts' = npkts + 1
  /\ nbytes' = nbytes + Length(txqueue[i])
  /\ i' = i + 1
  /\ UNCHANGED <<xconn, pc, txqueue, rest, errVars, snmpVars, out>>

DefaultFail ==
  /\ pc = "default" /\ i <= Len(rest)
  /\ NotifyWriteError
  /\ i' = Len(rest) + 1
  /\ UNCHANGED <<xconn, pc, txqueue, rest, countVars, xconnWriteError, snmpVars, out, sentVars>>

\* Its byteCount goes to OutPkts, its pkgCount to OutBytes.
DefaultCount ==
  /\ pc = "default" /\ i > Len(rest)
  /\ outPkts' = outPkts + nbytes
  /\ outBytes' = outBytes + npkts
  /\ pc' = "recycle"
  /\ UNCHANGED <<xconn, txqueue, rest, i, countVars, errVars, out, sentVars>>

\* uncork gives the buffers back and empties the queue.
Recycle ==
  /\ pc = "recycle"
  /\ txqueue' = <<>>
  /\ pc' = "flush"
  /\ UNCHANGED <<xconn, rest, i, countVars, errVars, snmpVars, out, sentVars>>
-----------------------------------------------------------------------------
Next ==
  \/ Output \/ Uncork \/ Recycle
  \/ BatchSend \/ BatchFallback \/ BatchFail \/ BatchCount
  \/ DefaultSend \/ DefaultFail \/ DefaultCount

Spec == Init /\ [][Next]_vars
-----------------------------------------------------------------------------
(* Properties                                                              *)

\* "Sends if txqueue has data": a call of tx that meets no error has sent every
\* datagram of the queue once, in order; one that does, a beginning of it.
RoundSent ==
  pc = "recycle" => /\ IsPrefix(wire, txqueue)
                    /\ ~roundError => wire = txqueue

\* The same as long as WriteBatch has not failed in sendmmsg, whatever parts of
\* the queue it takes, and on a platform without it; and what WriteBatch took is
\* what OutPkts, the "outgoing packets count", and OutBytes, the "UDP bytes sent",
\* gain.
RoundSentBeforeFallback ==
  ~xconnWriteError =>
    /\ RoundSent
    /\ pc = "flush" /\ xconn => outPkts = pkts /\ outBytes = bytes

\* Whichever way the datagrams go, a call of tx that notifies no error sends as
\* many as the queue holds, and none is sent after an error.
AsManySent ==
  pc = "recycle" => /\ Len(wire) <= Len(txqueue)
                    /\ ~roundError <=> Len(wire) = Len(txqueue)
=============================================================================
