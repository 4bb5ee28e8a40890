--------------------------- MODULE SessionProofs ---------------------------
(***************************************************************************)
(* Read of sess.go never sleeps over data, for every length of messages    *)
(* and buffers, every deadline and every interleaving with Write, Close    *)
(* and the timer.  One goroutine reads, as with any net.Conn.              *)
(***************************************************************************)
EXTENDS Session, TLAPS

\* The state is typed, and a Read that waits while there is data has a token.
Tokened ==
  /\ TypeOK /\ msgs <= arrived
  /\ \A g \in Reader : HasData /\ reader[g] = "wait" => readEvent

-----------------------------------------------------------------------------
\* The two goroutine tables after a step of one of them.
LEMMA ReaderTyped ==
  ASSUME TypeOK, NEW g \in Reader, NEW pc \in {"idle", "lock", "wait"},
         reader' = [reader EXCEPT ![g] = pc]
  PROVE  /\ reader' \in [Reader -> {"idle", "lock", "wait"}]
         /\ reader'[g] = pc /\ \A h \in Reader : h # g => reader'[h] = reader[h]
BY DEF TypeOK

\* The same for a writer.
LEMMA WriterTyped ==
  ASSUME TypeOK, NEW g \in Writer, NEW pc \in {"idle", "check", "lock", "wait"},
         writer' = [writer EXCEPT ![g] = pc]
  PROVE  writer' \in [Writer -> {"idle", "check", "lock", "wait"}]
BY DEF TypeOK

\* A deadline is one of the times a timer may be set to.
LEMMA TimerTyped ==
  ASSUME TypeOK, NEW g \in Reader \cup Writer, NEW d \in Times,
         timer' = [timer EXCEPT ![g] = d]
  PROVE  timer' \in [Reader \cup Writer -> Times]
BY DEF TypeOK

\* A new session.
LEMMA SInit == Init => Tokened
<1> SUFFICES ASSUME Init PROVE Tokened
  OBVIOUS
<1>1. Never \in Times /\ 0 \in 0..Horizon /\ 0 \in 0..MaxMsgs /\ 0 \in 0..(MsgLen - 1)
  BY LengthAssumption, BoundAssumption DEF Times, Never
<1>2. readEvent = FALSE /\ ~HasData /\ msgs <= arrived
  BY DEF Init, HasData
<1>3. TypeOK
  BY <1>1 DEF Init, TypeOK
<1>4. QED
  BY <1>2, <1>3 DEF Tokened

\* The steps that touch neither the data, nor a reader, nor the token.
LEMMA OtherStep ==
  ASSUME Tokened, TypeOK', UNCHANGED <<msgs, arrived, bufPtr, reader>>, readEvent => readEvent'
  PROVE  Tokened'
BY DEF Tokened, HasData

\* Read.
LEMMA ReadStep ==
  ASSUME Tokened, NEW g \in Reader, Reader = {g}, Read(g)
  PROVE  Tokened'
<1>1. TypeOK /\ reader[g] \in {"idle", "lock", "wait"} /\ msgs <= arrived
  BY DEF Tokened, TypeOK
<1>2. CASE ReadCall(g)
  <2>1. /\ reader' = [reader EXCEPT ![g] = "lock"]
        /\ UNCHANGED <<clock, msgs, arrived, bufPtr, waitSnd, wnd, readEvent, writeEvent,
                       readDdl, writeDdl, writer, timer, readError, writeError, die, closing,
                       update>>
    BY <1>2 DEF ReadCall, recvVars, sendVars, ddlVars, endVars
  <2>2. reader' \in [Reader -> {"idle", "lock", "wait"}] /\ reader'[g] = "lock"
    BY <1>1, <2>1, ReaderTyped
  <2>3. TypeOK'
    BY <1>1, <2>1, <2>2 DEF TypeOK
  <2>4. QED
    BY <1>1, <2>1, <2>2, <2>3 DEF Tokened
<1>3. CASE ReadFail(g)
  <2>1. /\ reader' = [reader EXCEPT ![g] = "idle"]
        /\ UNCHANGED <<clock, msgs, arrived, bufPtr, waitSnd, wnd, readEvent, writeEvent,
                       readDdl, writeDdl, writer, timer, readError, writeError, die, closing,
                       update>>
    BY <1>3 DEF ReadFail, recvVars, sendVars, ddlVars, endVars
  <2>2. reader' \in [Reader -> {"idle", "lock", "wait"}] /\ reader'[g] = "idle"
    BY <1>1, <2>1, ReaderTyped
  <2>3. TypeOK'
    BY <1>1, <2>1, <2>2 DEF TypeOK
  <2>4. QED
    BY <1>1, <2>1, <2>2, <2>3 DEF Tokened
<1>4. CASE ReadWake(g)
  <2>1. /\ reader' = [reader EXCEPT ![g] = "lock"] /\ readEvent' = FALSE
        /\ UNCHANGED <<clock, msgs, arrived, bufPtr, waitSnd, wnd, writeEvent,
                       readDdl, writeDdl, writer, timer, readError, writeError, die, closing,
                       update>>
    BY <1>4 DEF ReadWake, recvVars, sendVars, ddlVars, endVars
  <2>2. reader' \in [Reader -> {"idle", "lock", "wait"}] /\ reader'[g] = "lock"
    BY <1>1, <2>1, ReaderTyped
  <2>3. TypeOK'
    BY <1>1, <2>1, <2>2 DEF TypeOK
  <2>4. QED
    BY <1>1, <2>1, <2>2, <2>3 DEF Tokened
<1>5. CASE ReadLock(g)
  <2>1. UNCHANGED <<clock, arrived, waitSnd, wnd, readEvent, writeEvent, readDdl, writeDdl,
                    writer, readError, writeError, die, closing, update>>
    BY <1>5 DEF ReadLock, sendVars, ddlVars, endVars
  <2>2. /\ bufPtr \in 0..(MsgLen - 1) /\ msgs \in 0..MaxMsgs /\ MsgLen \in Nat \ {0}
        /\ BufLen \subseteq Nat \ {0} /\ MaxMsgs \in Nat
        /\ timer \in [Reader \cup Writer -> Times] /\ readDdl \in Times
    BY <1>1, LengthAssumption, BoundAssumption DEF TypeOK
  <2>3. CASE /\ \/ \E b \in BufLen : bufPtr' = bufPtr - Lesser(b, bufPtr) /\ msgs' = msgs
                \/ /\ msgs > 0 /\ msgs' = msgs - 1
                   /\ \E b \in BufLen : bufPtr' = MsgLen - Lesser(b, MsgLen)
             /\ reader' = [reader EXCEPT ![g] = "idle"] /\ timer' = timer
    <3>1. reader' \in [Reader -> {"idle", "lock", "wait"}] /\ reader'[g] = "idle"
      BY <1>1, <2>3, ReaderTyped
    <3>2. bufPtr' \in 0..(MsgLen - 1) /\ msgs' \in 0..MaxMsgs
      BY <2>2, <2>3 DEF Lesser
    <3>3. TypeOK'
      BY <1>1, <2>1, <2>3, <3>1, <3>2 DEF TypeOK
    <3>4. msgs' <= arrived'
      BY <1>1, <2>1, <2>2, <2>3 DEF TypeOK
    <3>5. QED
      BY <3>1, <3>3, <3>4 DEF Tokened
  <2>4. CASE /\ ~HasData /\ msgs' = msgs /\ bufPtr' = bufPtr
             /\ reader' = [reader EXCEPT ![g] = IF clock > readDdl THEN "idle" ELSE "wait"]
             /\ timer' = [timer EXCEPT ![g] = readDdl]
    <3>1. reader' \in [Reader -> {"idle", "lock", "wait"}]
      BY <1>1, <2>4, ReaderTyped
    <3>2. timer' \in [Reader \cup Writer -> Times]
      BY <1>1, <2>2, <2>4, TimerTyped
    <3>3. TypeOK'
      BY <1>1, <2>1, <2>4, <3>1, <3>2 DEF TypeOK
    <3>4. ~HasData'
      BY <2>4 DEF HasData
    <3>5. QED
      BY <1>1, <2>1, <2>4, <3>3, <3>4 DEF Tokened
  <2>5. QED
    BY <1>5, <2>3, <2>4 DEF ReadLock
<1>6. QED
  BY <1>2, <1>3, <1>4, <1>5 DEF Read

\* Write.
LEMMA WriteStep ==
  ASSUME Tokened, NEW g \in Writer, Write(g)
  PROVE  Tokened'
<1>1. TypeOK /\ writeError \in BOOLEAN
  BY DEF Tokened, TypeOK
<1>2. UNCHANGED <<clock, msgs, arrived, bufPtr, wnd, readEvent, readDdl, writeDdl, reader,
                  readError, die, closing, update>>
  BY DEF Write, WriteCall, WriteCheck, WriteLock, WriteWake, WriteFail, recvVars, sendVars,
         ddlVars, endVars
<1>3. PICK pc \in {"idle", "check", "lock", "wait"} : writer' = [writer EXCEPT ![g] = pc]
  BY DEF Write, WriteCall, WriteCheck, WriteLock, WriteWake, WriteFail
<1>4. writer' \in [Writer -> {"idle", "check", "lock", "wait"}]
  BY <1>1, <1>3, WriterTyped
<1>5. writeEvent' \in BOOLEAN /\ writeError' \in BOOLEAN
  <2>1. writeEvent \in BOOLEAN
    BY <1>1 DEF TypeOK
  <2>2. QED
    BY <1>1, <2>1 DEF Write, WriteCall, WriteCheck, WriteLock, WriteWake, WriteFail, TxMayFail
<1>6. waitSnd' \in Nat
  <2>1. waitSnd \in Nat /\ Batch \in Nat
    BY <1>1, BoundAssumption DEF TypeOK
  <2>2. QED
    BY <2>1 DEF Write, WriteCall, WriteCheck, WriteLock, WriteWake, WriteFail, sendVars
<1>7. timer' \in [Reader \cup Writer -> Times]
  <2>1. timer' = timer \/ timer' = [timer EXCEPT ![g] = writeDdl]
    BY DEF Write, WriteCall, WriteCheck, WriteLock, WriteWake, WriteFail
  <2>2. timer \in [Reader \cup Writer -> Times] /\ writeDdl \in Times
    BY <1>1 DEF TypeOK
  <2>3. QED
    BY <2>1, <2>2
<1>8. TypeOK'
  BY <1>1, <1>2, <1>4, <1>5, <1>6, <1>7 DEF TypeOK
<1>9. QED
  BY <1>2, <1>8, OtherStep

\* The read loop gives Input a datagram: new data brings a token.
LEMMA RudpInputStep ==
  ASSUME Tokened, RudpInput
  PROVE  Tokened'
<1>1. /\ TypeOK /\ msgs \in 0..MaxMsgs /\ arrived \in 0..MaxMsgs /\ msgs <= arrived
      /\ bufPtr \in 0..(MsgLen - 1) /\ waitSnd \in Nat /\ MaxMsgs \in Nat /\ Batch \in Nat
      /\ Wnds \subseteq Nat /\ MsgLen \in Nat
  BY BoundAssumption, LengthAssumption DEF Tokened, TypeOK
<1>2. PICK k \in 0..Batch, acked \in 0..waitSnd, w \in Wnds :
        /\ arrived + k <= MaxMsgs
        /\ arrived' = arrived + k /\ msgs' = msgs + k
        /\ waitSnd' = waitSnd - acked /\ wnd' = w
        /\ readEvent' = (readEvent \/ msgs' > 0)
        /\ writeEvent' = (writeEvent \/ waitSnd' < w)
  BY DEF RudpInput
<1>3. UNCHANGED <<clock, bufPtr, readDdl, writeDdl, reader, writer, timer, readError, die,
                  closing, update>>
  BY DEF RudpInput, ddlVars, endVars
<1>4. /\ arrived' \in 0..MaxMsgs /\ msgs' \in 0..MaxMsgs /\ msgs' <= arrived' /\ msgs <= msgs'
      /\ waitSnd' \in Nat /\ wnd' \in Wnds
  BY <1>1, <1>2
<1>5. readEvent' \in BOOLEAN /\ writeEvent' \in BOOLEAN /\ writeError' \in BOOLEAN
  <2>1. readEvent' \in BOOLEAN /\ writeEvent' \in BOOLEAN
    BY <1>2, Zenon
  <2>2. writeError \in BOOLEAN
    BY <1>1 DEF TypeOK
  <2>3. QED
    BY <2>1, <2>2 DEF RudpInput, TxMayFail
<1>6. TypeOK'
  BY <1>1, <1>3, <1>4, <1>5 DEF TypeOK
<1>7. ASSUME NEW g \in Reader, HasData', reader'[g] = "wait" PROVE readEvent'
  <2>1. CASE msgs' > 0
    BY <1>2, <2>1
  <2>2. CASE ~(msgs' > 0)
    <3>1. bufPtr > 0 /\ reader[g] = "wait"
      BY <1>3, <1>7, <2>2 DEF HasData
    <3>2. readEvent
      BY <3>1 DEF Tokened, HasData
    <3>3. QED
      BY <1>2, <3>2
  <2>3. QED
    BY <2>1, <2>2
<1>8. QED
  BY <1>4, <1>6, <1>7 DEF Tokened

\* The rest: errors, the timer, the settings and Close leave the data alone.
LEMMA QuietStep ==
  ASSUME Tokened, \/ NotifyReadError \/ Update \/ Tick \/ Settings
                  \/ CloseDie \/ CloseFlush \/ CloseConn \/ UNCHANGED vars
  PROVE  Tokened'
<1>1. /\ TypeOK /\ readEvent \in BOOLEAN /\ writeEvent \in BOOLEAN /\ readError \in BOOLEAN
      /\ writeError \in BOOLEAN /\ die \in BOOLEAN /\ closing \in {"no", "flush", "conn", "closed"}
      /\ update \in {"scheduled", "lock", "stopped"} /\ readDdl \in Times /\ writeDdl \in Times
      /\ clock \in 0..Horizon /\ waitSnd \in Nat /\ wnd \in Wnds /\ Horizon \in Nat
  BY BoundAssumption DEF Tokened, TypeOK
<1>2. CASE NotifyReadError \/ CloseDie \/ CloseConn \/ UNCHANGED vars
  <2>1. UNCHANGED <<clock, msgs, arrived, bufPtr, waitSnd, wnd, readEvent, writeEvent, readDdl,
                    writeDdl, reader, writer, timer, writeError, update>>
    BY <1>2 DEF NotifyReadError, CloseDie, CloseConn, vars, recvVars, sendVars, ddlVars
  <2>2. /\ readError' \in BOOLEAN /\ die' \in BOOLEAN
        /\ closing' \in {"no", "flush", "conn", "closed"}
    BY <1>1, <1>2 DEF NotifyReadError, CloseDie, CloseConn, vars, endVars
  <2>3. TypeOK'
    BY <1>1, <2>1, <2>2 DEF TypeOK
  <2>4. QED
    BY <2>1, <2>3, OtherStep
<1>3. CASE Update \/ CloseFlush
  <2>1. UNCHANGED <<clock, msgs, arrived, bufPtr, wnd, readEvent, readDdl, writeDdl, reader,
                    writer, timer, readError, die>>
    BY <1>3 DEF Update, UpdateCheck, UpdateLock, CloseFlush, recvVars, sendVars, ddlVars, endVars
  <2>2. /\ writeEvent' \in BOOLEAN /\ writeError' \in BOOLEAN /\ waitSnd' \in Nat
        /\ update' \in {"scheduled", "lock", "stopped"}
        /\ closing' \in {"no", "flush", "conn", "closed"}
    <3>1. CASE UpdateCheck
      BY <1>1, <3>1 DEF UpdateCheck, sendVars, endVars
    <3>2. CASE UpdateLock
      <4>1. writeEvent' = (writeEvent \/ Room) /\ writeError' \in {writeError, TRUE}
        BY <3>2, Zenon DEF UpdateLock, TxMayFail
      <4>2. writeEvent' \in BOOLEAN /\ writeError' \in BOOLEAN
        BY <1>1, <4>1, Zenon DEF Room
      <4>3. QED
        BY <1>1, <3>2, <4>2 DEF UpdateLock, sendVars, endVars
    <3>3. CASE CloseFlush
      BY <1>1, <3>3 DEF CloseFlush, TxMayFail
    <3>4. QED
      BY <1>3, <3>1, <3>2, <3>3 DEF Update
  <2>3. TypeOK'
    BY <1>1, <2>1, <2>2 DEF TypeOK
  <2>4. QED
    BY <2>1, <2>3, OtherStep
<1>4. CASE Settings
  <2>1. UNCHANGED <<clock, msgs, arrived, bufPtr, waitSnd, reader, writer, timer, readError,
                    writeError, die, closing, update>>
    BY <1>4 DEF Settings, SetReadDeadline, SetWriteDeadline, SetDeadline, SetWindowSize,
                recvVars, sendVars, endVars
  <2>2. /\ readDdl' \in Times /\ writeDdl' \in Times /\ wnd' \in Wnds
        /\ readEvent' \in BOOLEAN /\ writeEvent' \in BOOLEAN /\ (readEvent => readEvent')
    <3>1. CASE SetReadDeadline
      BY <1>1, <3>1 DEF SetReadDeadline, sendVars
    <3>2. CASE SetWriteDeadline
      BY <1>1, <3>2 DEF SetWriteDeadline, sendVars
    <3>3. CASE SetDeadline
      BY <1>1, <3>3 DEF SetDeadline, sendVars
    <3>4. CASE SetWindowSize
      BY <1>1, <3>4 DEF SetWindowSize, ddlVars
    <3>5. QED
      BY <1>4, <3>1, <3>2, <3>3, <3>4 DEF Settings
  <2>3. TypeOK'
    BY <1>1, <2>1, <2>2 DEF TypeOK
  <2>4. QED
    BY <2>1, <2>2, <2>3, OtherStep
<1>5. CASE Tick
  <2>1. UNCHANGED <<msgs, arrived, bufPtr, waitSnd, wnd, readEvent, writeEvent, readDdl,
                    writeDdl, reader, writer, timer, readError, writeError, die, closing, update>>
    BY <1>5 DEF Tick, recvVars, sendVars, ddlVars, endVars
  <2>2. clock' \in 0..Horizon
    BY <1>1, <1>5 DEF Tick
  <2>3. TypeOK'
    BY <1>1, <2>1, <2>2 DEF TypeOK
  <2>4. QED
    BY <2>1, <2>3, OtherStep
<1>6. QED
  BY <1>2, <1>3, <1>4, <1>5
-----------------------------------------------------------------------------
(* The theorem                                                             *)

\* Every step leaves a waiting Read its token.
LEMMA SNext ==
  ASSUME NEW r, Reader = {r}
  PROVE  Tokened /\ [Next]_vars => Tokened'
<1> SUFFICES ASSUME Tokened, [Next]_vars PROVE Tokened'
  OBVIOUS
<1>1. ASSUME NEW g \in Reader, Read(g) PROVE Tokened'
  <2>1. Reader = {g}
    OBVIOUS
  <2>2. QED
    BY <1>1, <2>1, ReadStep
<1>2. ASSUME NEW g \in Writer, Write(g) PROVE Tokened'
  BY <1>2, WriteStep
<1>3. QED
  BY <1>1, <1>2, RudpInputStep, QuietStep DEF Next

\* rudpInput and Read: with one reading goroutine no data is left behind a Read
\* that sleeps; with two the token of the one that woke may be all there was.
THEOREM Woken ==
  ASSUME NEW r, Reader = {r}
  PROVE  Spec => []ReadWoken
<1>1. Tokened => ReadWoken
  BY DEF Tokened, ReadWoken
<1>2. QED
  BY <1>1, SInit, SNext, PTL DEF Spec
=============================================================================
