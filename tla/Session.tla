------------------------------- MODULE Session -------------------------------
(***************************************************************************)
(* The blocking calls of one UDPSession (sess.go): goroutines in Read and  *)
(* Write wait for events, deadlines, socket errors and Close, while the    *)
(* read loop feeds Input and the timer calls update.  chReadEvent and      *)
(* chWriteEvent hold one token each; notify drops a second one.            *)
(*                                                                         *)
(* Every section under s.mu is one step, and so is every select.  Of the   *)
(* RUDP block only what those sections look at is kept: how many messages  *)
(* can be received, how many segments wait, and the smaller window.        *)
(***************************************************************************)
EXTENDS Integers

CONSTANTS
  Reader, Writer, \* goroutines that call Read, and Write
  MsgLen,         \* length of a message
  BufLen,         \* lengths of the buffers given to Read
  Batch,          \* bound: messages a datagram completes, segments a Write makes
  Wnds,           \* values of Min(sndWnd, rmtWnd)
  OwnConn,        \* Dial made the socket, which Close closes
  MaxMsgs,        \* bound: messages received
  Horizon         \* bound: the clock stops here, later than every deadline

ASSUME LengthAssumption ==
  /\ MsgLen \in Nat \ {0}
  /\ BufLen \subseteq Nat \ {0}
  /\ Wnds \subseteq Nat
ASSUME OwnConnAssumption == OwnConn \in BOOLEAN
ASSUME BoundAssumption == Batch \in Nat /\ MaxMsgs \in Nat /\ Horizon \in Nat

VARIABLES
  clock,
  msgs,        \* messages peekSize and Receive can find
  arrived,     \* messages received so far
  bufPtr,      \* bytes of a message Read has taken and not yet returned
  waitSnd,     \* WaitSnd()
  wnd,         \* Min(sndWnd, rmtWnd)
  readEvent, writeEvent,  \* the channels hold a token
  readDdl, writeDdl,
  reader, writer,         \* where each goroutine is
  timer,                  \* timer[g]: when its timer fires, set before it waits
  readError, writeError,  \* chSocketReadError, chSocketWriteError are closed
  die, closing,           \* die is closed; what Close has yet to do
  update                  \* the session's task in the timer service

recvVars == <<msgs, arrived, bufPtr>>
sendVars == <<waitSnd, wnd>>
ddlVars  == <<readDdl, writeDdl>>
endVars  == <<die, closing>>
vars == <<clock, recvVars, sendVars, readEvent, writeEvent, ddlVars, reader, writer, timer,
          readError, writeError, endVars, update>>

Never == Horizon + 1   \* the zero time.Time: no deadline
Times == 0..(Horizon - 1) \cup {Never}

Lesser(a, b) == IF a <= b THEN a ELSE b
Room == waitSnd < wnd
HasData == bufPtr > 0 \/ msgs > 0

Init ==
  /\ clock = 0
  /\ msgs = 0 /\ arrived = 0 /\ bufPtr = 0
  /\ waitSnd = 0 /\ wnd \in Wnds \ {0}
  /\ readEvent = FALSE /\ writeEvent = FALSE
  /\ readDdl = Never /\ writeDdl = Never
  /\ reader = [g \in Reader |-> "idle"]
  /\ writer = [g \in Writer |-> "idle"]
  /\ timer = [g \in Reader \cup Writer |-> Never]
  /\ readError = FALSE /\ writeError = FALSE
  /\ die = FALSE /\ closing = "no"
  /\ update = "scheduled"
-----------------------------------------------------------------------------
(* Read                                                                    *)

ReadCall(g) ==
  /\ reader[g] = "idle"
  /\ reader' = [reader EXCEPT ![g] = "lock"]
  /\ UNCHANGED <<clock, recvVars, sendVars, readEvent, writeEvent, ddlVars, writer, timer,
                 readError, writeError, endVars, update>>

\* Under s.mu: bytes left over from a message come first, then the next message,
\* of which b bytes are copied; otherwise Read times out or goes to wait.
ReadLock(g) ==
  /\ reader[g] = "lock"
  /\ \/ /\ bufPtr > 0
        /\ \E b \in BufLen : bufPtr' = bufPtr - Lesser(b, bufPtr)
        /\ reader' = [reader EXCEPT ![g] = "idle"]
        /\ UNCHANGED <<msgs, timer>>
     \/ /\ bufPtr = 0 /\ msgs > 0
        /\ \E b \in BufLen : bufPtr' = MsgLen - Lesser(b, MsgLen)
        /\ msgs' = msgs - 1
        /\ reader' = [reader EXCEPT ![g] = "idle"]
        /\ UNCHANGED timer
     \/ /\ ~HasData
        /\ reader' = [reader EXCEPT ![g] = IF clock > readDdl THEN "idle" ELSE "wait"]
        /\ timer' = [timer EXCEPT ![g] = readDdl]
        /\ UNCHANGED <<msgs, bufPtr>>
  /\ UNCHANGED <<clock, arrived, sendVars, readEvent, writeEvent, ddlVars, writer,
                 readError, writeError, endVars, update>>

\* The select: a token sends it back to the lock,
ReadWake(g) ==
  /\ reader[g] = "wait" /\ readEvent
  /\ readEvent' = FALSE
  /\ reader' = [reader EXCEPT ![g] = "lock"]
  /\ UNCHANGED <<clock, recvVars, sendVars, writeEvent, ddlVars, writer, timer, readError,
                 writeError, endVars, update>>

\* Mutant of ReadFail: the case of the read error is missing.
ReadFailNotError(g) ==
  /\ reader[g] = "wait"
  /\ clock >= timer[g] \/ die
  /\ reader' = [reader EXCEPT ![g] = "idle"]
  /\ UNCHANGED <<clock, recvVars, sendVars, readEvent, writeEvent, ddlVars, writer, timer,
                 readError, writeError, endVars, update>>

\* the timer, a read error or die end the call.
ReadFail(g) ==
  /\ reader[g] = "wait"
  /\ clock >= timer[g] \/ readError \/ die
  /\ reader' = [reader EXCEPT ![g] = "idle"]
  /\ UNCHANGED <<clock, recvVars, sendVars, readEvent, writeEvent, ddlVars, writer, timer,
                 readError, writeError, endVars, update>>
-----------------------------------------------------------------------------
(* Write                                                                   *)

\* A flush hands datagrams to tx, whose failure notifies the write error.
TxMayFail == writeError' \in {writeError, TRUE}

WriteCall(g) ==
  /\ writer[g] = "idle"
  /\ writer' = [writer EXCEPT ![g] = "check"]
  /\ UNCHANGED <<clock, recvVars, sendVars, readEvent, writeEvent, ddlVars, reader, timer,
                 readError, writeError, endVars, update>>

\* The first select, which does not block.
WriteCheck(g) ==
  /\ writer[g] = "check"
  /\ writer' = [writer EXCEPT ![g] = IF writeError \/ die THEN "idle" ELSE "lock"]
  /\ UNCHANGED <<clock, recvVars, sendVars, readEvent, writeEvent, ddlVars, reader, timer,
                 readError, writeError, endVars, update>>

\* Under s.mu: with room in both windows the segments are queued, and flushed now
\* or, with writeDelay, later; otherwise Write times out or goes to wait.
WriteLock(g) ==
  /\ writer[g] = "lock"
  /\ \/ /\ Room
        /\ \E k \in 1..Batch : waitSnd' = waitSnd + k
        /\ TxMayFail
        /\ writer' = [writer EXCEPT ![g] = "idle"]
        /\ UNCHANGED timer
     \/ /\ ~Room
        /\ writer' = [writer EXCEPT ![g] = IF clock > writeDdl THEN "idle" ELSE "wait"]
        /\ timer' = [timer EXCEPT ![g] = writeDdl]
        /\ UNCHANGED <<waitSnd, writeError>>
  /\ UNCHANGED <<clock, recvVars, wnd, readEvent, writeEvent, ddlVars, reader, readError,
                 endVars, update>>

WriteWake(g) ==
  /\ writer[g] = "wait" /\ writeEvent
  /\ writeEvent' = FALSE
  /\ writer' = [writer EXCEPT ![g] = "check"]
  /\ UNCHANGED <<clock, recvVars, sendVars, readEvent, ddlVars, reader, timer, readError,
                 writeError, endVars, update>>

WriteFail(g) ==
  /\ writer[g] = "wait"
  /\ clock >= timer[g] \/ writeError \/ die
  /\ writer' = [writer EXCEPT ![g] = "idle"]
  /\ UNCHANGED <<clock, recvVars, sendVars, readEvent, writeEvent, ddlVars, reader, timer,
                 readError, writeError, endVars, update>>
-----------------------------------------------------------------------------
(* The read loop and the timer                                             *)

\* Mutant of RudpInput: the events are decided before Input is called.
RudpInputNotifyFirst ==
  /\ ~readError
  /\ \E k \in 0..Batch, acked \in 0..waitSnd, w \in Wnds :
       /\ arrived + k <= MaxMsgs
       /\ arrived' = arrived + k /\ msgs' = msgs + k
       /\ waitSnd' = waitSnd - acked /\ wnd' = w
       /\ readEvent' = (readEvent \/ msgs > 0)
       /\ writeEvent' = (writeEvent \/ Room)
  /\ TxMayFail
  /\ UNCHANGED <<clock, bufPtr, ddlVars, reader, writer, timer, readError, endVars, update>>

\* rudpInput: a datagram completes some messages, acks some segments and brings
\* the peer's window.  The events are decided by the state after Input.
RudpInput ==
  /\ ~readError
  /\ \E k \in 0..Batch, acked \in 0..waitSnd, w \in Wnds :
       /\ arrived + k <= MaxMsgs
       /\ arrived' = arrived + k /\ msgs' = msgs + k
       /\ waitSnd' = waitSnd - acked /\ wnd' = w
       /\ readEvent' = (readEvent \/ msgs' > 0)
       /\ writeEvent' = (writeEvent \/ waitSnd' < w)
  /\ TxMayFail
  /\ UNCHANGED <<clock, bufPtr, ddlVars, reader, writer, timer, readError, endVars, update>>

\* The read of the socket fails: notifyReadError, after which the read loop ends.
NotifyReadError ==
  /\ ~readError
  /\ readError' = TRUE
  /\ UNCHANGED <<clock, recvVars, sendVars, readEvent, writeEvent, ddlVars, reader, writer,
                 timer, writeError, endVars, update>>

\* Mutant of UpdateCheck: a closed session is still updated.
UpdateCheckNotDie ==
  /\ update = "scheduled"
  /\ update' = "lock"
  /\ UNCHANGED <<clock, recvVars, sendVars, readEvent, writeEvent, ddlVars, reader, writer,
                 timer, readError, writeError, endVars>>

\* update of a closed session does nothing, and is not put again.
UpdateCheck ==
  /\ update = "scheduled"
  /\ update' = IF die THEN "stopped" ELSE "lock"
  /\ UNCHANGED <<clock, recvVars, sendVars, readEvent, writeEvent, ddlVars, reader, writer,
                 timer, readError, writeError, endVars>>

\* Mutant of UpdateLock: it only flushes.
UpdateLockSilent ==
  /\ update = "lock"
  /\ TxMayFail
  /\ update' = "scheduled"
  /\ UNCHANGED <<clock, recvVars, sendVars, readEvent, writeEvent, ddlVars, reader, writer,
                 timer, readError, endVars>>

\* Under s.mu it flushes and notifies a writer; then it is put again.
UpdateLock ==
  /\ update = "lock"
  /\ writeEvent' = (writeEvent \/ Room)
  /\ TxMayFail
  /\ update' = "scheduled"
  /\ UNCHANGED <<clock, recvVars, sendVars, readEvent, ddlVars, reader, writer, timer,
                 readError, endVars>>

Tick ==
  /\ clock < Horizon
  /\ clock' = clock + 1
  /\ UNCHANGED <<recvVars, sendVars, readEvent, writeEvent, ddlVars, reader, writer, timer,
                 readError, writeError, endVars, update>>
-----------------------------------------------------------------------------
(* Settings and Close                                                      *)

\* Mutant of SetReadDeadline: a Read that waits is not told.
SetReadDeadlineSilent ==
  /\ readDdl' \in Times
  /\ UNCHANGED <<clock, recvVars, sendVars, readEvent, writeEvent, writeDdl, reader, writer,
                 timer, readError, writeError, endVars, update>>

SetReadDeadline ==
  /\ readDdl' \in Times
  /\ readEvent' = TRUE
  /\ UNCHANGED <<clock, recvVars, sendVars, writeEvent, writeDdl, reader, writer, timer,
                 readError, writeError, endVars, update>>

SetWriteDeadline ==
  /\ writeDdl' \in Times
  /\ writeEvent' = TRUE
  /\ UNCHANGED <<clock, recvVars, sendVars, readEvent, readDdl, reader, writer, timer,
                 readError, writeError, endVars, update>>

SetDeadline ==
  /\ readDdl' \in Times /\ writeDdl' = readDdl'
  /\ readEvent' = TRUE /\ writeEvent' = TRUE
  /\ UNCHANGED <<clock, recvVars, sendVars, reader, writer, timer, readError, writeError,
                 endVars, update>>

\* SetWindowSize tells nobody.
SetWindowSize ==
  /\ wnd' \in Wnds
  /\ UNCHANGED <<clock, recvVars, waitSnd, readEvent, writeEvent, ddlVars, reader, writer,
                 timer, readError, writeError, endVars, update>>

\* Close: dieOnce,
CloseDie ==
  /\ ~die
  /\ die' = TRUE /\ closing' = "flush"
  /\ UNCHANGED <<clock, recvVars, sendVars, readEvent, writeEvent, ddlVars, reader, writer,
                 timer, readError, writeError, update>>

\* then, under s.mu, the last flush and ReleaseTX,
CloseFlush ==
  /\ closing = "flush"
  /\ closing' = "conn"
  /\ waitSnd' = 0
  /\ TxMayFail
  /\ UNCHANGED <<clock, recvVars, wnd, readEvent, writeEvent, ddlVars, reader, writer, timer,
                 readError, die, update>>

\* and the socket, if it is the session's own.
CloseConn ==
  /\ closing = "conn"
  /\ closing' = IF OwnConn THEN "closed" ELSE "no"
  /\ UNCHANGED <<clock, recvVars, sendVars, readEvent, writeEvent, ddlVars, reader, writer,
                 timer, readError, writeError, die, update>>
-----------------------------------------------------------------------------
Read(g)  == ReadCall(g) \/ ReadLock(g) \/ ReadWake(g) \/ ReadFail(g)
Write(g) == WriteCall(g) \/ WriteCheck(g) \/ WriteLock(g) \/ WriteWake(g) \/ WriteFail(g)
Update   == UpdateCheck \/ UpdateLock
Settings == SetReadDeadline \/ SetWriteDeadline \/ SetDeadline \/ SetWindowSize

Next ==
  \/ \E g \in Reader : Read(g)
  \/ \E g \in Writer : Write(g)
  \/ RudpInput \/ NotifyReadError
  \/ Update
  \/ Tick
  \/ Settings
  \/ CloseDie \/ CloseFlush \/ CloseConn

\* A goroutine that can run does, a select does not ignore one of its cases for
\* ever, the timer service runs update, time passes, and a read of a closed socket
\* fails.  No datagram has to come, and the application has to do nothing.
Fairness ==
  /\ \A g \in Reader : WF_vars(ReadLock(g)) /\ WF_vars(ReadWake(g)) /\ SF_vars(ReadFail(g))
  /\ \A g \in Writer : /\ WF_vars(WriteCheck(g)) /\ WF_vars(WriteLock(g))
                       /\ SF_vars(WriteWake(g)) /\ SF_vars(WriteFail(g))
  /\ WF_vars(Update) /\ WF_vars(Tick) /\ WF_vars(CloseFlush \/ CloseConn)
  /\ WF_vars(closing = "closed" /\ NotifyReadError)

Spec == Init /\ [][Next]_vars /\ Fairness
-----------------------------------------------------------------------------
(* Properties                                                              *)

\* The variables keep their types.
TypeOK ==
  /\ clock \in 0..Horizon
  /\ msgs \in 0..MaxMsgs /\ arrived \in 0..MaxMsgs /\ bufPtr \in 0..(MsgLen - 1)
  /\ waitSnd \in Nat /\ wnd \in Wnds
  /\ readEvent \in BOOLEAN /\ writeEvent \in BOOLEAN
  /\ readDdl \in Times /\ writeDdl \in Times
  /\ reader \in [Reader -> {"idle", "lock", "wait"}]
  /\ writer \in [Writer -> {"idle", "check", "lock", "wait"}]
  /\ timer \in [Reader \cup Writer -> Times]
  /\ readError \in BOOLEAN /\ writeError \in BOOLEAN
  /\ die \in BOOLEAN /\ closing \in {"no", "flush", "conn", "closed"}
  /\ update \in {"scheduled", "lock", "stopped"}

\* The state is typed, Read counting no more bytes out of a message than it holds;
\* and when data is there a waiting Read has a token to wake on, or another Read is
\* on its way to the lock: rudpInput never leaves readable data without one.
ReadWoken == TypeOK /\
  (HasData /\ (\E g \in Reader : reader[g] = "wait")
    => readEvent \/ \E g \in Reader : reader[g] = "lock")

\* "Read can be called without blocking": while there is data every Read returns.
ReadReturns ==
  \A g \in Reader : reader[g] # "idle" /\ HasData ~> reader[g] = "idle" \/ ~HasData

\* A deadline set while Read waits ends it in time, unless it is taken back.
DeadlineEndsRead ==
  \A g \in Reader :
    reader[g] # "idle" /\ readDdl # Never ~> reader[g] = "idle" \/ readDdl = Never

\* Close and a read error end every Read, wherever it is between its check of the
\* data and its select.
FailureEndsReads ==
  \A g \in Reader : reader[g] # "idle" /\ (die \/ readError) ~> reader[g] = "idle"

\* If the windows have room for good, every Write returns: the periodic update
\* makes up for a token another Write took, or that SetWindowSize did not send.
WriteReturns ==
  <>[]Room => \A g \in Writer : writer[g] # "idle" ~> writer[g] = "idle"

\* A closed session leaves the timer service, and with its own socket its read
\* loop ends as well.
CloseEndsLoops == die ~> update = "stopped" /\ (OwnConn => readError)
=============================================================================
