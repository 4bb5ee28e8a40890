# rudp-go: a verification development

`rudp-go` is a reliable, ordered, message-based transport over UDP, in the style of
KCP: a library of about 2,000 lines of Go. This directory holds TLA+ models of its
protocol engine and of the concurrent code around it, the TLC configurations that check
them on small instances, and TLAPS proofs about the engine and most of the code
around it for all instances.

Line numbers refer to `src/`. `PROJECT.json` maps every definition to the lines it
models and lists runs, mutants, findings and hazards.

## 1. The system

```
   application          Read  Write  Set...  Close          Accept  Close
                          |     |      |       |               |      |
   sess.go  UDPSession ---+-----+------+-------+--+     listener.go  Listener
     mu, chReadEvent, chWriteEvent, die,          |       sessions, chAccepts, die
     chSocketReadError/WriteError, bufPtr,        |            |   |
     txqueue                                      |            |   | monitor
        |              |              |           |            |   | (one goroutine)
   rudp.go  RUDP    tx*.go         update     readloop*.go <---+   |
     windows,       WriteBatch /      |        (client) ---- ReadFrom/ReadBatch
     queues, acks   WriteTo        timesched.go
                                   TimedSched (one per process)
```

### Components, their state, and what makes them correct

| Component | State | Operations | Correct when |
|---|---|---|---|
| **RUDP engine** `rudp.go` | `sndQueue`, `sndBuf`, `rcvBuf`, `rcvQueue`, `ackList`, `sndUna`, `sndNxt`, `rcvNxt`, three windows, `probe` | `Send`, `Receive`, `Input`, `flush`, `WndSize`, `SetMtu`, `NoDelay` | what `Receive` returns is what the peer gave to `Send`, once and in order, over any network; nothing accepted is lost; the receiver's memory is bounded by its window |
| **Congestion control** `rudp.go` | `cwnd`, `ssthresh`, `incr` | the tail of `Input` and of `flush` | `cwnd` stays in the windows, agrees with `incr`, and always opens again |
| **RTT and timers** `rudp.go` | `rxSRTT`, `rxRTTVal`, `rxRTO`; per segment `ts`, `rto`, `resendts`, `fastack`, `xmit`; `state` | `updateRTO`, `parseFastAck`, `flush`, `NoDelay` | a segment is sent again in time, and only for a reason; the timeout follows the round trips; a dead peer is noticed (it is not) |
| **Messages** `rudp.go` | `mtu`, `mss`, `stream`, `buffer`, `reserved`, `frg` of each segment | `Send`, `SetMtu`, `peekSize`, `Receive`, `makeSpace` in `flush` | no byte is lost or moved, a message is returned whole, a datagram fits its buffer |
| **UDPSession** `sess.go` | `die`, `chReadEvent`, `chWriteEvent`, deadlines, error channels, `bufPtr` | `Read`, `Write`, `Close`, `update`, setters | no wake-up is lost: a call that could return does |
| **Transmit path** `sess.go`, `tx*.go`, `batchConn.go` | `txqueue`, `xconnWriteError`, counters | `output`, `uncork`, `tx`, `defaultTx` | a flush sends every datagram once, or notifies an error |
| **Listener** `listener.go`, `readloop*.go` | `sessions`, `chAccepts`, `die`, `chSocketReadError` | `monitor`, `packetInput`, `AcceptRUDP`, `closeSession`, `notifyReadError`, `Close` | datagrams reach the session of their address and conversation; closed sessions leave the map; the one reading goroutine never blocks |
| **Timer service** `timesched.go` | `prependTasks`, `chPrependNotify`, `chTask`; per goroutine a heap, a `time.Timer`, `allDone` | `Put`, `prepend`, `sched`, `Close` | every task runs once, not early; no goroutine hangs on its timer |
| **Client read loop** `readloop*.go` | none | `readLoop` | stops with the socket |
| **SNMP counters** `snmp.go` | global counters | `Copy`, `Reset`, `Header`, `ToSlice` | counters count what they name |
| **Encryption, FEC** `crypt.go` | none | none (empty interfaces, TODO) | - |
| **Socket options, examples, benchmarks** | none | calls into the operating system; callers | - |

How they interact. The RUDP block has no lock: every call on it is made by its
session with `s.mu` held. `Write` queues segments with `Send` and flushes; the flush
calls `output`, which fills `txqueue`, and `uncork` then calls `tx`. The reading
goroutine (a client's `readLoop`, or the one `monitor` of a listener for all of its
sessions) calls `rudpInput`, which calls `Input` and then puts tokens into the one-place
channels `chReadEvent` and `chWriteEvent`. `update` flushes, notifies a writer and puts
itself back into `TimedSched`. `Close` of a session on the server side calls
`closeSession` of its listener, from the application's goroutine or, when a new
conversation replaces the old, from the monitor itself.

What is hard here: datagrams lost, repeated and out of order; windows that change while
segments are in flight; goroutines that go to wait just as the event comes; one token for
several waiters; `Close` racing everything; a map keyed by address when a new session
takes over an address; `time.Timer.Stop` coming late; `sendmmsg` that takes a part of a
batch and fails. `PROJECT.json` lists these as hazards, each at its line.

## 2. The modules

| Module | Models | Role |
|---|---|---|
| `ReliableStream` | - | abstract specification: a pair of streams of payloads; `Write` appends a batch to one, `Read` takes the first payload not yet read |
| `RUDP` | `rudp.go`, and the calls `sess.go` makes on it | two ends, the network, the safety properties, the inductive invariant `IInv`, the refinement of `ReliableStream` |
| `RUDPProofs` | - | theorems about `RUDP`: `IInv` and what it implies; the refinement and the receiver's bounds |
| `RUDPLive` | `rudp.go`, and a fair network | the fairness of `update`, `Read` and the network, and the liveness properties of `RUDP` |
| `Retransmit` | `rudp.go` 322-348, 386-392, 505-569, 735-824; `update` | timers, round-trip estimate, fast and early retransmission, for one sender and a clock |
| `RetransmitProofs` | - | theorems about `Retransmit` |
| `Message`, `MessageProofs` | `rudp.go` 176-241, 401-431, 655-672, 896-918, 995-1011 | fragments, stream mode, mtu, packing, reassembly; theorems |
| `Congestion`, `CongestionProofs` | `rudp.go` 350-392, 728-802, 845-872 | the arithmetic of the congestion window; theorems |
| `Session`, `SessionProofs` | `sess.go` | blocking calls, events, deadlines, `Close`, `update`; a theorem about `Read` |
| `Tx`, `TxProofs` | `sess.go`, `tx*.go` | a flush from `output` to the counters; theorems |
| `Listener`, `ListenerProofs` | `listener.go`, `readloop*.go` | the server side; theorems |
| `TimedSched`, `TimedSchedProofs` | `timesched.go` | the timer service; theorems |
| `MCRUDP`, `MCRetransmit`, `MCSession`, `MCListener`, `MCTimedSched` | - | values for the constants |

The modules meet at narrow interfaces. `RUDP` takes from `Session` only that every call
holds `s.mu`. `Message` takes from `RUDP` that segments arrive in order and none is lost
(proved), and from `RUDPLive` that they arrive in the end. `Retransmit` takes from `RUDP`
that the receiver may ack, or cover by una, whatever was sent, and refines its "any unacked
segment may be resent in any flush"; `Congestion` refines its "any congestion window".
`Session` takes from `RUDP` three numbers (messages ready, `WaitSnd()`, the
smaller window), and from `Tx` that a flush may notify a write error. `Listener` takes
from `Session` that `Close` is `dieOnce` followed by `closeSession`. `TimedSched` gives
`Session` its fairness assumption on `update`.

### RUDP

The variables are the fields of the two control blocks, indexed by end, with two history
variables (`written`, `read`) and the network (`net`, a set of datagrams). One action is
one critical section of `s.mu`:

| Action | Code |
|---|---|
| `Write` | `WriteBuffers`, the branch with room: `Send` per chunk, then `flush` unless `writeDelay` defers it |
| `Read` | `Receive`: a message leaves `rcvQueue`, ready segments follow from `rcvBuf`, a window announcement is noted |
| `Update` | `update`: `flush(false)` |
| `WndSize` | `SetWindowSize` |
| `InputBegin`, `InputPush`, `InputEnd` | `Input`: window, una and acks; then each PUSH; then the flush it ends with |
| `Lose` | the network; copies are made by `InputBegin`, which may leave the datagram in `net` |

`Input` is cut into one step per PUSH, with `busy` standing for the mutex, so that the
transfer loop needs no recursion and each step stays small enough to prove about; the
other end goes on meanwhile. `flush` is an operator (`Flush`) used by `Write`, `Update`
and `InputEnd`.

`rcvBuf` is the slice of the code: `Place` is the search of `parseData` from its end,
`Insert` the insertion or the test for a repeated segment, and `MoveReady` the loop that
takes segments from its front; that the result is in order and without repetition is
`BoundedReceiver`, no shape of the model.

Abstracted: bytes (the k-th segment carries payload k; 0 is the nil slice that
`delSegment` leaves, so that resending freed data would show); order in `sndBuf` (a set,
since `flush` only appends to it); the packing of a flush, of which there are two (all
segments in one datagram, or each PUSH in one of its own); time (any unacked segment may
be resent in any flush, which covers fast, early and timeout retransmission); congestion
control (`flush` may use any window up to the limit, which covers whatever `Congestion`
computes). The 16-bit window field is kept (`% WndMod`).

### RUDPLive, Retransmit, Message

* `RUDPLive` adds no step to `RUDP`. It names the steps that must happen again and again
  (`UpdateResend`, `UpdateMove`, `UpdateProbe`, `Tell`, the `Deliver...`s, `Leave`) and
  states their fairness; section 3 says why.
* `Retransmit`: a clock, one sender, and for each transmission in the network a pair
  `<<sn, ts>>`, since an ack carries both back. `Flush(k)` is `flush(false)` with `k` new
  segments; `Write`, `Update` and `InputFlush` call it; `Update` alone uses the interval
  it returns (`Gap`), as in the code. `Input` takes any ack still in the network, with any
  una; an entry leaves the network only by age (`MaxRtt`), so every ack may be duplicated
  and overtaken. A datagram carries exactly one ack: one with several, of which only the
  last gives a sample, or with none is left out. `passed` is a history variable of a
  segment: an ack of a transmission not older than its own last one has come.
* `Message`: a segment is an interval of the bytes given to `Send`, and `frg`. The two
  ends are one pipe (`sndQueue`, `sndBuf`, `rcvQueue`). `Packed` is the loop of `flush`
  over `makeSpace` and the encoding functions, down to the position in the buffer; an
  overrun sets `crashed`, where the program panics and the model stops.

### Session, Tx, Listener, TimedSched, Congestion

* `Session`: `ReadCall/ReadLock/ReadWake/ReadFail` and
  `WriteCall/WriteCheck/WriteLock/WriteWake/WriteFail` are the sections of `Read` and
  `WriteBuffers`: under the lock, or one `select`. `RudpInput`, `NotifyReadError`,
  `UpdateCheck`, `UpdateLock`, `CloseDie`, `CloseFlush`, `CloseConn`, the deadline setters and
  `SetWindowSize` are the other parties. A timer is created from the deadline seen under
  the lock, before the wait; a deadline set later must wake the waiter, as the code does.
* `Tx`: one step per system call. Numbers stand for datagrams, and give different
  lengths so that a count of packets cannot pass for a count of bytes.
* `Listener`: the monitor is a program counter with its local variables (`lookup`,
  `input`, `replace`, `unmap`, `create`, `map`, `offer`, `notify`), cut at each lock or
  channel operation; `CloseDie` and `CloseUnmap` are the two halves of a session's
  `Close`, between which anything may happen.
* `TimedSched`: `Put` in two steps (append under the lock, notify after), `prepend`
  in three, each `sched` goroutine as its loop with `time.Timer` as a small machine
  (`armed`, `fired` with a value in the channel, `idle`) as it was before Go 1.23
  (`go.mod` says 1.17).
* `Congestion`: `Input` and `Flush` on `cwnd`, `ssthresh` and `incr` in unsigned
  arithmetic: what is acked or resent is an input, within what the flight allows.

## 3. The runs

Every property of a passing run has a mutant in `PROJECT.json`: a plausible bug of the
mapped code under which TLC finds the property violated with the same bounds. So no
property below holds merely because its bound is too small.

| Run | Result | Shows |
|---|---|---|
| `RUDP_oneway` | pass, 140 s | the inductive invariant `IInv`; `AckedIsReceived`, `ReleasedIsReceived` (data freed by the sender is at the receiver); `InOrderDelivery`, `NoDataLost`, `NoHiddenSegment`; `BoundedReceiver` (`rcvBuf` in order, without repetition and within the window, as is `rcvQueue`); `SentWithinWindow` (flow control); `Monotonic` (a stale una or ack moves nothing backwards); `ImplementsStream` (refinement of `ReliableStream`: the payloads written are delivered in order, each once) |
| `RUDP_live` | pass, 25 s | `EventuallyRead` (everything written is read), `EventuallyReleased` (the sender's queues become empty again and again), `WindowReopens` (the zero-window probe) |
| `Congestion_window` | pass | `CwndBounded`, `IncrFollowsCwnd`, and `QueueMoves`: although `cwnd` starts as 0, queued data is sent |
| `Retransmit` | pass, 15 s | `ResendOnTime` (a due segment is resent by the update set for it, or within one interval), `CausedResend` (never without a timeout or an ack of a later transmission), `RtoFollowsRtt` |
| `Message` | pass, 25 s | `BytesInOrder`, `WholeMessages`, `SegmentsFit`, and `AllRead`: everything is read as long as no message has more fragments than the receiver's window |
| `Session_reader` | pass, 50 s | a reader against datagrams, deadlines, errors and `Close`: `ReadWoken`, `ReadReturns`, `DeadlineEndsRead`, `FailureEndsReads`; `CloseEndsLoops`: after `Close` the session leaves the timer service, and its read loop ends |
| `Session_writers` | pass | two writers share one token: `WriteReturns` |
| `Tx_paths` | pass | `RoundSentBeforeFallback`, `AsManySent` |
| `Tx_fallback` | violation | `RoundSent` (finding 2) |
| `Listener_serve` | pass | `MonitorNeverBlocks`, `ClosedIsUnmapped`, `OwnDatagrams`, `ErrorReachesMapped`, `CloseEndsMonitor` |
| `Listener_replace` | violation | `LiveSessionMapped` (finding 1) |
| `TimedSched` | pass, 75 s | `DrainNeverHangs`, `TimerCovers`, `TaskOnce`, `EventuallyExecuted` |

The type invariant of `RUDP` is a conjunct of `IInv`; those of `Retransmit`, `Session`,
`Listener` and `TimedSched` are conjuncts of `ResendOnTime`, `ReadWoken`, `OwnDatagrams` and
`TaskOnce`.

### Bounds, and why they are enough

* `RUDP_oneway`: three segments, written one to three at once, one more than any window
  of the receiver. Both windows begin at 2; the receiver may lower its own to 1 and the
  sender raise its own to 3 at any time, so that `rmtWnd` alone keeps the sender back,
  `rcvBuf` holds a gap, a segment falls outside the window, and `rcvQueue` would overrun if
  either end looked at no window. Two datagrams are on their way at once, in either
  direction (`NetTotal`), so that PUSHes overtake each other, and so do acks. Each PUSH is in a
  datagram of its own (`Coalesce = FALSE`), so that PUSHes are lost singly. `WndMod = 8`
  never cuts a window. The three segments of `rcvBuf` and `rcvQueue` together exceed the
  largest window, so that a bound which no code kept would show; the mutants are a
  transfer that does not ask for room, a segment appended instead of inserted, one stored
  twice, and a flush that ignores `rmtWnd`.
* `RUDP_live`: windows of 1, so that every segment closes the window; two segments, so
  that one waits for it to open; a datagram each way at a time, which may be lost or
  delivered again. The proofs hold for any `WndMod`, including one that cuts; here
  `WndMod = 3`, and the liveness properties fail for `WndMod = 1`, where the window is
  always advertised as 0 (as 65536 is by the code).
* `Retransmit`: units of 50 ms give the code's `RTO_DEF` 200 ms and an interval of 100 ms;
  the other constants keep their order. Round trips up to 2 and a clock of 8 leave
  room for the estimate to change several times, for two timeouts in a row and for a fast
  retransmission; two segments are enough for one to be passed by. The clock stops at
  `Horizon`; the theorems hold for all bounds.
* `Message`: an overhead of 2 bytes, one reserved, and mtus of 4 to 6, so that `mss` is 1
  to 3: buffers of 1, 3 and 4 bytes make one to four fragments with windows of 2 (a message
  the receiver can never complete) and a limit of 3 (a message `Send` refuses after
  filling the last segment). `SetMtu` may also be given 3, which it refuses.
* `Congestion_window`: windows up to 4 with `ThreshInit = 2`, so that slow start,
  avoidance and both reductions happen; `Mss = 32`, so that `mss / 16` is 2;
  `Word = 65536` for 2^32, far above any product, so that the only wrap is
  the one the code relies on, of `resent = 0xffffffff`.
* `Session_reader`: two messages and a two-byte message with buffers of 1 and 3 bytes
  (a partial and a short read); a clock of three times, with deadlines before, at and
  after now. `Session_writers`: windows 0 to 2 make every kind of room. With one token
  channel, two waiters are the smallest case of competition.
* `Tx_*`: three datagrams per flush and up to five in all: a partial batch, a second
  call, and a flush after the fallback. `Length` makes all lengths different.
* `Listener_*`: two addresses and two conversations, a backlog of one, and three
  sessions, so that an address is taken over twice or two addresses compete for
  the backlog.
* `TimedSched`: two goroutines, two tasks, due at the same or at different times,
  and a clock with a time before, at and after the deadlines. At `Horizon` the clock
  stands for all later times, and there a timer fires whatever it is armed for.

Bounds in the guards are named in each module (`MaxWrite`, `WriteBatch`, `NetCap`, `NetTotal`,
`MaxMsgs`, `Batch`, `MaxQueue`, `MaxOut`, `MaxSession`, `Horizon`).

Deadlock is checked in `RUDP_*`, `Congestion_window`, `Retransmit` and `Session_*`, where
some party can always act (in `Retransmit`, at the end of time too, since `Write` may flush
once more). It is not in `Listener_*` (after an error the monitor has returned and the
application may be finished), `Tx_*` (at `MaxOut` nothing more is sent), `TimedSched` (after
`Close` the goroutines have returned) and `Message` (a panic stops the program).

### Fairness

Except in `RUDPLive` and `Message`, nothing is assumed of peers, of the network or of the
application: no datagram has to come and no call has to be made. What is assumed is what
the Go runtime gives.

* A goroutine that can take a step takes it (weak fairness on lock sections; `sync.Mutex`
  is starvation-free).
* A `select` with several ready cases picks one at random, so a case that is ready again
  and again is taken (strong fairness on `ReadFail`, `WriteWake`, `WriteFail`, `Expire`).
  `WriteWake` is strong because the token may be taken by another writer each time; Go
  serves the waiters of a channel in the order they came.
* `Session` assumes that `update` is run again and again while the session is open, which
  is what `TimedSched` shows (`EventuallyExecuted`), and that time passes.
* `Listener` assumes that a read of a closed socket fails, and nothing of `Recv`.
* `Congestion` assumes that `flush` is run, as `update` does.
* `RUDPLive` assumes a network that loses any number of datagrams, but not all of those
  sent for one need (strong fairness on `UpdateResend`, `UpdateProbe`, `Tell`, each with
  its datagram surviving), that delivers one of those needed if such are in it again and
  again, and that does not keep a copy for ever (`Leave`). It assumes that `update` runs for
  ever (`TimedSched`), that a retransmission or probe timer that runs expires in the
  end, that the congestion window is at least 1 (`Congestion`: after each flush `cwnd >= 1`),
  and that the application reads. `Read` and `update` are given strong fairness because the
  mutex, which `Input` holds for several steps of the model, is free again and again, and
  Go's mutex is starvation-free. Nothing is assumed of `Write`, and nothing of
  the notice `Receive` asks for beyond what is assumed of acks.
* `Message` assumes of the pipe what `RUDPLive` shows of it, and that the application reads
  with a large enough buffer.

## 4. Findings

1. **A late `closeSession` removes the wrong session** (`Listener_replace`,
   `listener.go:117`). The application closes session A and is between `die` and
   `closeSession`; a new conversation from the same address arrives, the monitor's own
   `s.Close()` returns at once and session B enters the map; then A's `closeSession`
   deletes the entry of the address, which is B. B is alive and will never receive again.
2. **The fallback of `tx` sends the wrong datagrams** (`Tx_fallback`, `tx.go:13`).
   `defaultTx(txqueue)` ranges over its argument and sends `s.txqueue[k]`. After a
   partial `WriteBatch` the argument is only the rest: the first datagrams go out twice,
   the last never, without an error. (`RUDP` tolerates it as loss and duplication.)

Seen while modelling, without a run of their own:

* Two goroutines in `Read` share one token: a datagram that completes two messages wakes
  one, and the other sleeps on data until the next datagram (`sess.go:148`; `ReadReturns`
  fails in `Session` with two readers).
* `Close` of a listener from `ServeConn` does not stop it: the monitor never looks at
  `l.die` (`listener.go:54`; `CloseEndsMonitor` holds for an own socket only).
* A message of more fragments than the receiver's window is never complete, and blocks all
  after it (`rudp.go:906`); `Send` only checks for 255 (`rudp.go:213`). `Write` does not
  make such messages, since it calls `Send` with one `mss` at most.
* `SetMtu` to a smaller value while segments wait: the next flush that encodes one of them
  panics (`rudp.go:1007`; in `Message` this is `crashed`, which `SegmentsFit` allows only then).
* In stream mode a `Send` that fails with -2 has already queued a part of the buffer
  (`rudp.go:192`, `214`). `SetMtu` checks the reserve against the old mtu (`rudp.go:999`),
  and the session's `SetMtu` reports success when `RUDP.SetMtu` failed (`sess.go:603`).
* `defaultTx` adds bytes to `OutPkts` and packets to `OutBytes` (`tx.go:21-22`, modelled so
  in `Tx!DefaultCount`).
* In congestion avoidance `cwnd` may grow by 2 at once, as it is `incr / mss` rounded up
  (`rudp.go:372`; the comment at 367 says 1).
* `state`, set after `deadLink` retransmissions (`rudp.go:816`), is never read.
* `unusedWnd` turns a window of 65536 into 0 (`rudp.go:885`).

## 5. The proofs

`RUDPProofs` proves, for all windows, batch sizes and bounds, and for both packings:

| Theorem | States |
|---|---|
| `Invariance` | `Spec => []IInv` |
| `Typing` | `Spec => []TypeOK` |
| `Delivery` | `Spec => []InOrderDelivery` |
| `AckSafety`, `UnaSafety` | `Spec => []AckedIsReceived`, `Spec => []ReleasedIsReceived` |
| `Conservation` | `Spec => []NoDataLost` |
| `FlowControl` | `Spec => []SentWithinWindow` |

Assumptions: `NodeAssumption` (two different ends), `WndAssumption` (windows are positive,
as `WndSize` demands, and the modulus is positive), `BoundAssumption` (the bounds are
natural numbers). None restricts the network or limits the number of segments: the
network bounds `NetCap`, `NetTotal` and the write bound `MaxWrite` are arbitrary numbers.

The argument. `InOrderDelivery` is far from inductive: that the next message read is the
right one depends on what is in `rcvQueue`, that on `rcvBuf`, that on datagrams which may
have travelled for ever, and that on what was once in `sndBuf`. `IInv` states the whole
chain:

* `SendSide(n)`: `sndBuf` holds exactly the numbers from `sndUna` to `sndNxt - 1`, each
  with its own payload unless acked, `sndQueue` the payloads after them. Without it a
  segment could be sent under a number that was used for another payload.
* `ReceiveSide(n)`: `read` followed by `rcvQueue` is the payloads 1 to `rcvNxt`;
  `rcvBuf` is sorted, lies above and carries its own payloads; everything in `ackList`
  was received; and `sndUna` of the peer, `rcvNxt`, `sndNxt` of the peer are in order.
  Without the part on `ackList` an ack could free data that was dropped.
* `Transit`: what a datagram says stays true while it travels: its una is at most the
  sender's present `rcvNxt`, what it acks has been received, its segments carry their
  payloads. All three are monotone, which is why delays and duplicates are harmless.
* `Windows`: for every upper bound of the receive windows, no advertised window exceeds
  it and `sndNxt` stays within it above the peer's `rcvNxt`. The bound is quantified
  because the set of windows need not be finite.

`Init` implies `IInv`; each action preserves it (one lemma per action; `Write`, `Update`
and `InputEnd` share the lemma on `Flush`, `Read` and `InputPush` the one on
`MoveReady`); `IInv` implies each property. Two lemmas are about the slice alone:
`InsertProps` (search and insertion keep a sorted `rcvBuf` sorted, and add the segment
unless one of its number is there) and `ReadySegments` (what follows `rcvNxt` without a gap
comes first in it, so the transfer loop stops only where the next segment is missing or has
no room). TLC checks `IInv` too (`RUDP_oneway`).

`RetransmitProofs` proves, for all settings, round trips, numbers of segments and times:

| Theorem | States |
|---|---|
| `Typing` | `Spec => []TypeOK` |
| `RtoBound` | `Spec => []RtoFollowsRtt` |
| `Cause` | `Spec => CausedResend` |
| `OnTime` | `Spec => []ResendOnTime` |

Assumptions: `RtoAssumption` (the order of the four RTO constants), `ModeAssumption`
(intervals are positive, as `NoDelay` makes them; `fastResend` is within `FastCap`),
`BoundAssumption`. `TypeOK` there is more than types and is inductive by itself: `srtt` and
`rttVal` stay within the longest round trip because they are averages of samples that do
(`Estimate`, in the integer arithmetic of the code), every timer is at least the least
timeout, and a segment with `fastack > 0` was passed by an ack of a later transmission.
`RtoFollowsRtt` is an invariant relative to it, and `CausedResend` follows step by step:
only `Flush` changes `ts`, and each of its three reasons is a disjunct of the conclusion.
`ResendOnTime` needs what holds between two updates (`Scheduled`): the next one is due
within an interval of some setting after the last, and not after any timer the last one
saw. A segment sent or resent meanwhile, by `Write` or by the flush of an ack, may fall due
earlier; that is the interval `ResendOnTime` allows it.

`RUDPProofs` proves besides, from `IInv` and the same assumptions:

| Theorem | States |
|---|---|
| `Implementation` | `Spec => ImplementsStream`: refinement of `ReliableStream` |
| `Forward` | `Spec => Monotonic` |
| `NoHidden` | `Spec => []NoHiddenSegment` |
| `Bounded` | `Spec => []BoundedReceiver` |

The refinement maps `sent[n]` to the payloads `1..written[n]` and `got[n]` to the sequence
the peer's `Read` has returned. A `Write` of k segments appends a batch of k payloads
(`WriteAccepts`); what a `Read` returns is the payload of the abstract stream that follows
those already delivered (`ReadDelivers`), because `InOrderDelivery` holds of the next state:
a payload skipped, repeated or out of turn would be no step of `ReliableStream`. No other
action changes either stream. The bounds need one more
invariant, `Holding`: for every bound of the windows, `rcvQueue` is no longer than it and
`rcvBuf` lies below it above `rcvNxt`, and the next segment in order waits only behind
others. `Read` and `InputPush` alone touch what a receiver holds, and both are one
`Transfer`. `BoundedReceiver` bounds by the largest window the receiver may ever have had,
not by the present one: after the window was lowered the queues keep what was accepted
before. That `rcvBuf` is sorted, and so holds each number once, is part of `IInv`.

The concurrent modules and the congestion window have one inductive invariant each:

| Module | Theorems | Invariant, and why it is needed |
|---|---|---|
| `ListenerProofs` | `NeverBlocks`, `ClosedGone`, `OwnOnly`, `ErrorReaches` | `LInv`: what each place of the monitor knows of its local variables. Without `Room` (the check of `packetInput` stays true, since only `Accept` touches the backlog meanwhile) the send could block; without `Fresh` a session could be closed before it enters the map; without `Stopped` a session could enter after the error was reported |
| `TimedSchedProofs` | `NeverHangs`, `Covered` | `TInv`: the local `allDone` agrees with the timer at every place, so `<-timer.C` is reached only with a value in the channel |
| `TimedSchedProofs` | `Once` | `PlaceInv`: each list holds a task once (`Distinct`), no two places hold it, and some place does once it was put (`PlaceOf`). It needs that the shared slice is empty while `prepend` waits, and that no goroutine sets its timer for a negative time (`Timely`). `TaskOnce` counts occurrences; the cardinalities follow |
| `TxProofs` | `AsMany`, `SentInOrder` | `TxInv`: in the batch loop what is sent and what is left make up the queue; in the fallback as many are left as are still to send, although they are the wrong ones (finding 2); before it the counters are the counts of what `WriteBatch` took |
| `MessageProofs` | `InOrder`, `Borders`, `Fits` | `MInv`, below |
| `CongestionProofs` | `WindowBounded`, `IncrFollows` | `CInv`: the bound holds for some value `fastResend` may take, `cwnd` and `incr` lie less than an `mss` apart. The wrap of `cwnd + 0xffffffff` is part of the arithmetic |
| `SessionProofs` | `Woken` | `Tokened`: with one reader, a reader that waits while there is data has the token. With two it is false (section 4) |

Assumptions: a backlog of at least 1; at least one goroutine, and deadlines before
`Horizon`; for `Congestion` a positive `mss`, thresholds and window, and a word with room for
twice the largest window in bytes, as 32 bits have for 65535 segments of 1500 bytes;
for `Session` positive lengths, and in `Woken` a single reader; for `Message` that the least
mtu exceeds the headers, and that `Sizes` has no empty buffer, which `Send` refuses.
`TxProofs` assumes nothing.

`MInv` looks at `OnTheWay`, the segments from `rcvQueue` over `sndBuf` to `sndQueue` in a
row, and so at a list that `Flush`, `Arrive` and `Acked` leave as it is, `Send` extends at
one end and `Receive` cuts at the other:

* `Chain`: they hold the bytes from `read` to `written`, in order and without a gap.
* `Numbered`: a segment with number `frg` is followed by the `frg` others of its message.
  Hence the first `frg + 1` segments of `rcvQueue`, which `peekSize` counts, are those up to
  the first number 0, at which `Receive` stops (`FirstProps`); the sum `peekSize` returns is
  the distance between their ends (`PeekProps`).
* `Whole`: for each message sent out of stream mode, some segment with number 0 ends where
  it begins, unless that end was read, and none ends inside. `WholeMessages` alone speaks of
  results of `Receive` only, and would not survive a step.
* `Fitting`: no segment that waits is longer than `mss`, unless `SetMtu` lowered it. With
  `Encode` the position never passes `mtu` then, whatever is due (`PackedProps`).

The lemmas that carry it are about operators: `Fragments` makes a numbered chain of pieces
no longer than `mss` (`FragmentsProps`, over the integer division in `Count`), filling the last segment
moves the end of a chain (`ChainGrown`), chains join and can be cut.

Induction. The library's induction theorems take an operator as a parameter and cannot be
cited. What is defined by recursion (the sum of lengths in `Tx`, the size in
`PeekSize`, the buffer in `Packed`) is a recursive function in the model, and the
proofs use a least counterexample: every nonempty set of numbers has a least element
(`LeastNat`, from `NatLessThanWellFounded` and `WFMin`), so the set of places where two
functions differ, or where no function exists, is empty.

Only model-checked:

* Liveness, since fairness and `ENABLED` are beyond the prover: all properties of
  `RUDP_live`, those of `Session` but `ReadWoken`, `QueueMoves`,
  `AllRead`, `CloseEndsMonitor`, `EventuallyExecuted`.

Every other property of the passing runs, invariants and action properties alike, is proved.

## 6. Not modelled

* The wrap of 32-bit sequence numbers and of the millisecond clock: `RUDP` counts without
  bound, and its proofs use the order of the numbers.
* `xmit`, `deadLink` and `state`: nothing reads `state`. The probe timer's back-off, of
  which `RUDP` keeps only whether the timer runs.
* A change of `mss` under congestion control (`incr` is in bytes of the old one), and of
  the windows in `Message`.
* The client read loop's filter on the source address, several sessions on one connection,
  and what becomes of a session's segments after its `Close` (`ReleaseTX`, counted only in
  `Session`).
* Malformed datagrams, which `Input` refuses half-way: the network of `RUDP` loses and
  repeats datagrams but does not change them.
* Encryption and FEC (no code), socket options and SNMP formatting (no state), examples.

## 7. Plan

Of the plan's models, the probe (`RUDPLive`), fragments (`Message`) and retransmission
(`Retransmit`) are built. What is left:

1. `SeqWrap`: the comparisons of `Input` modulo a small word.
2. Compositions: `Listener` with two conversations of `RUDP` (a late datagram of a
   finished conversation makes a new session); two client sessions on one connection.

Theorems:

1. `Session` with several readers and writers: what the token does guarantee, as an invariant
   that `ReadReturns` and `WriteReturns` rest on.
2. The safety half of liveness: in `RUDP`, that a sender whose window is closed has
   its probe timer running after each flush; in `TimedSched`, that a notification is pending
   or `prepend` is awake while `prependTasks` is not empty.
