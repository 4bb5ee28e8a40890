----------------------------- MODULE TimedSched -----------------------------
(***************************************************************************)
(* The timer service of timesched.go: Put hands a task to the prepend      *)
(* goroutine through a slice and a one-place notification channel, prepend *)
(* passes it to one of the sched goroutines over an unbuffered channel,    *)
(* and sched keeps it in a heap until its timer says it is due.            *)
(*                                                                         *)
(* A goroutine's step runs from one channel or lock operation to the next. *)
(* A task is named by its function; what the function does is left out (a  *)
(* session's update puts its successor, here just another task).  A timer  *)
(* channel behaves as in Go before 1.23: Stop does not empty it.           *)
(***************************************************************************)
EXTENDS Integers, Sequences, FiniteSets

CONSTANTS
  Worker,     \* the sched goroutines NewTimedSched starts
  Task,       \* calls of Put
  Deadlines,  \* Deadlines[t]: the times task t may be put for
  Horizon     \* bound: the clock stops here, which stands for all later times

ASSUME WorkerAssumption == Worker # {}
ASSUME TimeAssumption ==
  /\ Horizon \in Nat
  /\ Deadlines \in [Task -> SUBSET (0..(Horizon - 1))]

VARIABLES
  clock,         \* time.Now()
  ts,            \* ts[t]: the time task t was put for
  putting,       \* tasks whose Put has left the lock and not yet notified
  prependTasks,  \* the shared slice
  notify,        \* chPrependNotify holds a token
  prepend,       \* where the prepend goroutine is
  tasks,         \* its local copy of the slice
  sched,         \* where each sched goroutine is
  now,           \* its local variable now
  heap,          \* its heap of tasks
  timer,         \* its timer: armed for a time, fired into its channel, or idle
  allDone,       \* its local variable allDone
  executed,      \* history: the tasks executed, in order
  die            \* the die channel is closed

putVars    == <<ts, putting, prependTasks, notify>>
workerVars == <<sched, now, heap, timer, allDone, executed>>
vars == <<clock, putVars, prepend, tasks, workerVars, die>>

None == -1
Timer == [state : {"idle", "armed", "fired"}, at : Nat]
Idle == [state |-> "idle", at |-> 0]

Elements(s) == {s[i] : i \in 1..Len(s)}
Top(h) == CHOOSE t \in h : \A u \in h : ts[t] <= ts[u]   \* tasks[0]

\* timer.Reset(tasks[0].ts.Sub(n)) at this moment.
Reset(h, n) == [state |-> "armed", at |-> clock + ts[Top(h)] - n]

Init ==
  /\ clock = 0
  /\ ts = [t \in Task |-> None]
  /\ putting = {} /\ prependTasks = <<>> /\ notify = FALSE
  /\ prepend = "select" /\ tasks = <<>>
  /\ sched = [w \in Worker |-> "select"]
  /\ now = [w \in Worker |-> 0]
  /\ heap = [w \in Worker |-> {}]
  /\ timer = [w \in Worker |-> [state |-> "armed", at |-> 0]]  \* NewTimer(0)
  /\ allDone = [w \in Worker |-> FALSE]
  /\ executed = <<>>
  /\ die = FALSE
-----------------------------------------------------------------------------
\* Put, under prependLock.
PutAppend(t) ==
  /\ ts[t] = None
  /\ \E d \in Deadlines[t] : ts' = [ts EXCEPT ![t] = d]
  /\ prependTasks' = Append(prependTasks, t)
  /\ putting' = putting \cup {t}
  /\ UNCHANGED <<clock, notify, prepend, tasks, workerVars, die>>

\* Put, the send that does not block.
PutNotify(t) ==
  /\ t \in putting
  /\ putting' = putting \ {t}
  /\ notify' = TRUE
  /\ UNCHANGED <<clock, ts, prependTasks, prepend, tasks, workerVars, die>>
-----------------------------------------------------------------------------
\* prepend takes the token.
PrependWake ==
  /\ prepend = "select" /\ notify
  /\ notify' = FALSE
  /\ prepend' = "copy"
  /\ UNCHANGED <<clock, ts, putting, prependTasks, tasks, workerVars, die>>

\* Mutants of PrependCopy: the slice is not emptied; one task is taken per token.
PrependCopyKeep ==
  /\ prepend = "copy"
  /\ tasks' = prependTasks
  /\ prepend' = "send"
  /\ UNCHANGED <<clock, putVars, workerVars, die>>
PrependCopyOne ==
  /\ prepend = "copy"
  /\ tasks' = SubSeq(prependTasks, 1, 1)
  /\ prependTasks' = SubSeq(prependTasks, 2, Len(prependTasks))
  /\ prepend' = "send"
  /\ UNCHANGED <<clock, ts, putting, notify, workerVars, die>>

\* It copies the slice under prependLock and empties it.
PrependCopy ==
  /\ prepend = "copy"
  /\ tasks' = prependTasks
  /\ prependTasks' = <<>>
  /\ prepend' = "send"
  /\ UNCHANGED <<clock, ts, putting, notify, workerVars, die>>

PrependDone ==
  /\ prepend = "send" /\ tasks = <<>>
  /\ prepend' = "select"
  /\ UNCHANGED <<clock, putVars, tasks, workerVars, die>>

\* It sees die, in either of its selects.
PrependExit ==
  /\ die /\ (prepend = "select" \/ (prepend = "send" /\ tasks # <<>>))
  /\ prepend' = "exit"
  /\ UNCHANGED <<clock, putVars, tasks, workerVars, die>>
-----------------------------------------------------------------------------
\* Mutant of Receive: the timer channel is emptied only when allDone is set.
ReceiveDrainIdle(w) ==
  /\ prepend = "send" /\ tasks # <<>> /\ sched[w] = "select"
  /\ tasks' = Tail(tasks)
  /\ now' = [now EXCEPT ![w] = clock]
  /\ \/ /\ clock > ts[Head(tasks)]
        /\ executed' = Append(executed, Head(tasks))
        /\ UNCHANGED <<sched, heap, timer>>
     \/ /\ clock <= ts[Head(tasks)]
        /\ heap' = [heap EXCEPT ![w] = @ \cup {Head(tasks)}]
        /\ timer' = [timer EXCEPT ![w] = IF @.state = "armed" THEN Idle ELSE @]
        /\ sched' = [sched EXCEPT ![w] =
             IF timer[w].state # "armed" /\ allDone[w] THEN "drain" ELSE "reset"]
        /\ UNCHANGED executed
  /\ UNCHANGED <<clock, putVars, prepend, allDone, die>>

\* A sched goroutine receives a task from prepend: one that is overdue is run at
\* once, another goes to the heap and the timer is stopped.  If Stop came too
\* late and the channel was not read since (allDone), it must be emptied first.
Receive(w) ==
  /\ prepend = "send" /\ tasks # <<>> /\ sched[w] = "select"
  /\ tasks' = Tail(tasks)
  /\ now' = [now EXCEPT ![w] = clock]
  /\ \/ /\ clock > ts[Head(tasks)]
        /\ executed' = Append(executed, Head(tasks))
        /\ UNCHANGED <<sched, heap, timer>>
     \/ /\ clock <= ts[Head(tasks)]
        /\ heap' = [heap EXCEPT ![w] = @ \cup {Head(tasks)}]
        /\ timer' = [timer EXCEPT ![w] = IF @.state = "armed" THEN Idle ELSE @]
        /\ sched' = [sched EXCEPT ![w] =
             IF timer[w].state # "armed" /\ ~allDone[w] THEN "drain" ELSE "reset"]
        /\ UNCHANGED executed
  /\ UNCHANGED <<clock, putVars, prepend, allDone, die>>

\* <-timer.C: blocks until there is something in the channel.
Drain(w) ==
  /\ sched[w] = "drain" /\ timer[w].state = "fired"
  /\ timer' = [timer EXCEPT ![w] = Idle]
  /\ sched' = [sched EXCEPT ![w] = "reset"]
  /\ UNCHANGED <<clock, putVars, prepend, tasks, now, heap, allDone, executed, die>>

ResetTimer(w) ==
  /\ sched[w] = "reset"
  /\ timer' = [timer EXCEPT ![w] = Reset(heap[w], now[w])]
  /\ allDone' = [allDone EXCEPT ![w] = FALSE]
  /\ sched' = [sched EXCEPT ![w] = "select"]
  /\ UNCHANGED <<clock, putVars, prepend, tasks, now, heap, executed, die>>

\* The timer's value is received.
Expire(w) ==
  /\ sched[w] = "select" /\ timer[w].state = "fired"
  /\ now' = [now EXCEPT ![w] = timer[w].at]
  /\ timer' = [timer EXCEPT ![w] = Idle]
  /\ allDone' = [allDone EXCEPT ![w] = TRUE]
  /\ sched' = [sched EXCEPT ![w] = "loop"]
  /\ UNCHANGED <<clock, putVars, prepend, tasks, heap, executed, die>>

\* Mutant of Loop: the timer is not set again for the tasks that remain.
LoopNoReset(w) ==
  /\ sched[w] = "loop"
  /\ \/ /\ heap[w] # {} /\ now[w] > ts[Top(heap[w])]
        /\ heap' = [heap EXCEPT ![w] = @ \ {Top(heap[w])}]
        /\ executed' = Append(executed, Top(heap[w]))
        /\ UNCHANGED sched
     \/ /\ heap[w] # {} => now[w] <= ts[Top(heap[w])]
        /\ sched' = [sched EXCEPT ![w] = "select"]
        /\ UNCHANGED <<heap, executed>>
  /\ UNCHANGED <<clock, putVars, prepend, tasks, now, timer, allDone, die>>

\* The loop over the heap: a task that is due is popped and executed, the first
\* that is not sets the timer again.
Loop(w) ==
  /\ sched[w] = "loop"
  /\ \/ /\ heap[w] # {} /\ now[w] > ts[Top(heap[w])]
        /\ heap' = [heap EXCEPT ![w] = @ \ {Top(heap[w])}]
        /\ executed' = Append(executed, Top(heap[w]))
        /\ UNCHANGED <<sched, timer, allDone>>
     \/ /\ heap[w] # {} /\ now[w] <= ts[Top(heap[w])]
        /\ timer' = [timer EXCEPT ![w] = Reset(heap[w], now[w])]
        /\ allDone' = [allDone EXCEPT ![w] = FALSE]
        /\ sched' = [sched EXCEPT ![w] = "select"]
        /\ UNCHANGED <<heap, executed>>
     \/ /\ heap[w] = {}
        /\ sched' = [sched EXCEPT ![w] = "select"]
        /\ UNCHANGED <<heap, executed, timer, allDone>>
  /\ UNCHANGED <<clock, putVars, prepend, tasks, now, die>>

SchedExit(w) ==
  /\ die /\ sched[w] = "select"
  /\ sched' = [sched EXCEPT ![w] = "exit"]
  /\ UNCHANGED <<clock, putVars, prepend, tasks, now, heap, timer, allDone, executed, die>>
-----------------------------------------------------------------------------
\* The runtime: time passes, and a timer whose time has come sends the time.
Tick ==
  /\ clock < Horizon
  /\ clock' = clock + 1
  /\ UNCHANGED <<putVars, prepend, tasks, workerVars, die>>

Fire(w) ==
  /\ timer[w].state = "armed" /\ (clock >= timer[w].at \/ clock = Horizon)
  /\ timer' = [timer EXCEPT ![w] = [state |-> "fired", at |-> clock]]
  /\ UNCHANGED <<clock, putVars, prepend, tasks, sched, now, heap, allDone, executed, die>>

Close ==
  /\ ~die
  /\ die' = TRUE
  /\ UNCHANGED <<clock, putVars, prepend, tasks, workerVars>>
-----------------------------------------------------------------------------
Prepend == PrependWake \/ PrependCopy \/ PrependDone \/ PrependExit
Sched(w) ==
  Receive(w) \/ Drain(w) \/ ResetTimer(w) \/ Expire(w) \/ Loop(w) \/ SchedExit(w)

Next ==
  \/ \E t \in Task : PutAppend(t) \/ PutNotify(t)
  \/ Prepend
  \/ \E w \in Worker : Sched(w) \/ Fire(w)
  \/ Tick
  \/ Close

\* Goroutines that can run do, and time goes on; nobody has to call Put or Close.
Fairness ==
  /\ \A t \in Task : WF_vars(PutNotify(t))
  /\ WF_vars(Prepend)
  /\ \A w \in Worker : WF_vars(Sched(w)) /\ SF_vars(Expire(w)) /\ WF_vars(Fire(w))
  /\ WF_vars(Tick)

Spec == Init /\ [][Next]_vars /\ Fairness
-----------------------------------------------------------------------------
(* Properties                                                              *)

\* The local variables of the goroutines keep their types; a timer is never armed
\* for a negative time, although its delay is measured from a stale now.
TypeOK ==
  /\ clock \in 0..Horizon
  /\ ts \in [Task -> (UNION {Deadlines[t] : t \in Task}) \cup {None}]
  /\ putting \subseteq Task /\ prependTasks \in Seq(Task) /\ notify \in BOOLEAN
  /\ prepend \in {"select", "copy", "send", "exit"} /\ tasks \in Seq(Task)
  /\ sched \in [Worker -> {"select", "drain", "reset", "loop", "exit"}]
  /\ now \in [Worker -> Nat] /\ heap \in [Worker -> SUBSET Task]
  /\ timer \in [Worker -> Timer] /\ allDone \in [Worker -> BOOLEAN]
  /\ executed \in Seq(Task) /\ die \in BOOLEAN

\* Emptying the timer channel (<-timer.C after a late Stop) never hangs the
\* goroutine: when it is tried the channel holds a value.
DrainNeverHangs == \A w \in Worker : sched[w] = "drain" => timer[w].state = "fired"

\* A goroutine that waits with tasks in its heap has its timer running or fired:
\* no task is ever left to sleep.
TimerCovers ==
  \A w \in Worker : sched[w] = "select" /\ heap[w] # {} => timer[w].state # "idle"

\* The state is typed, and a task put is in exactly one place, and executed at
\* most once.
TaskOnce == TypeOK /\
  \A t \in Task : ts[t] # None =>
    Cardinality({i \in 1..Len(prependTasks) : prependTasks[i] = t})
      + Cardinality({i \in 1..Len(tasks) : tasks[i] = t})
      + Cardinality({w \in Worker : t \in heap[w]})
      + Cardinality({i \in 1..Len(executed) : executed[i] = t}) = 1

\* Unless the scheduler is closed, every task put is executed: no notification is
\* lost between Put and prepend, and no timer between sched and its heap.
EventuallyExecuted ==
  \A t \in Task : ts[t] # None ~> (die \/ t \in Elements(executed))
=============================================================================
