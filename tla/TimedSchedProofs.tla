-------------------------- MODULE TimedSchedProofs --------------------------
(***************************************************************************)
(* The discipline of the timer in sched of timesched.go, for every number  *)
(* of goroutines and tasks and every set of deadlines.                     *)
(***************************************************************************)
EXTENDS TimedSched, FiniteSetTheorems, WellFoundedInduction, TLAPS

\* What sched knows of its timer at each place.  The local allDone is TRUE only
\* when nothing can be in the channel, and the timer is idle only when it is TRUE.
TimerKnown(w) ==
  /\ timer[w].state \in {"idle", "armed", "fired"}
  /\ sched[w] = "drain" => timer[w].state = "fired"
  /\ sched[w] = "select" /\ timer[w].state = "idle" => allDone[w] /\ heap[w] = {}
  /\ sched[w] \in {"drain", "reset"} => heap[w] # {}
  /\ sched[w] = "loop" => allDone[w] /\ timer[w].state = "idle"
  /\ sched[w] = "select" /\ allDone[w] => timer[w].state = "idle"

\* The variables of the goroutines are indexed by Worker.
Indexed ==
  /\ sched = [w \in Worker |-> sched[w]] /\ heap = [w \in Worker |-> heap[w]]
  /\ timer = [w \in Worker |-> timer[w]] /\ allDone \in [Worker -> BOOLEAN]

TInv == Indexed /\ \A w \in Worker : TimerKnown(w)

-----------------------------------------------------------------------------
\* A goroutine starts with its timer about to fire.
LEMMA TInit == Init => TInv
BY DEF Init, TInv, Indexed, TimerKnown

\* Nothing changes for the goroutines.
LEMMA QuietStep ==
  ASSUME TInv, UNCHANGED <<sched, heap, timer, allDone>>
  PROVE  TInv'
BY DEF TInv, Indexed, TimerKnown

\* A step of one goroutine, or of its timer, that leaves what it knows true.
LEMMA WorkerStep ==
  ASSUME TInv, NEW w \in Worker, NEW pc, NEW h, NEW t, NEW done \in BOOLEAN,
         sched' = [sched EXCEPT ![w] = pc], heap' = [heap EXCEPT ![w] = h],
         timer' = [timer EXCEPT ![w] = t], allDone' = [allDone EXCEPT ![w] = done],
         t.state \in {"idle", "armed", "fired"},
         pc = "drain" => t.state = "fired",
         pc = "select" /\ t.state = "idle" => done /\ h = {},
         pc \in {"drain", "reset"} => h # {},
         pc = "loop" => done /\ t.state = "idle",
         pc = "select" /\ done => t.state = "idle"
  PROVE  TInv'
<1>1. Indexed
  BY DEF TInv
<1>2. Indexed'
  BY <1>1 DEF Indexed
<1>3. ASSUME NEW v \in Worker PROVE TimerKnown(v)'
  <2>1. CASE v = w
    <3>1. sched'[v] = pc /\ heap'[v] = h /\ timer'[v] = t /\ allDone'[v] = done
      BY <1>1, <2>1 DEF Indexed
    <3>2. QED
      BY <3>1 DEF TimerKnown
  <2>2. CASE v # w
    <3>1. /\ sched'[v] = sched[v] /\ heap'[v] = heap[v] /\ timer'[v] = timer[v]
          /\ allDone'[v] = allDone[v] /\ TimerKnown(v)
      BY <1>1, <2>2 DEF Indexed, TInv
    <3>2. QED
      BY <3>1 DEF TimerKnown
  <2>3. QED
    BY <2>1, <2>2
<1>4. QED
  BY <1>2, <1>3 DEF TInv

\* Every step keeps what the goroutines know of their timers.
LEMMA TNext == TInv /\ [Next]_vars => TInv'
<1> SUFFICES ASSUME TInv, [Next]_vars PROVE TInv'
  OBVIOUS
<1>1. /\ Indexed /\ \A w \in Worker : TimerKnown(w) /\ allDone[w] \in BOOLEAN
      /\ \A w \in Worker : /\ sched = [sched EXCEPT ![w] = sched[w]]
                           /\ heap = [heap EXCEPT ![w] = heap[w]]
                           /\ timer = [timer EXCEPT ![w] = timer[w]]
                           /\ allDone = [allDone EXCEPT ![w] = allDone[w]]
  BY DEF TInv, Indexed
<1>2. ASSUME NEW w \in Worker, Receive(w) PROVE TInv'
  <2>1. /\ sched[w] = "select" /\ allDone' = allDone /\ TimerKnown(w)
    BY <1>1, <1>2 DEF Receive
  <2>2. CASE UNCHANGED <<sched, heap, timer>>
    BY <2>1, <2>2, QuietStep
  <2>3. CASE /\ heap' = [heap EXCEPT ![w] = @ \cup {Head(tasks)}]
             /\ timer' = [timer EXCEPT ![w] = IF @.state = "armed" THEN Idle ELSE @]
             /\ sched' = [sched EXCEPT ![w] =
                  IF timer[w].state # "armed" /\ ~allDone[w] THEN "drain" ELSE "reset"]
    <3> DEFINE t == IF timer[w].state = "armed" THEN Idle ELSE timer[w]
               pc == IF timer[w].state # "armed" /\ ~allDone[w] THEN "drain" ELSE "reset"
    <3>1. t.state \in {"idle", "armed", "fired"} /\ (pc = "drain" => t.state = "fired")
      BY <2>1 DEF TimerKnown, Idle
    <3>2. /\ sched' = [sched EXCEPT ![w] = pc]
          /\ heap' = [heap EXCEPT ![w] = heap[w] \cup {Head(tasks)}]
          /\ timer' = [timer EXCEPT ![w] = t] /\ allDone' = [allDone EXCEPT ![w] = allDone[w]]
          /\ heap[w] \cup {Head(tasks)} # {} /\ pc \in {"drain", "reset"}
      BY <1>1, <2>1, <2>3
    <3> HIDE DEF t, pc
    <3>3. QED
      BY <1>1, <3>1, <3>2, WorkerStep
  <2>4. QED
    BY <1>2, <2>2, <2>3 DEF Receive
<1>3. ASSUME NEW w \in Worker, Drain(w) PROVE TInv'
  <2>1. /\ sched' = [sched EXCEPT ![w] = "reset"] /\ timer' = [timer EXCEPT ![w] = Idle]
        /\ heap' = [heap EXCEPT ![w] = heap[w]] /\ allDone' = [allDone EXCEPT ![w] = allDone[w]]
        /\ heap[w] # {}
    BY <1>1, <1>3 DEF Drain, TimerKnown
  <2>2. Idle.state = "idle"
    BY DEF Idle
  <2>3. QED
    BY <1>1, <2>1, <2>2, WorkerStep
<1>4. ASSUME NEW w \in Worker, ResetTimer(w) PROVE TInv'
  <2>1. /\ sched' = [sched EXCEPT ![w] = "select"]
        /\ timer' = [timer EXCEPT ![w] = Reset(heap[w], now[w])]
        /\ heap' = [heap EXCEPT ![w] = heap[w]] /\ allDone' = [allDone EXCEPT ![w] = FALSE]
    BY <1>1, <1>4 DEF ResetTimer
  <2>2. Reset(heap[w], now[w]).state = "armed"
    BY DEF Reset
  <2>3. QED
    BY <2>1, <2>2, WorkerStep
<1>5. ASSUME NEW w \in Worker, Expire(w) PROVE TInv'
  <2>1. /\ sched' = [sched EXCEPT ![w] = "loop"] /\ timer' = [timer EXCEPT ![w] = Idle]
        /\ heap' = [heap EXCEPT ![w] = heap[w]] /\ allDone' = [allDone EXCEPT ![w] = TRUE]
    BY <1>1, <1>5 DEF Expire
  <2>2. Idle.state = "idle"
    BY DEF Idle
  <2>3. QED
    BY <2>1, <2>2, WorkerStep
<1>6. ASSUME NEW w \in Worker, Loop(w) PROVE TInv'
  <2>1. /\ sched[w] = "loop" /\ allDone[w] /\ timer[w].state = "idle" /\ TimerKnown(w)
    BY <1>1, <1>6 DEF Loop, TimerKnown
  <2>2. CASE /\ heap' = [heap EXCEPT ![w] = @ \ {Top(heap[w])}]
             /\ UNCHANGED <<sched, timer, allDone>>
    <3>1. /\ sched' = [sched EXCEPT ![w] = "loop"]
          /\ heap' = [heap EXCEPT ![w] = heap[w] \ {Top(heap[w])}]
          /\ timer' = [timer EXCEPT ![w] = timer[w]] /\ allDone' = [allDone EXCEPT ![w] = TRUE]
      BY <1>1, <2>1, <2>2
    <3>2. QED
      BY <2>1, <3>1, WorkerStep
  <2>3. CASE /\ timer' = [timer EXCEPT ![w] = Reset(heap[w], now[w])]
             /\ allDone' = [allDone EXCEPT ![w] = FALSE]
             /\ sched' = [sched EXCEPT ![w] = "select"]
             /\ UNCHANGED heap
    <3>1. Reset(heap[w], now[w]).state = "armed"
      BY DEF Reset
    <3>2. heap' = [heap EXCEPT ![w] = heap[w]]
      BY <1>1, <2>3
    <3>3. QED
      BY <2>3, <3>1, <3>2, WorkerStep
  <2>4. CASE /\ heap[w] = {} /\ sched' = [sched EXCEPT ![w] = "select"]
             /\ UNCHANGED <<heap, timer, allDone>>
    <3>1. /\ heap' = [heap EXCEPT ![w] = heap[w]] /\ timer' = [timer EXCEPT ![w] = timer[w]]
          /\ allDone' = [allDone EXCEPT ![w] = TRUE] /\ heap[w] = {}
      BY <1>1, <2>1, <2>4
    <3>2. QED
      BY <2>1, <2>4, <3>1, WorkerStep
  <2>5. QED
    BY <1>6, <2>2, <2>3, <2>4 DEF Loop
<1>7. ASSUME NEW w \in Worker, SchedExit(w) PROVE TInv'
  <2>1. /\ sched' = [sched EXCEPT ![w] = "exit"] /\ timer' = [timer EXCEPT ![w] = timer[w]]
        /\ heap' = [heap EXCEPT ![w] = heap[w]] /\ allDone' = [allDone EXCEPT ![w] = allDone[w]]
        /\ timer[w].state \in {"idle", "armed", "fired"}
    BY <1>1, <1>7 DEF SchedExit, TimerKnown
  <2>2. QED
    BY <1>1, <2>1, WorkerStep
<1>8. ASSUME NEW w \in Worker, Fire(w) PROVE TInv'
  <2> DEFINE t == [state |-> "fired", at |-> clock]
  <2>1. /\ timer[w].state = "armed" /\ timer' = [timer EXCEPT ![w] = t]
        /\ sched' = [sched EXCEPT ![w] = sched[w]] /\ heap' = [heap EXCEPT ![w] = heap[w]]
        /\ allDone' = [allDone EXCEPT ![w] = allDone[w]] /\ TimerKnown(w)
    BY <1>1, <1>8 DEF Fire
  <2>2. t.state = "fired"
    OBVIOUS
  <2> HIDE DEF t
  <2>3. QED
    BY <1>1, <2>1, <2>2, WorkerStep DEF TimerKnown
<1>9. ASSUME \/ \E t \in Task : PutAppend(t) \/ PutNotify(t)
             \/ Prepend \/ Tick \/ Close \/ UNCHANGED vars
      PROVE  TInv'
  <2>1. UNCHANGED workerVars
    BY <1>9 DEF PutAppend, PutNotify, Prepend, PrependWake, PrependCopy, PrependDone,
                PrependExit, Tick, Close, vars
  <2>2. QED
    BY <2>1, QuietStep DEF workerVars
<1>10. QED
  BY <1>2, <1>3, <1>4, <1>5, <1>6, <1>7, <1>8, <1>9 DEF Next, Sched

\* What sched knows of its timer, whatever Stop, Reset and the channel did.
THEOREM TimerInvariance == Spec => []TInv
<1>1. QED
  BY TInit, TNext, PTL DEF Spec

\* <-timer.C after a late Stop never blocks sched.
THEOREM NeverHangs == Spec => []DrainNeverHangs
<1>1. TInv => DrainNeverHangs
  BY DEF TInv, TimerKnown, DrainNeverHangs
<1>2. QED
  BY <1>1, TimerInvariance, PTL

\* sched never waits for a timer that is not set while its heap has tasks.
THEOREM Covered == Spec => []TimerCovers
<1>1. TInv => TimerCovers
  BY DEF TInv, TimerKnown, TimerCovers
<1>2. QED
  BY <1>1, TimerInvariance, PTL
-----------------------------------------------------------------------------
(* Times                                                                   *)

\* The numbers in a set have a least one.
LEMMA LeastNat ==
  ASSUME NEW T \in SUBSET Nat, T # {}
  PROVE  \E x \in T : \A y \in T : x <= y
<1>1. IsWellFoundedOn(OpToRel(<, Nat), Nat)
  BY NatLessThanWellFounded
<1>2. PICK x \in T : \A y \in T : <<y, x>> \notin OpToRel(<, Nat)
  BY <1>1, WFMin, Zenon
<1>3. \A y \in T : ~(y < x)
  BY <1>2 DEF OpToRel
<1>4. QED
  BY <1>3

\* No goroutine has a time from the future, and a heap holds tasks that were put:
\* so a timer is never set for a negative time.
Timely ==
  \A w \in Worker : /\ now[w] <= clock
                    /\ timer[w].state = "fired" => timer[w].at <= clock
                    /\ \A t \in heap[w] : ts[t] # None

\* A deadline is a time.
LEMMA PutTimes == TypeOK => \A t \in Task : ts[t] # None => ts[t] \in Nat
<1> SUFFICES ASSUME TypeOK, NEW t \in Task, ts[t] # None PROVE ts[t] \in Nat
  OBVIOUS
<1>1. PICK u \in Task : ts[t] \in Deadlines[u]
  BY DEF TypeOK
<1>2. Deadlines[u] \subseteq 0..(Horizon - 1) /\ Horizon \in Nat
  BY TimeAssumption
<1>3. QED
  BY <1>1, <1>2

\* tasks[0] is a task of the heap, and the first to come due.
LEMMA TopOfHeap ==
  ASSUME TypeOK, NEW h \in SUBSET Task, h # {}, \A t \in h : ts[t] # None
  PROVE  Top(h) \in h /\ ts[Top(h)] \in Nat
<1>1. \A t \in h : ts[t] \in Nat
  BY PutTimes
<1> DEFINE T == {ts[t] : t \in h}
<1>2. PICK x \in T : \A y \in T : x <= y
  BY <1>1, LeastNat
<1>3. PICK t \in h : \A u \in h : ts[t] <= ts[u]
  BY <1>2
<1>4. Top(h) \in h
  BY <1>3, Zenon DEF Top
<1>5. QED
  BY <1>1, <1>4

\* A timer that is set anew.
LEMMA ResetTyped ==
  ASSUME TypeOK, Timely, NEW w \in Worker, heap[w] # {}
  PROVE  Reset(heap[w], now[w]) \in Timer /\ Reset(heap[w], now[w]).state = "armed"
<1>1. /\ clock \in Nat /\ now[w] \in Nat /\ now[w] <= clock /\ heap[w] \in SUBSET Task
      /\ \A t \in heap[w] : ts[t] # None
  BY TimeAssumption DEF TypeOK, Timely
<1>2. ts[Top(heap[w])] \in Nat
  BY <1>1, TopOfHeap
<1>3. clock + ts[Top(heap[w])] - now[w] \in Nat
  BY <1>1, <1>2
<1>4. QED
  BY <1>3 DEF Reset, Timer

\* A step of one goroutine, or of its timer, that leaves the times sound.
LEMMA WorkerTyped ==
  ASSUME TypeOK, Timely, NEW w \in Worker,
         NEW pc \in {"select", "drain", "reset", "loop", "exit"}, NEW n \in Nat, n <= clock,
         NEW h \in SUBSET Task, \A t \in h : ts[t] # None,
         NEW x \in Timer, x.state = "fired" => x.at <= clock, NEW done \in BOOLEAN,
         sched' = [sched EXCEPT ![w] = pc], now' = [now EXCEPT ![w] = n],
         heap' = [heap EXCEPT ![w] = h], timer' = [timer EXCEPT ![w] = x],
         allDone' = [allDone EXCEPT ![w] = done],
         tasks' \in Seq(Task), executed' \in Seq(Task),
         UNCHANGED <<clock, putVars, prepend, die>>
  PROVE  (TypeOK /\ Timely)'
<1>1. UNCHANGED <<clock, ts, putting, prependTasks, notify, prepend, die>>
  BY DEF putVars
<1>2. /\ sched' \in [Worker -> {"select", "drain", "reset", "loop", "exit"}]
      /\ now' \in [Worker -> Nat] /\ heap' \in [Worker -> SUBSET Task]
      /\ timer' \in [Worker -> Timer] /\ allDone' \in [Worker -> BOOLEAN]
  BY DEF TypeOK
<1>3. TypeOK'
  BY <1>1, <1>2 DEF TypeOK
<1>4. ASSUME NEW v \in Worker
      PROVE  /\ now'[v] <= clock
             /\ timer'[v].state = "fired" => timer'[v].at <= clock
             /\ \A t \in heap'[v] : ts[t] # None
  <2>1. CASE v = w
    <3>1. now'[v] = n /\ timer'[v] = x /\ heap'[v] = h
      BY <2>1 DEF TypeOK
    <3>2. QED
      BY <3>1
  <2>2. CASE v # w
    <3>1. now'[v] = now[v] /\ timer'[v] = timer[v] /\ heap'[v] = heap[v]
      BY <2>2 DEF TypeOK
    <3>2. QED
      BY <3>1 DEF Timely
  <2>3. QED
    BY <2>1, <2>2
<1>5. Timely'
  BY <1>1, <1>4 DEF Timely
<1>6. QED
  BY <1>3, <1>5

\* A step that the goroutines take no part in leaves the times sound.
LEMMA QuietTyped ==
  ASSUME TypeOK, Timely, UNCHANGED workerVars,
         clock' \in 0..Horizon, clock <= clock',
         ts' \in [Task -> (UNION {Deadlines[t] : t \in Task}) \cup {None}],
         \A t \in Task : ts[t] # None => ts'[t] # None,
         putting' \subseteq Task, prependTasks' \in Seq(Task), notify' \in BOOLEAN,
         prepend' \in {"select", "copy", "send", "exit"}, tasks' \in Seq(Task),
         die' \in BOOLEAN
  PROVE  (TypeOK /\ Timely)'
<1>1. UNCHANGED <<sched, now, heap, timer, allDone, executed>>
  BY DEF workerVars
<1>2. TypeOK'
  BY <1>1 DEF TypeOK
<1>3. ASSUME NEW w \in Worker
      PROVE  /\ now'[w] <= clock'
             /\ timer'[w].state = "fired" => timer'[w].at <= clock'
             /\ \A t \in heap'[w] : ts'[t] # None
  <2>1. /\ clock \in Nat /\ clock' \in Nat /\ now[w] \in Nat /\ timer[w].at \in Nat
        /\ heap[w] \subseteq Task
    BY TimeAssumption DEF TypeOK, Timer
  <2>2. /\ now[w] <= clock
        /\ timer[w].state = "fired" => timer[w].at <= clock
        /\ \A t \in heap[w] : ts[t] # None
    BY DEF Timely
  <2>3. QED
    BY <1>1, <2>1, <2>2
<1>4. QED
  BY <1>2, <1>3 DEF Timely

\* At the start nobody holds a time and nothing is put.
LEMMA InitTyped == Init => TypeOK /\ Timely
<1> SUFFICES ASSUME Init PROVE TypeOK /\ Timely
  OBVIOUS
<1>1. 0 \in 0..Horizon
  BY TimeAssumption
<1>2. /\ ts \in [Task -> (UNION {Deadlines[t] : t \in Task}) \cup {None}]
      /\ sched \in [Worker -> {"select", "drain", "reset", "loop", "exit"}]
      /\ now \in [Worker -> Nat] /\ heap \in [Worker -> SUBSET Task]
      /\ timer \in [Worker -> Timer] /\ allDone \in [Worker -> BOOLEAN]
  BY DEF Init, Timer
<1>3. <<>> \in Seq(Task)
  OBVIOUS
<1>4. TypeOK
  <2>1. /\ clock = 0 /\ putting = {} /\ prependTasks = <<>> /\ notify = FALSE
        /\ prepend = "select" /\ tasks = <<>> /\ executed = <<>> /\ die = FALSE
    BY DEF Init
  <2>2. QED
    BY <1>1, <1>2, <1>3, <2>1 DEF TypeOK
<1>5. Timely
  BY DEF Init, Timely
<1>6. QED
  BY <1>4, <1>5

\* A task whose time is set was put for that time, or keeps none.
LEMMA PutTyped ==
  ASSUME TypeOK, Timely, NEW t \in Task, PutAppend(t)
  PROVE  (TypeOK /\ Timely)'
<1>1. PICK d \in Deadlines[t] : ts' = [ts EXCEPT ![t] = d]
  BY DEF PutAppend
<1>2. d \in Nat /\ d # None
  BY TimeAssumption DEF None
<1>3. ts' \in [Task -> (UNION {Deadlines[u] : u \in Task}) \cup {None}]
  BY <1>1 DEF TypeOK
<1>4. \A u \in Task : ts[u] # None => ts'[u] # None
  BY <1>1, <1>2 DEF TypeOK
<1>5. /\ UNCHANGED <<clock, notify, prepend, tasks, workerVars, die>>
      /\ prependTasks' \in Seq(Task) /\ putting' \subseteq Task
  BY DEF PutAppend, TypeOK
<1>6. clock \in 0..Horizon /\ clock <= clock /\ Horizon \in Nat
  BY TimeAssumption DEF TypeOK
<1>7. QED
  BY <1>3, <1>4, <1>5, <1>6, QuietTyped DEF TypeOK

\* Put's notification, the prepend goroutine, the clock and Close.
LEMMA OtherTyped ==
  ASSUME TypeOK, Timely,
         (\E t \in Task : PutNotify(t)) \/ Prepend \/ Tick \/ Close \/ UNCHANGED vars
  PROVE  (TypeOK /\ Timely)'
<1>1. clock \in 0..Horizon /\ clock \in Nat /\ Horizon \in Nat
  BY TimeAssumption DEF TypeOK
<1>2. UNCHANGED workerVars /\ UNCHANGED ts
  BY DEF PutNotify, Prepend, PrependWake, PrependCopy, PrependDone, PrependExit,
         Tick, Close, vars, putVars
<1>3. /\ clock' \in 0..Horizon /\ clock <= clock'
  BY <1>1 DEF PutNotify, Prepend, PrependWake, PrependCopy, PrependDone, PrependExit,
              Tick, Close, vars, putVars
<1>4. /\ putting' \subseteq Task /\ prependTasks' \in Seq(Task) /\ notify' \in BOOLEAN
      /\ prepend' \in {"select", "copy", "send", "exit"} /\ tasks' \in Seq(Task)
      /\ die' \in BOOLEAN
  <2>1. CASE \E t \in Task : PutNotify(t)
    BY <2>1 DEF PutNotify, TypeOK
  <2>2. CASE Prepend
    <3>1. CASE PrependWake \/ PrependDone \/ PrependExit
      BY <3>1 DEF PrependWake, PrependDone, PrependExit, TypeOK, putVars
    <3>2. CASE PrependCopy
      BY <3>2 DEF PrependCopy, TypeOK
    <3>3. QED
      BY <2>2, <3>1, <3>2 DEF Prepend
  <2>3. CASE Tick \/ Close \/ UNCHANGED vars
    BY <2>3 DEF Tick, Close, TypeOK, vars, putVars
  <2>4. QED
    BY <2>1, <2>2, <2>3
<1>5. QED
  BY <1>2, <1>3, <1>4, QuietTyped DEF TypeOK

\* A step of a sched goroutine, or of its timer.
LEMMA SchedTyped ==
  ASSUME TypeOK, Timely, TInv, NEW w \in Worker, Sched(w) \/ Fire(w),
         \A t \in Elements(tasks) : ts[t] # None
  PROVE  (TypeOK /\ Timely)'
<1>1. /\ clock \in Nat /\ now[w] \in Nat /\ now[w] <= clock /\ heap[w] \in SUBSET Task
      /\ \A t \in heap[w] : ts[t] # None
      /\ sched[w] \in {"select", "drain", "reset", "loop", "exit"}
      /\ timer[w] \in Timer /\ allDone[w] \in BOOLEAN
      /\ tasks \in Seq(Task) /\ executed \in Seq(Task) /\ Idle \in Timer
  BY TimeAssumption DEF TypeOK, Timely, Timer, Idle
<1>2. /\ timer[w].state = "fired" => timer[w].at <= clock
      /\ Idle.state # "fired" /\ timer[w].at \in Nat
      /\ sched[w] = "reset" => heap[w] # {}
  BY <1>1 DEF Timely, Idle, TInv, TimerKnown, Timer
<1>3. /\ sched = [sched EXCEPT ![w] = sched[w]] /\ heap = [heap EXCEPT ![w] = heap[w]]
      /\ now = [now EXCEPT ![w] = now[w]]
      /\ timer = [timer EXCEPT ![w] = timer[w]]
      /\ allDone = [allDone EXCEPT ![w] = allDone[w]]
  BY DEF TypeOK
<1>4. CASE Receive(w)
  <2>1. /\ tasks # <<>> /\ tasks' = Tail(tasks) /\ now' = [now EXCEPT ![w] = clock]
        /\ UNCHANGED <<clock, putVars, prepend, allDone, die>>
    BY <1>4 DEF Receive
  <2>2. Head(tasks) \in Task /\ Tail(tasks) \in Seq(Task) /\ ts[Head(tasks)] # None
    BY <1>1, <2>1 DEF Elements
  <2>3. CASE executed' = Append(executed, Head(tasks)) /\ UNCHANGED <<sched, heap, timer>>
    <3>1. executed' \in Seq(Task)
      BY <1>1, <2>2, <2>3
    <3>2. /\ sched' = [sched EXCEPT ![w] = sched[w]] /\ heap' = [heap EXCEPT ![w] = heap[w]]
          /\ timer' = [timer EXCEPT ![w] = timer[w]]
          /\ allDone' = [allDone EXCEPT ![w] = allDone[w]] /\ clock <= clock
          /\ tasks' \in Seq(Task)
      BY <1>1, <1>3, <2>1, <2>2, <2>3
    <3>3. QED
      BY <1>1, <1>2, <2>1, <3>1, <3>2, WorkerTyped
  <2>4. CASE /\ heap' = [heap EXCEPT ![w] = @ \cup {Head(tasks)}]
             /\ timer' = [timer EXCEPT ![w] = IF @.state = "armed" THEN Idle ELSE @]
             /\ sched' = [sched EXCEPT ![w] =
                  IF timer[w].state # "armed" /\ ~allDone[w] THEN "drain" ELSE "reset"]
             /\ UNCHANGED executed
    <3> DEFINE x == IF timer[w].state = "armed" THEN Idle ELSE timer[w]
               pc == IF timer[w].state # "armed" /\ ~allDone[w] THEN "drain" ELSE "reset"
               h == heap[w] \cup {Head(tasks)}
    <3>1. /\ x \in Timer /\ pc \in {"select", "drain", "reset", "loop", "exit"}
          /\ h \in SUBSET Task
      BY <1>1, <2>2
    <3>2. x.state = "fired" => x.at <= clock
      BY <1>2
    <3>3. \A t \in h : ts[t] # None
      BY <1>1, <2>2
    <3>4. /\ sched' = [sched EXCEPT ![w] = pc] /\ heap' = [heap EXCEPT ![w] = h]
          /\ timer' = [timer EXCEPT ![w] = x]
      BY <1>3, <2>4
    <3> HIDE DEF x, pc, h
    <3>5. /\ executed' \in Seq(Task) /\ tasks' \in Seq(Task) /\ clock <= clock
          /\ allDone' = [allDone EXCEPT ![w] = allDone[w]]
      BY <1>1, <1>3, <2>1, <2>2, <2>4
    <3>6. QED
      BY <1>1, <2>1, <3>1, <3>2, <3>3, <3>4, <3>5, WorkerTyped
  <2>5. QED
    BY <1>4, <2>3, <2>4 DEF Receive
<1>5. CASE Drain(w)
  <2>1. /\ sched' = [sched EXCEPT ![w] = "reset"] /\ now' = [now EXCEPT ![w] = now[w]]
        /\ heap' = [heap EXCEPT ![w] = heap[w]] /\ timer' = [timer EXCEPT ![w] = Idle]
        /\ allDone' = [allDone EXCEPT ![w] = allDone[w]]
        /\ tasks' \in Seq(Task) /\ executed' \in Seq(Task)
        /\ UNCHANGED <<clock, putVars, prepend, die>>
    BY <1>1, <1>3, <1>5 DEF Drain
  <2>2. QED
    BY <1>1, <1>2, <2>1, WorkerTyped
<1>6. CASE ResetTimer(w)
  <2>1. heap[w] # {}
    BY <1>2, <1>6 DEF ResetTimer
  <2>2. Reset(heap[w], now[w]) \in Timer /\ Reset(heap[w], now[w]).state # "fired"
    BY <2>1, ResetTyped
  <2>3. QED
    BY <1>1, <1>2, <1>3, <1>6, <2>2, WorkerTyped DEF ResetTimer
<1>7. CASE Expire(w)
  BY <1>1, <1>2, <1>3, <1>7, WorkerTyped DEF Expire
<1>8. CASE Loop(w)
  <2>1. CASE /\ heap[w] # {} /\ heap' = [heap EXCEPT ![w] = @ \ {Top(heap[w])}]
             /\ executed' = Append(executed, Top(heap[w]))
             /\ UNCHANGED <<sched, timer, allDone>>
    <3>1. Top(heap[w]) \in Task
      BY <1>1, <2>1, TopOfHeap
    <3>2. executed' \in Seq(Task)
      BY <1>1, <2>1, <3>1
    <3>3. /\ sched' = [sched EXCEPT ![w] = sched[w]] /\ now' = [now EXCEPT ![w] = now[w]]
          /\ heap' = [heap EXCEPT ![w] = heap[w] \ {Top(heap[w])}] /\ timer' = [timer EXCEPT ![w] = timer[w]]
          /\ allDone' = [allDone EXCEPT ![w] = allDone[w]]
          /\ tasks' \in Seq(Task) /\ UNCHANGED <<clock, putVars, prepend, die>>
      BY <1>1, <1>3, <1>8, <2>1 DEF Loop
    <3>4. heap[w] \ {Top(heap[w])} \in SUBSET Task
      BY <1>1
    <3>5. QED
      BY <1>1, <1>2, <3>2, <3>3, <3>4, WorkerTyped
  <2>2. CASE /\ heap[w] # {} /\ timer' = [timer EXCEPT ![w] = Reset(heap[w], now[w])]
             /\ allDone' = [allDone EXCEPT ![w] = FALSE]
             /\ sched' = [sched EXCEPT ![w] = "select"]
             /\ UNCHANGED <<heap, executed>>
    <3>1. Reset(heap[w], now[w]) \in Timer /\ Reset(heap[w], now[w]).state # "fired"
      BY <2>2, ResetTyped
    <3>2. QED
      BY <1>1, <1>2, <1>3, <1>8, <2>2, <3>1, WorkerTyped DEF Loop
  <2>3. CASE /\ heap[w] = {} /\ sched' = [sched EXCEPT ![w] = "select"]
             /\ UNCHANGED <<heap, executed, timer, allDone>>
    <3>1. /\ sched' = [sched EXCEPT ![w] = "select"] /\ now' = [now EXCEPT ![w] = now[w]]
          /\ heap' = [heap EXCEPT ![w] = heap[w]] /\ timer' = [timer EXCEPT ![w] = timer[w]]
          /\ allDone' = [allDone EXCEPT ![w] = allDone[w]]
          /\ tasks' \in Seq(Task) /\ executed' \in Seq(Task)
          /\ UNCHANGED <<clock, putVars, prepend, die>>
      BY <1>1, <1>3, <1>8, <2>3 DEF Loop
    <3>2. QED
      BY <1>1, <1>2, <3>1, WorkerTyped
  <2>4. QED
    BY <1>8, <2>1, <2>2, <2>3 DEF Loop
<1>9. CASE SchedExit(w)
  <2>1. /\ sched' = [sched EXCEPT ![w] = "exit"] /\ now' = [now EXCEPT ![w] = now[w]]
        /\ heap' = [heap EXCEPT ![w] = heap[w]] /\ timer' = [timer EXCEPT ![w] = timer[w]]
        /\ allDone' = [allDone EXCEPT ![w] = allDone[w]]
        /\ tasks' \in Seq(Task) /\ executed' \in Seq(Task)
        /\ UNCHANGED <<clock, putVars, prepend, die>>
    BY <1>1, <1>3, <1>9 DEF SchedExit
  <2>2. QED
    BY <1>1, <1>2, <2>1, WorkerTyped
<1>10. CASE Fire(w)
  <2> DEFINE x == [state |-> "fired", at |-> clock]
  <2>1. x \in Timer /\ x.at <= clock
    BY <1>1 DEF Timer
  <2>2. timer' = [timer EXCEPT ![w] = x]
    BY <1>10 DEF Fire
  <2> HIDE DEF x
  <2>3. QED
    <3>1. /\ sched' = [sched EXCEPT ![w] = sched[w]] /\ now' = [now EXCEPT ![w] = now[w]]
          /\ heap' = [heap EXCEPT ![w] = heap[w]] /\ timer' = [timer EXCEPT ![w] = x]
          /\ allDone' = [allDone EXCEPT ![w] = allDone[w]]
          /\ tasks' \in Seq(Task) /\ executed' \in Seq(Task)
          /\ UNCHANGED <<clock, putVars, prepend, die>>
      BY <1>1, <1>3, <1>10, <2>2 DEF Fire
    <3>2. QED
      BY <1>1, <1>2, <2>1, <3>1, WorkerTyped
<1>11. QED
  BY <1>4, <1>5, <1>6, <1>7, <1>8, <1>9, <1>10 DEF Sched
-----------------------------------------------------------------------------
(* Places                                                                  *)

\* No task is twice in a list.
Distinct(s) == \A i, j \in 1..Len(s) : s[i] = s[j] => i = j

\* A task is in one place, and in one exactly when it was put: the shared slice,
\* prepend's copy, the heap of one goroutine, or the past.
PlaceOf(t) ==
  /\ ts[t] # None <=> \/ t \in Elements(prependTasks) \/ t \in Elements(tasks)
                      \/ t \in Elements(executed) \/ \E w \in Worker : t \in heap[w]
  /\ ~(t \in Elements(prependTasks) /\ t \in Elements(tasks))
  /\ ~(t \in Elements(prependTasks) /\ t \in Elements(executed))
  /\ ~(t \in Elements(tasks) /\ t \in Elements(executed))
  /\ \A w \in Worker : t \in heap[w] =>
       /\ t \notin Elements(prependTasks) /\ t \notin Elements(tasks)
       /\ t \notin Elements(executed)
       /\ \A v \in Worker : t \in heap[v] => v = w

\* The lists hold a task once; prepend's copy is empty until it takes the slice.
OnePlace ==
  /\ Distinct(prependTasks) /\ Distinct(tasks) /\ Distinct(executed)
  /\ prepend \in {"select", "copy"} => tasks = <<>>
  /\ \A t \in Task : PlaceOf(t)

\* A task added to the end of a list.
LEMMA AppendElements ==
  ASSUME NEW s \in Seq(Task), NEW t \in Task
  PROVE  /\ Elements(Append(s, t)) = Elements(s) \cup {t}
         /\ Distinct(s) /\ t \notin Elements(s) => Distinct(Append(s, t))
<1> DEFINE r == Append(s, t)
<1>1. /\ Len(s) \in Nat /\ Len(r) = Len(s) + 1 /\ r[Len(s) + 1] = t
      /\ \A i \in 1..Len(s) : r[i] = s[i]
  OBVIOUS
<1> HIDE DEF r
<1>2. \A i \in 1..Len(r) : i \in 1..Len(s) \/ i = Len(s) + 1
  BY <1>1
<1>3. 1..Len(s) \subseteq 1..Len(r) /\ Len(s) + 1 \in 1..Len(r)
  BY <1>1
<1>4. Elements(r) = Elements(s) \cup {t}
  BY <1>1, <1>2, <1>3 DEF Elements
<1>5. ASSUME Distinct(s), t \notin Elements(s) PROVE Distinct(r)
  BY <1>1, <1>2, <1>5 DEF Distinct, Elements
<1>6. QED
  BY <1>4, <1>5 DEF r

\* A task taken from the front of a list.
LEMMA TailElements ==
  ASSUME NEW s \in Seq(Task), s # <<>>, Distinct(s)
  PROVE  /\ Head(s) \in Elements(s) /\ Head(s) \in Task
         /\ Elements(Tail(s)) = Elements(s) \ {Head(s)}
         /\ Distinct(Tail(s))
<1> DEFINE r == Tail(s)
<1>1. /\ Len(s) \in Nat /\ Len(s) > 0 /\ Head(s) = s[1] /\ Head(s) \in Task
      /\ Len(r) = Len(s) - 1 /\ \A i \in 1..Len(r) : r[i] = s[i + 1]
  OBVIOUS
<1> HIDE DEF r
<1>2. /\ 1 \in 1..Len(s) /\ \A i \in 1..Len(r) : i + 1 \in 1..Len(s) /\ i + 1 # 1
      /\ \A j \in 1..Len(s) : j = 1 \/ (j - 1 \in 1..Len(r) /\ (j - 1) + 1 = j)
  BY <1>1
<1>3. \A i \in 1..Len(r) : s[i + 1] # s[1]
  BY <1>2 DEF Distinct
<1>4. Elements(r) \subseteq Elements(s) \ {Head(s)}
  BY <1>1, <1>2, <1>3 DEF Elements
<1>5. Elements(s) \ {Head(s)} \subseteq Elements(r)
  <2> SUFFICES ASSUME NEW j \in 1..Len(s), s[j] # s[1] PROVE s[j] \in Elements(r)
    BY <1>1 DEF Elements
  <2>1. j - 1 \in 1..Len(r) /\ (j - 1) + 1 = j
    BY <1>2
  <2>2. r[j - 1] = s[j]
    BY <1>1, <2>1
  <2>3. QED
    BY <2>1, <2>2 DEF Elements
<1>6. Distinct(r)
  <2> SUFFICES ASSUME NEW i \in 1..Len(r), NEW j \in 1..Len(r), r[i] = r[j] PROVE i = j
    BY DEF Distinct
  <2>1. i + 1 = j + 1
    BY <1>1, <1>2 DEF Distinct
  <2>2. QED
    BY <2>1
<1>7. QED
  BY <1>1, <1>2, <1>4, <1>5, <1>6 DEF r, Elements

\* An empty list.
LEMMA EmptyElements == Elements(<<>>) = {} /\ Distinct(<<>>)
BY DEF Elements, Distinct

\* At the start no task is anywhere.
LEMMA InitPlaces == Init => OnePlace
BY EmptyElements DEF Init, OnePlace, PlaceOf

\* Put, under prependLock.
LEMMA PutPlaces ==
  ASSUME TypeOK, OnePlace, NEW t \in Task, PutAppend(t)
  PROVE  OnePlace'
<1>1. PICK d \in Deadlines[t] : ts' = [ts EXCEPT ![t] = d]
  BY DEF PutAppend
<1>2. ts'[t] # None /\ \A u \in Task : u # t => ts'[u] = ts[u]
  <2>1. d \in 0..(Horizon - 1) /\ Horizon \in Nat
    BY TimeAssumption
  <2>2. d # None
    BY <2>1 DEF None
  <2>3. QED
    BY <1>1, <2>2 DEF TypeOK
<1>3. /\ ts[t] = None /\ prependTasks' = Append(prependTasks, t)
      /\ UNCHANGED <<prepend, tasks, heap, executed>>
  BY DEF PutAppend, workerVars
<1>4. /\ t \notin Elements(prependTasks) /\ t \notin Elements(tasks)
      /\ t \notin Elements(executed) /\ \A w \in Worker : t \notin heap[w]
  BY <1>3 DEF OnePlace, PlaceOf
<1>5. /\ Elements(prependTasks') = Elements(prependTasks) \cup {t}
      /\ Distinct(prependTasks')
  BY <1>3, <1>4, AppendElements DEF TypeOK, OnePlace
<1>6. /\ Elements(tasks') = Elements(tasks) /\ Elements(executed') = Elements(executed)
      /\ Distinct(tasks') /\ Distinct(executed') /\ heap' = heap
      /\ prepend' \in {"select", "copy"} => tasks' = <<>>
  BY <1>3 DEF OnePlace
<1>7. ASSUME NEW u \in Task PROVE PlaceOf(u)'
  <2>1. PlaceOf(u)
    BY DEF OnePlace
  <2>2. CASE u = t
    BY <1>2, <1>4, <1>5, <1>6, <2>2 DEF PlaceOf, Elements
  <2>3. CASE u # t
    BY <1>2, <1>5, <1>6, <2>1, <2>3 DEF PlaceOf, Elements
  <2>4. QED
    BY <2>2, <2>3
<1>8. QED
  BY <1>5, <1>6, <1>7 DEF OnePlace

\* prepend takes the slice.
LEMMA CopyPlaces ==
  ASSUME TypeOK, OnePlace, PrependCopy
  PROVE  OnePlace'
<1>1. /\ tasks = <<>> /\ tasks' = prependTasks /\ prependTasks' = <<>> /\ prepend' = "send"
      /\ UNCHANGED <<ts, heap, executed>>
  BY DEF PrependCopy, OnePlace, workerVars
<1>2. /\ Elements(tasks) = {} /\ Elements(tasks') = Elements(prependTasks)
      /\ Elements(prependTasks') = {} /\ Elements(executed') = Elements(executed)
      /\ Distinct(tasks') /\ Distinct(prependTasks') /\ Distinct(executed')
  BY <1>1, EmptyElements DEF OnePlace
<1>3. ASSUME NEW u \in Task PROVE PlaceOf(u)'
  BY <1>1, <1>2 DEF OnePlace, PlaceOf, Elements
<1>4. QED
  BY <1>1, <1>2, <1>3 DEF OnePlace

\* A task goes from prepend's copy to a sched goroutine.
LEMMA ReceivePlaces ==
  ASSUME TypeOK, OnePlace, NEW w \in Worker, Receive(w)
  PROVE  OnePlace'
<1> DEFINE t == Head(tasks)
<1>1. /\ tasks # <<>> /\ prepend = "send" /\ tasks' = Tail(tasks)
      /\ UNCHANGED <<ts, prependTasks, prepend>>
  BY DEF Receive, putVars
<1>2. /\ t \in Elements(tasks) /\ t \in Task
      /\ Elements(tasks') = Elements(tasks) \ {t} /\ Distinct(tasks')
  BY <1>1, TailElements DEF TypeOK, OnePlace
<1>3. /\ t \notin Elements(prependTasks) /\ t \notin Elements(executed)
      /\ \A v \in Worker : t \notin heap[v]
  BY <1>2 DEF OnePlace, PlaceOf
<1>4. CASE executed' = Append(executed, t) /\ heap' = heap
  <2>1. Elements(executed') = Elements(executed) \cup {t} /\ Distinct(executed')
    BY <1>2, <1>3, <1>4, AppendElements DEF TypeOK, OnePlace
  <2>2. Elements(prependTasks') = Elements(prependTasks)
    BY <1>1
  <2>3. ASSUME NEW u \in Task PROVE PlaceOf(u)'
    <3>1. PlaceOf(u)
      BY DEF OnePlace
    <3> HIDE DEF t
    <3>2. QED
      BY <1>1, <1>2, <1>3, <1>4, <2>1, <2>2, <3>1 DEF PlaceOf, Elements
  <2>4. QED
    BY <1>1, <1>2, <2>1, <2>3 DEF OnePlace
<1>5. CASE executed' = executed /\ heap' = [heap EXCEPT ![w] = @ \cup {t}]
  <2>1. /\ heap'[w] = heap[w] \cup {t}
        /\ \A v \in Worker : v # w => heap'[v] = heap[v]
    BY <1>5 DEF TypeOK
  <2>2. /\ Elements(prependTasks') = Elements(prependTasks)
        /\ Elements(executed') = Elements(executed)
    BY <1>1, <1>5
  <2>3. ASSUME NEW u \in Task PROVE PlaceOf(u)'
    <3>1. PlaceOf(u)
      BY DEF OnePlace
    <3> HIDE DEF t
    <3>2. CASE u = t
      BY <1>1, <1>2, <1>3, <2>1, <2>2, <3>1, <3>2 DEF PlaceOf, Elements
    <3>3. CASE u # t
      <4>1. \A v \in Worker : u \in heap'[v] <=> u \in heap[v]
        BY <2>1, <3>3
      <4>2. QED
        BY <1>1, <1>2, <2>2, <3>1, <3>3, <4>1 DEF PlaceOf, Elements
    <3>4. QED
      BY <3>2, <3>3
  <2>4. QED
    BY <1>1, <1>2, <1>5, <2>3 DEF OnePlace
<1>6. QED
  BY <1>4, <1>5 DEF Receive

\* A task goes from a heap to the past.
LEMMA PopPlaces ==
  ASSUME TypeOK, Timely, OnePlace, NEW w \in Worker, heap[w] # {},
         heap' = [heap EXCEPT ![w] = @ \ {Top(heap[w])}],
         executed' = Append(executed, Top(heap[w])),
         UNCHANGED <<ts, prependTasks, prepend, tasks>>
  PROVE  OnePlace'
<1> DEFINE t == Top(heap[w])
<1>1. t \in heap[w] /\ t \in Task
  BY TopOfHeap DEF TypeOK, Timely
<1>2. /\ t \notin Elements(prependTasks) /\ t \notin Elements(tasks)
      /\ t \notin Elements(executed)
      /\ \A v \in Worker : t \in heap[v] => v = w
  BY <1>1 DEF OnePlace, PlaceOf
<1>3. /\ heap'[w] = heap[w] \ {t}
      /\ \A v \in Worker : v # w => heap'[v] = heap[v]
  BY DEF TypeOK
<1>4. Elements(executed') = Elements(executed) \cup {t} /\ Distinct(executed')
  BY <1>1, <1>2, AppendElements DEF TypeOK, OnePlace
<1>5. ASSUME NEW u \in Task PROVE PlaceOf(u)'
  <2>1. PlaceOf(u)
    BY DEF OnePlace
  <2> HIDE DEF t
  <2>2. CASE u = t
    <3>1. \A v \in Worker : u \notin heap'[v]
      BY <1>2, <1>3, <2>2
    <3>2. ts[u] # None
      BY <1>1, <2>1, <2>2 DEF PlaceOf
    <3>3. QED
      BY <1>2, <1>4, <2>2, <3>1, <3>2 DEF PlaceOf, Elements
  <2>3. CASE u # t
    <3>1. \A v \in Worker : u \in heap'[v] <=> u \in heap[v]
      BY <1>3, <2>3
    <3>2. QED
      BY <1>4, <2>1, <2>3, <3>1 DEF PlaceOf, Elements
  <2>4. QED
    BY <2>2, <2>3
<1>6. QED
  BY <1>4, <1>5 DEF OnePlace

\* The other steps move no task; only prepend's place may change.
LEMMA StillPlaces ==
  ASSUME OnePlace, UNCHANGED <<ts, prependTasks, tasks, heap, executed>>,
         prepend' \in {"select", "copy"} => tasks' = <<>>
  PROVE  OnePlace'
BY DEF OnePlace, PlaceOf, Elements, Distinct

-----------------------------------------------------------------------------
\* What holds of the tasks, their times and their places.
PlaceInv == TypeOK /\ Timely /\ OnePlace /\ TInv

\* Every step keeps the tasks in their places.
LEMMA NextPlaces == PlaceInv /\ [Next]_vars => OnePlace'
<1> SUFFICES ASSUME PlaceInv, [Next]_vars PROVE OnePlace'
  OBVIOUS
<1>1. TypeOK /\ Timely /\ OnePlace
  BY DEF PlaceInv
<1>2. CASE \E t \in Task : PutAppend(t)
  BY <1>1, <1>2, PutPlaces
<1>3. CASE PrependCopy
  BY <1>1, <1>3, CopyPlaces
<1>4. ASSUME NEW w \in Worker, Receive(w) PROVE OnePlace'
  BY <1>1, <1>4, ReceivePlaces
<1>5. ASSUME NEW w \in Worker, Loop(w) PROVE OnePlace'
  <2>1. UNCHANGED <<ts, prependTasks, prepend, tasks>>
    BY <1>5 DEF Loop, putVars
  <2>2. CASE /\ heap[w] # {} /\ heap' = [heap EXCEPT ![w] = @ \ {Top(heap[w])}]
             /\ executed' = Append(executed, Top(heap[w]))
    BY <1>1, <2>1, <2>2, PopPlaces
  <2>3. CASE UNCHANGED <<heap, executed>>
    BY <1>1, <2>1, <2>3, StillPlaces DEF OnePlace
  <2>4. QED
    BY <1>5, <2>2, <2>3 DEF Loop
<1>6. CASE \/ \E t \in Task : PutNotify(t)
           \/ PrependWake \/ PrependDone \/ PrependExit \/ Tick \/ Close \/ UNCHANGED vars
  <2>1. /\ UNCHANGED <<ts, prependTasks, tasks, heap, executed>>
        /\ prepend' \in {"select", "copy"} => tasks' = <<>>
    BY <1>1, <1>6 DEF PutNotify, PrependWake, PrependDone, PrependExit, Tick, Close,
       vars, putVars, workerVars, OnePlace
  <2>2. QED
    BY <1>1, <2>1, StillPlaces
<1>7. ASSUME NEW w \in Worker,
             Drain(w) \/ ResetTimer(w) \/ Expire(w) \/ SchedExit(w) \/ Fire(w)
      PROVE  OnePlace'
  <2>1. UNCHANGED <<ts, prependTasks, prepend, tasks, heap, executed>>
    BY <1>7 DEF Drain, ResetTimer, Expire, SchedExit, Fire, putVars
  <2>2. QED
    BY <1>1, <2>1, StillPlaces DEF OnePlace
<1>8. QED
  BY <1>2, <1>3, <1>4, <1>5, <1>6, <1>7 DEF Next, Sched, Prepend

\* Every step keeps the times sound.
LEMMA NextTyped == PlaceInv /\ [Next]_vars => (TypeOK /\ Timely)'
<1> SUFFICES ASSUME PlaceInv, [Next]_vars PROVE (TypeOK /\ Timely)'
  OBVIOUS
<1>1. TypeOK /\ Timely /\ OnePlace /\ TInv
  BY DEF PlaceInv
<1>2. \A t \in Elements(tasks) : ts[t] # None
  <2>1. Elements(tasks) \subseteq Task
    BY <1>1 DEF TypeOK, Elements
  <2>2. QED
    BY <1>1, <2>1 DEF OnePlace, PlaceOf
<1>3. ASSUME NEW w \in Worker, Sched(w) \/ Fire(w) PROVE (TypeOK /\ Timely)'
  BY <1>1, <1>2, <1>3, SchedTyped
<1>4. ASSUME NEW t \in Task, PutAppend(t) PROVE (TypeOK /\ Timely)'
  BY <1>1, <1>4, PutTyped
<1>5. QED
  BY <1>1, <1>3, <1>4, OtherTyped DEF Next

\* The service keeps its types, times and places.
THEOREM PlaceInvariance == Spec => []PlaceInv
<1>1. Init => PlaceInv
  BY InitTyped, InitPlaces, TInit DEF PlaceInv
<1>2. PlaceInv /\ [Next]_vars => PlaceInv'
  BY NextTyped, NextPlaces, TNext DEF PlaceInv
<1>3. QED
  BY <1>1, <1>2, PTL DEF Spec

\* How often a task is in a list.
LEMMA CountInList ==
  ASSUME NEW s \in Seq(Task), Distinct(s), NEW t
  PROVE  Cardinality({i \in 1..Len(s) : s[i] = t}) = IF t \in Elements(s) THEN 1 ELSE 0
<1>1. CASE t \in Elements(s)
  <2>1. PICK k \in 1..Len(s) : s[k] = t
    BY <1>1 DEF Elements
  <2>2. {i \in 1..Len(s) : s[i] = t} = {k}
    BY <2>1 DEF Distinct
  <2>3. QED
    BY <1>1, <2>2, FS_Singleton
<1>2. CASE t \notin Elements(s)
  <2>1. {i \in 1..Len(s) : s[i] = t} = {}
    BY <1>2 DEF Elements
  <2>2. QED
    BY <1>2, <2>1, FS_EmptySet
<1>3. QED
  BY <1>1, <1>2

\* How many goroutines have a task in their heaps.
LEMMA CountInHeaps ==
  ASSUME NEW t \in Task, PlaceOf(t)
  PROVE  Cardinality({w \in Worker : t \in heap[w]})
           = IF \E w \in Worker : t \in heap[w] THEN 1 ELSE 0
<1>1. CASE \E w \in Worker : t \in heap[w]
  <2>1. PICK v \in Worker : t \in heap[v]
    BY <1>1
  <2>2. {w \in Worker : t \in heap[w]} = {v}
    BY <2>1 DEF PlaceOf
  <2>3. QED
    BY <1>1, <2>2, FS_Singleton
<1>2. CASE ~\E w \in Worker : t \in heap[w]
  <2>1. {w \in Worker : t \in heap[w]} = {}
    BY <1>2
  <2>2. QED
    BY <1>2, <2>1, FS_EmptySet
<1>3. QED
  BY <1>1, <1>2

\* A task put is in one place and runs once, whatever the goroutines do.
THEOREM Once == Spec => []TaskOnce
<1>1. ASSUME PlaceInv PROVE TaskOnce
  <2>1. TypeOK /\ OnePlace
    BY <1>1 DEF PlaceInv
  <2>2. ASSUME NEW t \in Task, ts[t] # None
        PROVE  Cardinality({i \in 1..Len(prependTasks) : prependTasks[i] = t})
                 + Cardinality({i \in 1..Len(tasks) : tasks[i] = t})
                 + Cardinality({w \in Worker : t \in heap[w]})
                 + Cardinality({i \in 1..Len(executed) : executed[i] = t}) = 1
    <3>1. /\ Cardinality({i \in 1..Len(prependTasks) : prependTasks[i] = t})
               = IF t \in Elements(prependTasks) THEN 1 ELSE 0
          /\ Cardinality({i \in 1..Len(tasks) : tasks[i] = t})
               = IF t \in Elements(tasks) THEN 1 ELSE 0
          /\ Cardinality({i \in 1..Len(executed) : executed[i] = t})
               = IF t \in Elements(executed) THEN 1 ELSE 0
      BY <2>1, CountInList DEF TypeOK, OnePlace
    <3>2. PlaceOf(t)
      BY <2>1 DEF OnePlace
    <3>3. Cardinality({w \in Worker : t \in heap[w]})
            = IF \E w \in Worker : t \in heap[w] THEN 1 ELSE 0
      BY <3>2, CountInHeaps
    <3>4. QED
      BY <2>2, <3>1, <3>2, <3>3 DEF PlaceOf
  <2>3. QED
    BY <2>1, <2>2 DEF TaskOnce
<1>2. QED
  BY <1>1, PlaceInvariance, PTL
=============================================================================
