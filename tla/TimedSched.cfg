SPECIFICATION Spec
CONSTANTS
  w1 = w1
  w2 = w2
  t1 = t1
  t2 = t2
  Worker <- TwoWorkers
  Task <- TwoTasks
  Deadlines <- SoonAndLate
  Horizon = 2
CHECK_DEADLOCK FALSE
INVARIANTS DrainNeverHangs TimerCovers TaskOnce
PROPERTIES EventuallyExecuted
