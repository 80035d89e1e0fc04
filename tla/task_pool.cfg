SPECIFICATION LiveSpec
CONSTANTS
  Threads = {w1, w2}
  Tasks = {t1, t2, t3}
  NoTask = NoTask
INVARIANTS TypeOK ThreadsAccounted
PROPERTIES ImplementsJobPool KeepsUp EveryThreadStops
\* the pool really stops once it is closed
CHECK_DEADLOCK FALSE
