------------------------------- MODULE TaskPool -------------------------------
(***************************************************************************)
(* CTaskPool with its CWorkThreads, as VerifyServer uses it: one main      *)
(* thread posts tasks, runs the callbacks of finished ones and closes the  *)
(* pool; each work thread sleeps on its semaphore, performs a task and     *)
(* looks for the next one itself.                                          *)
(*                                                                         *)
(* Three mutexes guard three lists.  What happens under one of them is an  *)
(* action; between two of them the threads interleave freely.              *)
(***************************************************************************)
EXTENDS Integers, Sequences, FiniteSets

CONSTANTS
  Threads,   \* the work threads (nInitThreadCnt of them)
  Tasks,     \* the task objects, made by the factory and then used again
  NoTask     \* a null ITaskPrt

ASSUME PoolAssumption == NoTask \notin Tasks

VARIABLES
  main,      \* where the main thread is: in its loop, in postTask, in closeAll
  hand,      \* the task postTask is posting
  chosen,    \* the threads postTask has taken from the idle ones, at most one
  todo,      \* tasks whose callback update() has still to run
  reserve,   \* m_vResultObjs and the objects not created yet
  idle,      \* m_vIdleThread; which idle thread is taken does not matter
  busy,      \* m_vBusyThread
  waiting,   \* m_vWaitingTask
  finish,    \* m_vFinishTask
  task,      \* CWorkThread::m_pTask
  sem,       \* CWorkThread::m_sem
  closed,    \* threads with CWorkThread::m_isClose
  pc         \* where each work thread is

mainVars   == <<main, hand, chosen, todo, reserve>>
threadVars == <<task, sem, closed, pc>>
vars == <<main, hand, chosen, todo, reserve, idle, busy, waiting, finish,
          task, sem, closed, pc>>

Range(q) == {q[k] : k \in DOMAIN q}

Init ==
  /\ main = "loop" /\ hand = NoTask /\ chosen = {} /\ todo = <<>> /\ reserve = Tasks
  /\ idle = Threads /\ busy = {} /\ waiting = <<>> /\ finish = <<>>
  /\ task = [w \in Threads |-> NoTask] /\ sem = [w \in Threads |-> 0]
  /\ closed = {} /\ pc = [w \in Threads |-> "wait"]

(* Faulty: the semaphore is posted for a null task too *)
AssignTask_AlwaysPost(w, t) ==
  IF w \in closed THEN UNCHANGED <<task, sem>>
  ELSE task' = [task EXCEPT ![w] = t] /\ sem' = [sem EXCEPT ![w] = @ + 1]

(* CWorkThread::assignTask, called by the main thread and by the thread itself *)
AssignTask(w, t) ==
  IF w \in closed THEN UNCHANGED <<task, sem>>
  ELSE /\ task' = [task EXCEPT ![w] = t]
       /\ sem' = IF t = NoTask THEN sem ELSE [sem EXCEPT ![w] = @ + 1]

-----------------------------------------------------------------------------
(* The main thread.  m_isClosed is main \in {"closing", "exit"}.               *)

(* Faulty: the thread taken is not put among the busy ones *)
TakeIdle_NotBusy(w) ==
  /\ main' = "assign" /\ chosen' = {w}
  /\ idle' = idle \ {w} /\ UNCHANGED busy

(* postTask up to the release of m_tThread *)
TakeIdle(w) ==
  /\ main' = "assign" /\ chosen' = {w}
  /\ idle' = idle \ {w} /\ busy' = busy \cup {w}

NoneIdle == idle = {} /\ main' = "queue" /\ UNCHANGED <<chosen, idle, busy>>

(* The task posted is a reused or a new object; callbacks post as well *)
Post(t) ==
  /\ main = "loop" /\ t \in reserve
  /\ hand' = t /\ reserve' = reserve \ {t}
  /\ NoneIdle \/ \E w \in idle : TakeIdle(w)
  /\ UNCHANGED <<todo, waiting, finish, threadVars>>

Assign ==
  /\ main = "assign"
  /\ \E w \in chosen : AssignTask(w, hand)
  /\ main' = "loop" /\ hand' = NoTask /\ chosen' = {}
  /\ UNCHANGED <<todo, reserve, idle, busy, waiting, finish, closed, pc>>

(* Faulty: the last task posted is the first to be taken *)
Queue_Front ==
  /\ main = "queue"
  /\ waiting' = <<hand>> \o waiting
  /\ main' = "loop" /\ hand' = NoTask
  /\ UNCHANGED <<chosen, todo, reserve, idle, busy, finish, threadVars>>

(* The second half of postTask: the threads may have become idle meanwhile *)
Queue ==
  /\ main = "queue"
  /\ waiting' = Append(waiting, hand)
  /\ main' = "loop" /\ hand' = NoTask
  /\ UNCHANGED <<chosen, todo, reserve, idle, busy, finish, threadVars>>

(* update: the finished tasks are taken all at once ... *)
Collect ==
  /\ main = "loop" /\ todo = <<>> /\ finish # <<>>
  /\ todo' = finish /\ finish' = <<>>
  /\ UNCHANGED <<main, hand, chosen, reserve, idle, busy, waiting, threadVars>>

(* ... and called back one by one, each becoming a reserve object *)
Callback ==
  /\ main = "loop" /\ todo # <<>>
  /\ reserve' = reserve \cup {Head(todo)} /\ todo' = Tail(todo)
  /\ UNCHANGED <<main, hand, chosen, idle, busy, waiting, finish, threadVars>>

(* closeAll holds m_tThread until every thread has been told to close *)
CloseAll ==
  /\ main = "loop" /\ todo = <<>>
  /\ main' = "closing"
  /\ UNCHANGED <<hand, chosen, todo, reserve, idle, busy, waiting, finish, threadVars>>

(* Faulty: the thread is not woken up to see that it is to close *)
Close_NoPost(w) ==
  /\ main = "closing" /\ w \in (idle \cup busy) \ closed
  /\ closed' = closed \cup {w}
  /\ UNCHANGED <<mainVars, idle, busy, waiting, finish, task, sem, pc>>

(* CWorkThread::close *)
Close(w) ==
  /\ main = "closing" /\ w \in (idle \cup busy) \ closed
  /\ closed' = closed \cup {w} /\ sem' = [sem EXCEPT ![w] = @ + 1]
  /\ UNCHANGED <<mainVars, idle, busy, waiting, finish, task, pc>>

Closed ==
  /\ main = "closing" /\ idle \cup busy \subseteq closed
  /\ main' = "exit"
  /\ UNCHANGED <<hand, chosen, todo, reserve, idle, busy, waiting, finish, threadVars>>

-----------------------------------------------------------------------------
(* A work thread: __run and, from Finish on, onThreadFinishTask                *)

Goto(w, from, to) == pc[w] = from /\ pc' = [pc EXCEPT ![w] = to]

Wake(w) ==
  /\ w \notin closed /\ sem[w] > 0
  /\ Goto(w, "wait", IF task[w] = NoTask THEN "wait" ELSE "perform")
  /\ sem' = [sem EXCEPT ![w] = @ - 1]
  /\ UNCHANGED <<mainVars, idle, busy, waiting, finish, task, closed>>

End(w) ==
  /\ w \in closed /\ sem[w] > 0
  /\ Goto(w, "wait", "ended")
  /\ sem' = [sem EXCEPT ![w] = @ - 1] /\ task' = [task EXCEPT ![w] = NoTask]
  /\ UNCHANGED <<mainVars, idle, busy, waiting, finish, closed>>

(* performTask and the push on the finished tasks *)
Finish(w) ==
  /\ Goto(w, "perform", "clear")
  /\ finish' = Append(finish, task[w])
  /\ UNCHANGED <<mainVars, idle, busy, waiting, task, sem, closed>>

Clear(w) ==
  /\ Goto(w, "clear", "next")
  /\ AssignTask(w, NoTask)
  /\ UNCHANGED <<mainVars, idle, busy, waiting, finish, closed>>

(* Faulty: the task taken stays in the queue *)
TakeNext_NoPop(w) ==
  /\ waiting # <<>>
  /\ Goto(w, "next", "wait")
  /\ AssignTask(w, Head(waiting))
  /\ UNCHANGED <<mainVars, idle, busy, waiting, finish, closed>>

TakeNext(w) ==
  /\ waiting # <<>>
  /\ Goto(w, "next", "wait")
  /\ AssignTask(w, Head(waiting)) /\ waiting' = Tail(waiting)
  /\ UNCHANGED <<mainVars, idle, busy, finish, closed>>

(* Nothing is waiting: m_tWaitingTask is released before m_tThread is taken *)
NoneWaiting(w) ==
  /\ waiting = <<>>
  /\ Goto(w, "next", "leave")
  /\ UNCHANGED <<mainVars, idle, busy, waiting, finish, task, sem, closed>>

(* A thread that is not among the busy ones stays where it is *)
Leave(w) ==
  /\ main # "closing"
  /\ Goto(w, "leave", "wait")
  /\ busy' = busy \ {w} /\ idle' = idle \cup ({w} \cap busy)
  /\ UNCHANGED <<mainVars, waiting, finish, task, sem, closed>>

Main == Assign \/ Queue \/ Collect \/ Callback \/ Closed \/ \E w \in Threads : Close(w)

Run(w) == Wake(w) \/ End(w) \/ Finish(w) \/ Clear(w) \/ TakeNext(w) \/ NoneWaiting(w) \/ Leave(w)

Next == CloseAll \/ Main \/ (\E t \in Tasks : Post(t)) \/ (\E w \in Threads : Run(w))

Spec == Init /\ [][Next]_vars

(* The system schedules every thread, and the main loop turns for ever *)
LiveSpec == Spec /\ WF_vars(Main) /\ \A w \in Threads : WF_vars(Run(w))

-----------------------------------------------------------------------------
(* A thread's semaphore is posted for at most one task and for its closing. *)
TypeOK ==
  /\ main \in {"loop", "assign", "queue", "closing", "exit"}
  /\ hand \in Tasks \cup {NoTask} /\ chosen \subseteq Threads
  /\ todo \in Seq(Tasks) /\ waiting \in Seq(Tasks) /\ finish \in Seq(Tasks)
  /\ reserve \subseteq Tasks
  /\ idle \subseteq Threads /\ busy \subseteq Threads /\ closed \subseteq Threads
  /\ task \in [Threads -> Tasks \cup {NoTask}] /\ sem \in [Threads -> 0 .. 2]
  /\ pc \in [Threads -> {"wait", "perform", "clear", "next", "leave", "ended"}]

(* Every thread is on one of the two lists, so that the "big bug" of           *)
(* TaskPool.cpp:119 cannot be met and closeAll misses nobody; and a thread     *)
(* that postTask finds idle is asleep with nothing assigned, so that no task   *)
(* is overwritten by the assignment that follows without the lock.             *)
ThreadsAccounted ==
  /\ idle \cap busy = {} /\ idle \cup busy = Threads
  /\ \A w \in (idle \cup chosen) \ closed : pc[w] = "wait" /\ task[w] = NoTask /\ sem[w] = 0

(* What has become of a task.  A closed thread that has no task to perform     *)
(* ends, whatever its m_pTask.                                                 *)
Assigned(t) == \E w \in Threads :
                 task[w] = t /\ (pc[w] = "perform" \/ (pc[w] = "wait" /\ w \notin closed))
JobOf(t) ==
  IF t \in Range(finish) \cup Range(todo) THEN "done"
  ELSE IF t = hand \/ t \in Range(waiting) \/ Assigned(t) THEN "pending"
  ELSE IF t \in reserve THEN "free" ELSE "dropped"

Jobs == INSTANCE JobPool WITH job <- [t \in Tasks |-> JobOf(t)],
                              open <- main \notin {"closing", "exit"}

(* Whatever the threads do between two locks, a posted task is performed by    *)
(* one thread, once, and then called back once; none is lost before closeAll.  *)
ImplementsJobPool == Jobs!Spec

(* A task may be queued just when the last thread has gone idle (postTask has  *)
(* released m_tThread), and then nobody takes it.  It is taken in the end if   *)
(* tasks go on being posted.                                                   *)
KeepsUp ==
  ([]<><<\E t \in Tasks : Post(t)>>_vars)
    => \A t \in Tasks : t \in Range(waiting) ~> t \notin Range(waiting)

(* closeAll stops every thread: a busy one after its task, an idle one at      *)
(* once, one that is between two tasks without a further one.                  *)
EveryThreadStops == main = "closing" ~> \A w \in Threads : pc[w] = "ended"
==============================================================================
