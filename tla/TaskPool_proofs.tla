--------------------------- MODULE TaskPool_proofs ----------------------------
(***************************************************************************)
(* TaskPool, for every number of threads and tasks: a thread that is taken *)
(* from the idle ones has nothing to do, every task is in one place, and   *)
(* the pool implements JobPool.  The lists are injective sequences; the    *)
(* first lemmas say what their operations do to the set of their elements. *)
(***************************************************************************)
EXTENDS TaskPool, TLAPS

Inj(q) == \A m, n \in DOMAIN q : q[m] = q[n] => m = n

LEMMA EmptyList == Range(<<>>) = {} /\ Inj(<<>>)
BY DEF Range, Inj

LEMMA RangeType == ASSUME NEW S, NEW q \in Seq(S) PROVE Range(q) \subseteq S
BY DEF Range

LEMMA AppendList ==
  ASSUME NEW S, NEW q \in Seq(S), NEW e \in S, Inj(q), e \notin Range(q)
  PROVE  /\ Append(q, e) \in Seq(S) /\ Inj(Append(q, e))
         /\ Range(Append(q, e)) = Range(q) \cup {e}
<1>1. /\ DOMAIN Append(q, e) = 1 .. Len(q) + 1 /\ DOMAIN q = 1 .. Len(q) /\ Len(q) \in Nat
      /\ \A k \in 1 .. Len(q) : Append(q, e)[k] = q[k]
      /\ Append(q, e)[Len(q) + 1] = e
  OBVIOUS
<1>2. 1 .. Len(q) + 1 = (1 .. Len(q)) \cup {Len(q) + 1}
  BY SMT
<1>3. Append(q, e) \in Seq(S)
  OBVIOUS
<1>4. \A k \in 1 .. Len(q) : q[k] # e
  BY <1>1 DEF Range
<1>5. Inj(Append(q, e))
  BY <1>1, <1>2, <1>4 DEF Inj
<1> QED
  BY <1>1, <1>2, <1>3, <1>5 DEF Range

LEMMA TailList ==
  ASSUME NEW S, NEW q \in Seq(S), q # <<>>, Inj(q)
  PROVE  /\ Tail(q) \in Seq(S) /\ Inj(Tail(q)) /\ Head(q) \in S
         /\ Head(q) \notin Range(Tail(q)) /\ Range(q) = Range(Tail(q)) \cup {Head(q)}
<1>1. Tail(q) \in Seq(S) /\ Len(q) \in Nat \ {0} /\ DOMAIN q = 1 .. Len(q)
  OBVIOUS
<1>2. DOMAIN Tail(q) = 1 .. Len(q) - 1 /\ \A k \in DOMAIN Tail(q) : Tail(q)[k] = q[k + 1]
  OBVIOUS
<1>3. Head(q) = q[1] /\ 1 \in DOMAIN q /\ q[1] \in S
  BY <1>1
<1>4. \A k \in DOMAIN Tail(q) : k \in Int /\ k + 1 \in DOMAIN q /\ k + 1 # 1
  BY <1>1, <1>2
<1>5. \A k \in DOMAIN q : k = 1 \/ (k - 1 \in DOMAIN Tail(q) /\ (k - 1) + 1 = k)
  BY <1>1, <1>2
<1>6. Inj(Tail(q))
  BY <1>2, <1>4, SMT DEF Inj
<1>7. Head(q) \notin Range(Tail(q))
  BY <1>2, <1>3, <1>4 DEF Range, Inj
<1>8. Range(q) \subseteq Range(Tail(q)) \cup {Head(q)}
  BY <1>2, <1>3, <1>5 DEF Range
<1>9. Range(Tail(q)) \cup {Head(q)} \subseteq Range(q)
  BY <1>2, <1>3, <1>4 DEF Range
<1> QED
  BY <1>1, <1>3, <1>6, <1>7, <1>8, <1>9

-----------------------------------------------------------------------------
(* A thread has a task to perform *)
Live(w) == pc[w] = "perform" \/ (pc[w] = "wait" /\ w \notin closed /\ task[w] # NoTask)

Listed == Range(finish) \cup Range(todo) \cup Range(waiting)

MainInv ==
  /\ hand # NoTask <=> main \in {"assign", "queue"}
  /\ chosen # {} <=> main = "assign"
  /\ \A v, w \in chosen : v = w
  /\ closed # {} => main \in {"closing", "exit"}

ThreadInv ==
  /\ idle \cap busy = {} /\ idle \cup busy = Threads /\ chosen \subseteq busy
  /\ \A w \in idle \cup chosen :
       pc[w] \in {"wait", "ended"} /\ (w \notin closed => task[w] = NoTask)
  /\ \A w \in Threads \ closed :
       /\ sem[w] = IF pc[w] = "wait" /\ task[w] # NoTask THEN 1 ELSE 0
       /\ pc[w] # "ended"
       /\ pc[w] \in {"next", "leave"} => task[w] = NoTask
  /\ \A w \in Threads : pc[w] = "perform" => task[w] # NoTask

(* Every task is in one place *)
PlaceInv ==
  /\ Inj(finish) /\ Inj(todo) /\ Inj(waiting)
  /\ Range(finish) \cap Range(todo) = {}
  /\ (Range(finish) \cup Range(todo)) \cap Range(waiting) = {}
  /\ hand \notin Listed \cup reserve /\ reserve \cap Listed = {}
  /\ \A w \in Threads : Live(w) => task[w] \notin Listed \cup reserve \cup {hand}
  /\ \A v, w \in Threads : Live(v) /\ Live(w) /\ task[v] = task[w] => v = w

PoolInv == TypeOK /\ MainInv /\ ThreadInv /\ PlaceInv

LEMMA PoolInit == Init => PoolInv
<1> SUFFICES ASSUME Init PROVE PoolInv
  OBVIOUS
<1>1. TypeOK
  BY DEF Init, TypeOK
<1>2. MainInv /\ ThreadInv
  BY DEF Init, MainInv, ThreadInv
<1>3. PlaceInv
  BY EmptyList, PoolAssumption DEF Init, PlaceInv, Listed, Live
<1> QED
  BY <1>1, <1>2, <1>3 DEF PoolInv

(* Nothing that is live or listed is no task *)
LEMMA Typed ==
  ASSUME TypeOK
  PROVE  /\ Listed \subseteq Tasks /\ NoTask \notin Tasks
         /\ Range(finish) \subseteq Tasks /\ Range(todo) \subseteq Tasks
         /\ Range(waiting) \subseteq Tasks
BY RangeType, PoolAssumption DEF TypeOK, Listed

-----------------------------------------------------------------------------
(* The main thread *)

LEMMA PostStep == ASSUME PoolInv, NEW t \in Tasks, Post(t) PROVE PoolInv'
<1> USE DEF PoolInv
<1>1. TypeOK'
  BY DEF Post, NoneIdle, TakeIdle, TypeOK, threadVars
<1>2. MainInv'
  BY PoolAssumption DEF Post, NoneIdle, TakeIdle, MainInv, threadVars
<1>3. ThreadInv'
  BY DEF Post, NoneIdle, TakeIdle, MainInv, ThreadInv, TypeOK, threadVars
<1>4. PlaceInv'
  <2>1. \A w \in Threads : Live(w)' <=> Live(w)
    BY DEF Post, Live, threadVars
  <2>2. Listed' = Listed /\ hand' = t /\ reserve' = reserve \ {t} /\ t \in reserve /\ task' = task
    BY DEF Post, Listed, threadVars
  <2>3. finish' = finish /\ todo' = todo /\ waiting' = waiting
    BY DEF Post
  <2> QED
    BY <2>1, <2>2, <2>3 DEF PlaceInv
<1> QED
  BY <1>1, <1>2, <1>3, <1>4

LEMMA AssignStep == ASSUME PoolInv, Assign PROVE PoolInv'
<1> USE DEF PoolInv
<1>0. PICK w \in chosen : AssignTask(w, hand)
  BY DEF Assign
<1>1. w \in Threads /\ w \notin closed /\ closed = {} /\ hand \in Tasks /\ hand # NoTask
  BY PoolAssumption DEF MainInv, TypeOK, Assign
<1>2. pc[w] = "wait" /\ task[w] = NoTask /\ sem[w] = 0 /\ chosen = {w}
  BY <1>1 DEF MainInv, ThreadInv, TypeOK
<1>3. task' = [task EXCEPT ![w] = hand] /\ sem' = [sem EXCEPT ![w] = @ + 1]
  BY <1>0, <1>1 DEF AssignTask
<1>4. TypeOK'
  BY <1>1, <1>2, <1>3 DEF Assign, TypeOK
<1>5. MainInv'
  BY <1>1 DEF Assign, MainInv
<1>6. ThreadInv'
  BY <1>1, <1>2, <1>3 DEF Assign, MainInv, ThreadInv, TypeOK
<1>7. PlaceInv'
  <2>1. \A v \in Threads : v # w => (Live(v)' <=> Live(v)) /\ task'[v] = task[v]
    BY <1>3 DEF Assign, Live, TypeOK
  <2>2. task'[w] = hand /\ hand' = NoTask /\ reserve' = reserve /\ Listed' = Listed
    BY <1>1, <1>3 DEF Assign, TypeOK, Listed
  <2>3. finish' = finish /\ todo' = todo /\ waiting' = waiting
    BY DEF Assign
  <2>4. \A v \in Threads : Live(v)' => task'[v] # NoTask
    BY <2>2, <1>1, <1>3, <1>4 DEF Live, ThreadInv, Assign, TypeOK
  <2>5. NoTask \notin Listed \cup reserve
    BY Typed DEF TypeOK
  <2> QED
    BY <2>1, <2>2, <2>3, <2>4, <2>5 DEF PlaceInv
<1> QED
  BY <1>4, <1>5, <1>6, <1>7

LEMMA QueueStep == ASSUME PoolInv, Queue PROVE PoolInv'
<1> USE DEF PoolInv
<1>1. hand \in Tasks /\ hand \notin Range(waiting) /\ Inj(waiting) /\ waiting \in Seq(Tasks)
  BY PoolAssumption DEF MainInv, TypeOK, Queue, PlaceInv, Listed
<1>2. waiting' \in Seq(Tasks) /\ Inj(waiting') /\ Range(waiting') = Range(waiting) \cup {hand}
  BY <1>1, AppendList DEF Queue
<1>3. TypeOK'
  BY <1>2 DEF Queue, TypeOK, threadVars
<1>4. MainInv' /\ ThreadInv'
  BY DEF Queue, MainInv, ThreadInv, threadVars
<1>5. PlaceInv'
  <2>1. \A w \in Threads : Live(w)' <=> Live(w)
    BY DEF Queue, Live, threadVars
  <2>2. /\ Listed' = Listed \cup {hand} /\ hand' = NoTask /\ reserve' = reserve
        /\ task' = task /\ finish' = finish /\ todo' = todo
    BY <1>2 DEF Queue, Listed, threadVars
  <2>3. NoTask \notin Listed' \cup reserve
    BY <1>1, <2>2, Typed DEF TypeOK
  <2>4. \A w \in Threads : Live(w) => task[w] # NoTask
    BY DEF Live, ThreadInv
  <2> QED
    BY <1>2, <2>1, <2>2, <2>3, <2>4 DEF PlaceInv, Listed
<1> QED
  BY <1>3, <1>4, <1>5

LEMMA CollectStep == ASSUME PoolInv, Collect PROVE PoolInv'
<1> USE DEF PoolInv
<1>1. TypeOK'
  BY DEF Collect, TypeOK, threadVars
<1>2. MainInv' /\ ThreadInv'
  BY DEF Collect, MainInv, ThreadInv, threadVars
<1>3. PlaceInv'
  <2>1. \A w \in Threads : Live(w)' <=> Live(w)
    BY DEF Collect, Live, threadVars
  <2>2. /\ Range(finish') = {} /\ Inj(finish') /\ todo' = finish /\ Range(todo) = {}
        /\ waiting' = waiting /\ hand' = hand /\ reserve' = reserve /\ task' = task
    BY EmptyList DEF Collect, threadVars
  <2>3. Listed' = Listed
    BY <2>2 DEF Listed
  <2> QED
    BY <2>1, <2>2, <2>3 DEF PlaceInv
<1> QED
  BY <1>1, <1>2, <1>3

LEMMA CallbackStep == ASSUME PoolInv, Callback PROVE PoolInv'
<1> USE DEF PoolInv
<1>1. todo \in Seq(Tasks) /\ todo # <<>> /\ Inj(todo)
  BY DEF Callback, TypeOK, PlaceInv
<1>2. /\ todo' \in Seq(Tasks) /\ Inj(todo') /\ Head(todo) \in Tasks
      /\ Head(todo) \notin Range(todo') /\ Range(todo) = Range(todo') \cup {Head(todo)}
  BY <1>1, TailList DEF Callback
<1>3. TypeOK'
  BY <1>2 DEF Callback, TypeOK, threadVars
<1>4. MainInv' /\ ThreadInv'
  BY DEF Callback, MainInv, ThreadInv, threadVars
<1>5. PlaceInv'
  <2>1. \A w \in Threads : Live(w)' <=> Live(w)
    BY DEF Callback, Live, threadVars
  <2>2. /\ reserve' = reserve \cup {Head(todo)} /\ hand' = hand /\ task' = task
        /\ finish' = finish /\ waiting' = waiting
    BY DEF Callback, threadVars
  <2>3. Listed = Listed' \cup {Head(todo)} /\ Head(todo) \notin Listed'
    BY <1>2, <2>2 DEF Listed, PlaceInv
  <2> QED
    BY <1>2, <2>1, <2>2, <2>3 DEF PlaceInv
<1> QED
  BY <1>3, <1>4, <1>5

LEMMA CloseAllStep == ASSUME PoolInv, CloseAll \/ Closed PROVE PoolInv'
<1> USE DEF PoolInv
<1>1. /\ UNCHANGED <<hand, chosen, todo, reserve, idle, busy, waiting, finish, threadVars>>
      /\ main' \in {"closing", "exit"} /\ main \in {"loop", "closing"}
  BY DEF CloseAll, Closed
<1>2. TypeOK'
  BY <1>1 DEF TypeOK, threadVars
<1>3. MainInv' /\ ThreadInv'
  BY <1>1 DEF MainInv, ThreadInv, threadVars
<1>4. PlaceInv'
  BY <1>1 DEF PlaceInv, Listed, Live, threadVars
<1> QED
  BY <1>2, <1>3, <1>4

LEMMA CloseStep == ASSUME PoolInv, NEW w \in Threads, Close(w) PROVE PoolInv'
<1> USE DEF PoolInv
<1>1. sem[w] \in 0 .. 1
  BY DEF Close, ThreadInv
<1>2. TypeOK'
  BY <1>1 DEF Close, TypeOK, mainVars
<1>3. MainInv'
  BY DEF Close, MainInv, mainVars
<1>4. ThreadInv'
  BY DEF Close, ThreadInv, TypeOK, mainVars
<1>5. PlaceInv'
  <2>1. \A v \in Threads : Live(v)' => Live(v)
    BY DEF Close, Live, mainVars
  <2>2. /\ Listed' = Listed /\ hand' = hand /\ reserve' = reserve /\ task' = task
        /\ finish' = finish /\ waiting' = waiting /\ todo' = todo
    BY DEF Close, Listed, mainVars
  <2> QED
    BY <2>1, <2>2 DEF PlaceInv
<1> QED
  BY <1>2, <1>3, <1>4, <1>5

-----------------------------------------------------------------------------
(* The work threads *)

(* The steps of a thread that take nothing from a list and put nothing on one *)
LEMMA KeepLists ==
  ASSUME PlaceInv, UNCHANGED <<mainVars, waiting, finish>>,
         \A v \in Threads : Live(v)' => Live(v) /\ task'[v] = task[v]
  PROVE  PlaceInv'
<1>1. /\ Listed' = Listed /\ hand' = hand /\ reserve' = reserve
      /\ finish' = finish /\ waiting' = waiting /\ todo' = todo
  BY DEF Listed, mainVars
<1> QED
  BY <1>1 DEF PlaceInv

LEMMA WakeStep == ASSUME PoolInv, NEW w \in Threads, Wake(w) PROVE PoolInv'
<1> USE DEF PoolInv
<1>1. w \notin closed /\ pc[w] = "wait" /\ task[w] # NoTask /\ sem[w] = 1
  BY DEF Wake, Goto, ThreadInv
<1>2. pc' = [pc EXCEPT ![w] = "perform"] /\ sem' = [sem EXCEPT ![w] = @ - 1]
  BY <1>1 DEF Wake, Goto
<1>3. TypeOK'
  BY <1>1, <1>2 DEF Wake, TypeOK, mainVars
<1>4. MainInv'
  BY DEF Wake, MainInv, mainVars
<1>5. ThreadInv'
  BY <1>1, <1>2 DEF Wake, ThreadInv, TypeOK, mainVars
<1>6. \A v \in Threads : Live(v)' => Live(v) /\ task'[v] = task[v]
  BY <1>1, <1>2 DEF Wake, Live, TypeOK
<1> QED
  BY <1>3, <1>4, <1>5, <1>6, KeepLists DEF Wake

LEMMA EndStep == ASSUME PoolInv, NEW w \in Threads, End(w) PROVE PoolInv'
<1> USE DEF PoolInv
<1>1. TypeOK'
  BY DEF End, Goto, TypeOK, mainVars
<1>2. MainInv'
  BY DEF End, MainInv, mainVars
<1>3. ThreadInv'
  BY DEF End, Goto, ThreadInv, TypeOK, mainVars
<1>4. \A v \in Threads : Live(v)' => Live(v) /\ task'[v] = task[v]
  BY DEF End, Goto, Live, TypeOK
<1> QED
  BY <1>1, <1>2, <1>3, <1>4, KeepLists DEF End

LEMMA FinishStep == ASSUME PoolInv, NEW w \in Threads, Finish(w) PROVE PoolInv'
<1> USE DEF PoolInv
<1>1. Live(w) /\ task[w] \in Tasks /\ task[w] \notin Range(finish)
  BY DEF Finish, Goto, Live, ThreadInv, TypeOK, PlaceInv, Listed
<1>2. /\ finish' \in Seq(Tasks) /\ Inj(finish')
      /\ Range(finish') = Range(finish) \cup {task[w]}
  BY <1>1, AppendList DEF Finish, TypeOK, PlaceInv
<1>3. TypeOK'
  BY <1>2 DEF Finish, Goto, TypeOK, mainVars
<1>4. MainInv'
  BY DEF Finish, MainInv, mainVars
<1>5. ThreadInv'
  BY DEF Finish, Goto, ThreadInv, TypeOK, mainVars
<1>6. PlaceInv'
  <2>1. \A v \in Threads : Live(v)' <=> Live(v) /\ v # w
    BY DEF Finish, Goto, Live, TypeOK
  <2>2. /\ Listed' = Listed \cup {task[w]} /\ hand' = hand /\ reserve' = reserve
        /\ task' = task /\ todo' = todo /\ waiting' = waiting
    BY <1>2 DEF Finish, Listed, mainVars
  <2> QED
    BY <1>1, <1>2, <2>1, <2>2 DEF PlaceInv, Listed
<1> QED
  BY <1>3, <1>4, <1>5, <1>6

LEMMA ClearStep == ASSUME PoolInv, NEW w \in Threads, Clear(w) PROVE PoolInv'
<1> USE DEF PoolInv
<1>1. /\ sem' = sem /\ pc[w] = "clear" /\ pc' = [pc EXCEPT ![w] = "next"]
      /\ task' = IF w \in closed THEN task ELSE [task EXCEPT ![w] = NoTask]
  BY DEF Clear, Goto, AssignTask
<1>2. TypeOK'
  BY <1>1 DEF Clear, TypeOK, mainVars
<1>3. MainInv'
  BY DEF Clear, MainInv, mainVars
<1>4. ThreadInv'
  BY <1>1 DEF Clear, ThreadInv, TypeOK, mainVars
<1>5. \A v \in Threads : Live(v)' => Live(v) /\ task'[v] = task[v]
  BY <1>1 DEF Clear, Live, TypeOK
<1> QED
  BY <1>2, <1>3, <1>4, <1>5, KeepLists DEF Clear

LEMMA TakeNextStep == ASSUME PoolInv, NEW w \in Threads, TakeNext(w) PROVE PoolInv'
<1> USE DEF PoolInv
<1> DEFINE t == Head(waiting)
<1>1. waiting \in Seq(Tasks) /\ waiting # <<>> /\ Inj(waiting)
  BY DEF TakeNext, TypeOK, PlaceInv
<1>2. /\ waiting' \in Seq(Tasks) /\ Inj(waiting') /\ t \in Tasks
      /\ t \notin Range(waiting') /\ Range(waiting) = Range(waiting') \cup {t}
  BY <1>1, TailList DEF TakeNext
<1> HIDE DEF t
<1>3. /\ pc[w] = "next" /\ pc' = [pc EXCEPT ![w] = "wait"] /\ AssignTask(w, t)
      /\ UNCHANGED <<mainVars, idle, busy, finish, closed>>
  BY DEF TakeNext, Goto, t
<1>4. MainInv'
  BY <1>3 DEF MainInv, mainVars
<1>5. Listed = Listed' \cup {t} /\ t \notin Listed'
  BY <1>2, <1>3 DEF Listed, PlaceInv, mainVars
<1>6. CASE w \in closed
  <2>1. task' = task /\ sem' = sem
    BY <1>3, <1>6 DEF AssignTask
  <2>2. TypeOK'
    BY <1>2, <1>3, <2>1 DEF TypeOK, mainVars
  <2>3. ThreadInv'
    BY <1>3, <1>6, <2>1 DEF ThreadInv, TypeOK, mainVars
  <2>4. \A v \in Threads : Live(v)' => Live(v)
    BY <1>3, <1>6, <2>1 DEF Live, TypeOK
  <2>5. PlaceInv'
    BY <1>2, <1>3, <1>5, <2>1, <2>4 DEF PlaceInv, mainVars
  <2> QED
    BY <1>4, <2>2, <2>3, <2>5
<1>7. CASE w \notin closed
  <2>1. task' = [task EXCEPT ![w] = t] /\ sem' = [sem EXCEPT ![w] = @ + 1] /\ t # NoTask
    BY <1>2, <1>3, <1>7, PoolAssumption DEF AssignTask
  <2>2. sem[w] = 0 /\ w \notin idle \cup chosen
    BY <1>3, <1>7 DEF ThreadInv
  <2>3. TypeOK'
    BY <1>2, <1>3, <2>1, <2>2 DEF TypeOK, mainVars
  <2>4. ThreadInv'
    BY <1>3, <1>7, <2>1, <2>2 DEF ThreadInv, TypeOK, mainVars
  <2>5. \A v \in Threads : v # w => (Live(v)' <=> Live(v)) /\ task'[v] = task[v]
    BY <1>3, <2>1 DEF Live, TypeOK
  <2>6. task'[w] = t /\ t \in Listed /\ t \notin reserve \cup {hand}
    BY <1>5, <2>1 DEF TypeOK, PlaceInv
  <2>7. PlaceInv'
    BY <1>2, <1>3, <1>5, <2>5, <2>6 DEF PlaceInv, mainVars
  <2> QED
    BY <1>4, <2>3, <2>4, <2>7
<1> QED
  BY <1>6, <1>7

LEMMA NoneWaitingStep == ASSUME PoolInv, NEW w \in Threads, NoneWaiting(w) PROVE PoolInv'
<1> USE DEF PoolInv
<1>1. TypeOK'
  BY DEF NoneWaiting, Goto, TypeOK, mainVars
<1>2. MainInv'
  BY DEF NoneWaiting, MainInv, mainVars
<1>3. ThreadInv'
  BY DEF NoneWaiting, Goto, ThreadInv, TypeOK, mainVars
<1>4. \A v \in Threads : Live(v)' => Live(v) /\ task'[v] = task[v]
  BY DEF NoneWaiting, Goto, Live, TypeOK
<1> QED
  BY <1>1, <1>2, <1>3, <1>4, KeepLists DEF NoneWaiting

LEMMA LeaveStep == ASSUME PoolInv, NEW w \in Threads, Leave(w) PROVE PoolInv'
<1> USE DEF PoolInv
<1>1. w \in busy /\ w \notin idle \cup chosen /\ (w \notin closed => task[w] = NoTask)
  BY DEF Leave, Goto, ThreadInv
<1>2. TypeOK'
  BY DEF Leave, Goto, TypeOK, mainVars
<1>3. MainInv'
  BY DEF Leave, MainInv, mainVars
<1>4. ThreadInv'
  BY <1>1 DEF Leave, Goto, ThreadInv, TypeOK, mainVars
<1>5. \A v \in Threads : Live(v)' => Live(v) /\ task'[v] = task[v]
  BY <1>1 DEF Leave, Goto, Live, TypeOK
<1> QED
  BY <1>2, <1>3, <1>4, <1>5, KeepLists DEF Leave

LEMMA PoolNext == PoolInv /\ [Next]_vars => PoolInv'
<1> SUFFICES ASSUME PoolInv, [Next]_vars PROVE PoolInv'
  OBVIOUS
<1>1. CASE CloseAll \/ Closed
  BY <1>1, CloseAllStep
<1>2. CASE Assign
  BY <1>2, AssignStep
<1>3. CASE Queue
  BY <1>3, QueueStep
<1>4. CASE Collect
  BY <1>4, CollectStep
<1>5. CASE Callback
  BY <1>5, CallbackStep
<1>6. CASE \E w \in Threads : Close(w)
  BY <1>6, CloseStep
<1>7. CASE \E t \in Tasks : Post(t)
  BY <1>7, PostStep
<1>8. ASSUME NEW w \in Threads, Run(w) PROVE PoolInv'
  BY <1>8, WakeStep, EndStep, FinishStep, ClearStep, TakeNextStep, NoneWaitingStep,
     LeaveStep DEF Run
<1>9. CASE UNCHANGED vars
  BY <1>9 DEF vars, PoolInv, TypeOK, MainInv, ThreadInv, PlaceInv, Listed, Live
<1> QED
  BY <1>1, <1>2, <1>3, <1>4, <1>5, <1>6, <1>7, <1>8, <1>9 DEF Next, Main

LEMMA PoolAlways == Spec => []PoolInv
BY PoolInit, PoolNext, PTL DEF Spec

(* The type invariant: in particular a semaphore never counts more than one     *)
(* task and the closing, however assignments, performing and closing interleave. *)
THEOREM PoolTypeCorrect == Spec => []TypeOK
<1>1. PoolInv => TypeOK
  BY DEF PoolInv
<1> QED
  BY <1>1, PoolAlways, PTL

(* Every thread is on one list, and one taken from the idle ones has nothing to *)
(* do: neither the "big bug" of onThreadFinishTask nor an overwritten task.     *)
THEOREM ThreadsAccountedCorrect == Spec => []ThreadsAccounted
<1>1. PoolInv => ThreadsAccounted
  BY DEF PoolInv, ThreadInv, ThreadsAccounted, TypeOK
<1> QED
  BY <1>1, PoolAlways, PTL

-----------------------------------------------------------------------------
(* The refinement.  A task is done, pending or in reserve, or it was dropped;  *)
(* PoolInv makes the three sets disjoint, so that a step that moves a task     *)
(* between them moves it from one stage of JobPool to another.                 *)
DoneTasks    == Range(finish) \cup Range(todo)
LiveTasks    == {task[w] : w \in {v \in Threads : Live(v)}}
PendingTasks == {t \in Tasks : t = hand} \cup Range(waiting) \cup LiveTasks

Stages ==
  \A t \in Tasks : JobOf(t) = IF t \in DoneTasks THEN "done"
                              ELSE IF t \in PendingTasks THEN "pending"
                              ELSE IF t \in reserve THEN "free" ELSE "dropped"

LEMMA JobOfSets == PoolInv => Stages
<1> SUFFICES ASSUME PoolInv, NEW t \in Tasks
             PROVE  JobOf(t) = IF t \in DoneTasks THEN "done"
                               ELSE IF t \in PendingTasks THEN "pending"
                               ELSE IF t \in reserve THEN "free" ELSE "dropped"
  BY DEF Stages
<1>1. \A w \in Threads : Live(w) => task[w] # NoTask
  BY DEF PoolInv, ThreadInv, Live
<1>2. Assigned(t) <=> t \in LiveTasks
  BY <1>1, PoolAssumption DEF Assigned, LiveTasks, Live
<1> QED
  BY <1>2 DEF JobOf, DoneTasks, PendingTasks

LEMMA JobOfSetsNext == PoolInv' => Stages'
BY JobOfSets, PTL

LEMMA StagesDisjoint ==
  ASSUME PoolInv
  PROVE  /\ DoneTasks \cap PendingTasks = {} /\ DoneTasks \cap reserve = {}
         /\ PendingTasks \cap reserve = {} /\ DoneTasks \subseteq Tasks
         /\ PendingTasks \subseteq Tasks
<1>1. \A w \in Threads : Live(w) => task[w] \in Tasks
  BY DEF PoolInv, ThreadInv, TypeOK, Live
<1> QED
  BY <1>1, Typed DEF PoolInv, PlaceInv, Listed, DoneTasks, PendingTasks, LiveTasks

(* No task moves *)
LEMMA StagesKept ==
  ASSUME PoolInv, PoolInv', DoneTasks' = DoneTasks, PendingTasks' = PendingTasks,
         reserve' = reserve
  PROVE  [t \in Tasks |-> JobOf(t)]' = [t \in Tasks |-> JobOf(t)]
<1>1. Stages /\ Stages'
  BY JobOfSets, JobOfSetsNext
<1>2. \A t \in Tasks : JobOf(t)' = JobOf(t)
  BY <1>1 DEF Stages
<1> QED
  BY <1>2

(* One task moves *)
LEMMA OneMoves ==
  ASSUME PoolInv, PoolInv', NEW t \in Tasks, NEW from, NEW to,
         JobOf(t) = from, JobOf(t)' = to,
         DoneTasks' \ {t} = DoneTasks \ {t}, PendingTasks' \ {t} = PendingTasks \ {t},
         reserve' \ {t} = reserve \ {t}
  PROVE  Jobs!Move(t, from, to)
<1>1. Stages /\ Stages'
  BY JobOfSets, JobOfSetsNext
<1>2. \A u \in Tasks : u # t => JobOf(u)' = JobOf(u)
  BY <1>1 DEF Stages
<1>3. [u \in Tasks |-> JobOf(u)]' = [[u \in Tasks |-> JobOf(u)] EXCEPT ![t] = to]
  BY <1>2
<1> QED
  BY <1>3 DEF Jobs!Move

LEMMA PostMaps ==
  ASSUME PoolInv, PoolInv', NEW t \in Tasks, Post(t) PROVE Jobs!Post(t)
<1>1. /\ hand = NoTask /\ hand' = t /\ reserve' = reserve \ {t} /\ t \in reserve
      /\ main = "loop" /\ main' \in {"assign", "queue"}
  BY DEF Post, PoolInv, MainInv, NoneIdle, TakeIdle
<1>2. DoneTasks' = DoneTasks /\ LiveTasks' = LiveTasks /\ waiting' = waiting
  BY DEF Post, DoneTasks, LiveTasks, Live, threadVars
<1>3. PendingTasks' = PendingTasks \cup {t}
  BY <1>1, <1>2, PoolAssumption DEF PendingTasks
<1>4. JobOf(t) = "free"
  BY <1>1, JobOfSets, StagesDisjoint DEF Stages
<1>5. JobOf(t)' = "pending"
  BY <1>1, <1>2, <1>3, JobOfSetsNext, StagesDisjoint DEF Stages
<1>6. Jobs!Move(t, "free", "pending")
  BY <1>1, <1>2, <1>3, <1>4, <1>5, OneMoves
<1> QED
  BY <1>1, <1>6 DEF Jobs!Post

LEMMA CallbackMaps ==
  ASSUME PoolInv, PoolInv', Callback PROVE \E t \in Tasks : Jobs!Return(t)
<1>1. todo \in Seq(Tasks) /\ todo # <<>> /\ Inj(todo)
  BY DEF Callback, PoolInv, TypeOK, PlaceInv
<1>0. PICK t \in Tasks : t = Head(todo)
  BY <1>1, TailList
<1>2. t \notin Range(todo') /\ Range(todo) = Range(todo') \cup {t}
  BY <1>0, <1>1, TailList DEF Callback
<1>3. reserve' = reserve \cup {t} /\ main = "loop" /\ UNCHANGED <<main, hand, waiting, finish>>
  BY <1>0 DEF Callback
<1>4. t \notin Range(finish) /\ t \in DoneTasks
  BY <1>2 DEF PoolInv, PlaceInv, DoneTasks
<1>5. DoneTasks' = DoneTasks \ {t}
  BY <1>2, <1>3, <1>4 DEF DoneTasks
<1>6. PendingTasks' = PendingTasks
  BY <1>3 DEF Callback, PendingTasks, LiveTasks, Live, threadVars
<1>7. JobOf(t) = "done"
  BY <1>2, <1>4, JobOfSets DEF Stages
<1>8. JobOf(t)' = "free"
  BY <1>2, <1>3, <1>4, <1>5, <1>6, JobOfSetsNext, StagesDisjoint DEF Stages
<1>9. Jobs!Move(t, "done", "free")
  BY <1>2, <1>3, <1>5, <1>6, <1>7, <1>8, OneMoves
<1> QED
  BY <1>2, <1>3, <1>9 DEF Jobs!Return

LEMMA FinishMaps ==
  ASSUME PoolInv, PoolInv', NEW w \in Threads, Finish(w)
  PROVE  \E t \in Tasks : Jobs!Perform(t)
<1>0. PICK t \in Tasks : t = task[w]
  BY DEF Finish, Goto, PoolInv, ThreadInv, TypeOK
<1>1. Live(w) /\ t \notin Range(finish)
  BY <1>0 DEF Finish, Goto, Live, PoolInv, PlaceInv, Listed
<1>2. Range(finish') = Range(finish) \cup {t}
  BY <1>0, <1>1, AppendList DEF Finish, PoolInv, TypeOK, PlaceInv
<1>3. \A v \in Threads : Live(v)' <=> Live(v) /\ v # w
  BY DEF Finish, Goto, Live, PoolInv, TypeOK
<1>4. UNCHANGED <<main, hand, waiting, todo, reserve, task>>
  BY DEF Finish, mainVars
<1>5. LiveTasks' = LiveTasks \ {t} /\ t \in LiveTasks
  BY <1>0, <1>1, <1>3, <1>4 DEF LiveTasks, PoolInv, PlaceInv
<1>6. DoneTasks' = DoneTasks \cup {t}
  BY <1>2, <1>4 DEF DoneTasks
<1>7. PendingTasks' \ {t} = PendingTasks \ {t} /\ t \in PendingTasks
  BY <1>4, <1>5 DEF PendingTasks
<1>8. JobOf(t) = "pending"
  BY <1>1, <1>7, JobOfSets, StagesDisjoint DEF Stages
<1>9. JobOf(t)' = "done"
  BY <1>1, <1>6, JobOfSetsNext DEF Stages
<1>10. Jobs!Move(t, "pending", "done")
  BY <1>1, <1>4, <1>6, <1>7, <1>8, <1>9, OneMoves
<1> QED
  BY <1>1, <1>4, <1>10 DEF Jobs!Perform

(* A thread told to close drops the task it was about to wake up for *)
LEMMA CloseMaps ==
  ASSUME PoolInv, PoolInv', NEW w \in Threads, Close(w)
  PROVE  UNCHANGED Jobs!vars \/ \E t \in Tasks : Jobs!Drop(t)
<1>1. /\ UNCHANGED <<main, hand, waiting, todo, finish, reserve, task, pc>>
      /\ main = "closing" /\ w \notin closed /\ closed' = closed \cup {w}
  BY DEF Close, mainVars
<1>2. DoneTasks' = DoneTasks
  BY <1>1 DEF DoneTasks
<1>3. CASE pc[w] = "wait" /\ task[w] # NoTask
  <2>0. PICK t \in Tasks : t = task[w]
    BY <1>3 DEF PoolInv, TypeOK
  <2>1. Live(w)
    BY <1>1, <1>3 DEF Live
  <2>2. \A v \in Threads : Live(v)' <=> Live(v) /\ v # w
    BY <1>1, <1>3 DEF Live
  <2>3. LiveTasks' = LiveTasks \ {t} /\ t \in LiveTasks
    BY <1>1, <2>0, <2>1, <2>2 DEF LiveTasks, PoolInv, PlaceInv
  <2>4. t # hand /\ t \notin Range(waiting) /\ t \notin reserve
    BY <2>0, <2>1 DEF PoolInv, PlaceInv, Listed
  <2>5. PendingTasks' = PendingTasks \ {t} /\ t \in PendingTasks
    BY <1>1, <2>3, <2>4 DEF PendingTasks
  <2>6. JobOf(t) = "pending"
    BY <2>1, <2>5, JobOfSets, StagesDisjoint DEF Stages
  <2>7. t \notin DoneTasks
    BY <2>5, StagesDisjoint
  <2>8. JobOf(t)' = "dropped"
    BY <1>1, <1>2, <2>1, <2>4, <2>5, <2>7, JobOfSetsNext DEF Stages
  <2>9. Jobs!Move(t, "pending", "dropped")
    BY <1>1, <1>2, <2>1, <2>5, <2>6, <2>8, OneMoves
  <2> QED
    BY <1>1, <2>1, <2>9 DEF Jobs!Drop
<1>4. CASE ~(pc[w] = "wait" /\ task[w] # NoTask)
  <2>1. \A v \in Threads : Live(v)' <=> Live(v)
    BY <1>1, <1>4 DEF Live
  <2>2. PendingTasks' = PendingTasks
    BY <1>1, <2>1 DEF PendingTasks, LiveTasks
  <2> QED
    BY <1>1, <1>2, <2>2, StagesKept DEF Jobs!vars
<1> QED
  BY <1>3, <1>4

(* A thread already told to close drops the task it takes *)
LEMMA TakeNextMaps ==
  ASSUME PoolInv, PoolInv', NEW w \in Threads, TakeNext(w)
  PROVE  UNCHANGED Jobs!vars \/ \E t \in Tasks : Jobs!Drop(t)
<1>1. waiting \in Seq(Tasks) /\ waiting # <<>> /\ Inj(waiting)
  BY DEF TakeNext, PoolInv, TypeOK, PlaceInv
<1>0. PICK t \in Tasks : t = Head(waiting)
  BY <1>1, TailList
<1>2. t \notin Range(waiting') /\ Range(waiting) = Range(waiting') \cup {t}
  BY <1>0, <1>1, TailList DEF TakeNext
<1>3. /\ pc[w] = "next" /\ pc' = [pc EXCEPT ![w] = "wait"] /\ AssignTask(w, t)
      /\ UNCHANGED <<main, hand, todo, reserve, finish, closed>>
  BY <1>0 DEF TakeNext, Goto, mainVars
<1>4. DoneTasks' = DoneTasks
  BY <1>3 DEF DoneTasks
<1>5. ~Live(w) /\ t # NoTask
  BY <1>2, <1>3, PoolAssumption DEF Live
<1>6. CASE w \in closed
  <2>1. task' = task /\ main \in {"closing", "exit"}
    BY <1>3, <1>6 DEF AssignTask, PoolInv, MainInv
  <2>2. \A v \in Threads : Live(v)' <=> Live(v)
    BY <1>3, <1>6, <2>1 DEF Live, PoolInv, TypeOK
  <2>3. LiveTasks' = LiveTasks
    BY <2>1, <2>2 DEF LiveTasks
  <2>4. t # hand /\ t \notin reserve /\ t \notin LiveTasks /\ t \notin DoneTasks
    BY <1>2 DEF PoolInv, PlaceInv, Listed, LiveTasks, DoneTasks
  <2>5. PendingTasks' = PendingTasks \ {t} /\ t \in PendingTasks
    BY <1>2, <1>3, <2>3, <2>4 DEF PendingTasks
  <2>6. JobOf(t) = "pending"
    BY <1>2, <2>4, <2>5, JobOfSets DEF Stages
  <2>7. JobOf(t)' = "dropped"
    BY <1>2, <1>3, <1>4, <2>4, <2>5, JobOfSetsNext DEF Stages
  <2>8. Jobs!Move(t, "pending", "dropped")
    BY <1>2, <1>3, <1>4, <2>5, <2>6, <2>7, OneMoves
  <2> QED
    BY <1>2, <1>3, <2>1, <2>8 DEF Jobs!Drop
<1>7. CASE w \notin closed
  <2>1. task' = [task EXCEPT ![w] = t]
    BY <1>3, <1>5, <1>7 DEF AssignTask
  <2>2. \A v \in Threads : v # w => (Live(v)' <=> Live(v)) /\ task'[v] = task[v]
    BY <1>3, <2>1 DEF Live, PoolInv, TypeOK
  <2>3. Live(w)' /\ task'[w] = t
    BY <1>3, <1>5, <1>7, <2>1 DEF Live, PoolInv, TypeOK
  <2>4. LiveTasks' = LiveTasks \cup {t}
    BY <1>5, <2>2, <2>3 DEF LiveTasks
  <2>5. PendingTasks' = PendingTasks
    BY <1>2, <1>3, <2>4 DEF PendingTasks
  <2> QED
    BY <1>3, <1>4, <2>5, StagesKept DEF Jobs!vars
<1> QED
  BY <1>6, <1>7

(* The steps of the main thread that move a task within a stage, or none *)
LEMMA MainStutters ==
  ASSUME PoolInv, PoolInv', Assign \/ Queue \/ Collect \/ Closed
  PROVE  UNCHANGED Jobs!vars
<1>1. reserve' = reserve /\ (main \notin {"closing", "exit"})' = (main \notin {"closing", "exit"})
  BY DEF Assign, Queue, Collect, Closed
<1>2. CASE Assign
  <2>1. PICK w \in chosen : AssignTask(w, hand)
    BY <1>2 DEF Assign
  <2>2. w \in Threads /\ w \notin closed /\ hand \in Tasks /\ hand # NoTask
    BY <1>2, PoolAssumption DEF PoolInv, MainInv, TypeOK, Assign
  <2>3. pc[w] = "wait" /\ task[w] = NoTask /\ ~Live(w)
    BY <2>2 DEF PoolInv, MainInv, ThreadInv, TypeOK, Live
  <2>4. task' = [task EXCEPT ![w] = hand] /\ UNCHANGED <<pc, closed, waiting, todo, finish>>
    BY <1>2, <2>1, <2>2 DEF AssignTask, Assign
  <2>5. \A v \in Threads : v # w => (Live(v)' <=> Live(v)) /\ task'[v] = task[v]
    BY <2>4 DEF Live, PoolInv, TypeOK
  <2>6. Live(w)' /\ task'[w] = hand
    BY <2>2, <2>3, <2>4 DEF Live, PoolInv, TypeOK
  <2>7. LiveTasks' = LiveTasks \cup {hand}
    BY <2>2, <2>3, <2>5, <2>6 DEF LiveTasks
  <2>8. hand' = NoTask
    BY <1>2 DEF Assign
  <2>9. PendingTasks' = PendingTasks /\ DoneTasks' = DoneTasks
    BY <2>2, <2>4, <2>7, <2>8, PoolAssumption DEF PendingTasks, DoneTasks
  <2> QED
    BY <1>1, <2>9, StagesKept DEF Jobs!vars
<1>3. CASE Queue
  <2>1. hand \in Tasks /\ hand \notin Range(waiting) /\ Inj(waiting) /\ waiting \in Seq(Tasks)
    BY <1>3, PoolAssumption DEF PoolInv, MainInv, TypeOK, Queue, PlaceInv, Listed
  <2>2. Range(waiting') = Range(waiting) \cup {hand} /\ hand' = NoTask
    BY <1>3, <2>1, AppendList DEF Queue
  <2>3. LiveTasks' = LiveTasks /\ DoneTasks' = DoneTasks
    BY <1>3 DEF Queue, LiveTasks, Live, DoneTasks, threadVars
  <2>4. PendingTasks' = PendingTasks
    BY <2>1, <2>2, <2>3, PoolAssumption DEF PendingTasks
  <2> QED
    BY <1>1, <2>3, <2>4, StagesKept DEF Jobs!vars
<1>4. CASE Collect \/ Closed
  <2>1. PendingTasks' = PendingTasks
    BY <1>4 DEF Collect, Closed, PendingTasks, LiveTasks, Live, threadVars
  <2>2. DoneTasks' = DoneTasks
    BY <1>4, EmptyList DEF Collect, Closed, DoneTasks
  <2> QED
    BY <1>1, <2>1, <2>2, StagesKept DEF Jobs!vars
<1> QED
  BY <1>2, <1>3, <1>4

LEMMA CloseAllMaps == ASSUME PoolInv, PoolInv', CloseAll PROVE Jobs!Close
<1>1. DoneTasks' = DoneTasks /\ PendingTasks' = PendingTasks /\ reserve' = reserve
  BY DEF CloseAll, DoneTasks, PendingTasks, LiveTasks, Live, threadVars
<1>2. main = "loop" /\ main' = "closing"
  BY DEF CloseAll
<1> QED
  BY <1>1, <1>2, StagesKept DEF Jobs!Close

(* The steps of a thread between performing and sleeping, or waking up *)
LEMMA ThreadStutters ==
  ASSUME PoolInv, PoolInv', NEW w \in Threads,
         Wake(w) \/ End(w) \/ Clear(w) \/ NoneWaiting(w) \/ Leave(w)
  PROVE  UNCHANGED Jobs!vars
<1>1. UNCHANGED <<main, hand, waiting, todo, finish, reserve, closed>>
  BY DEF Wake, End, Clear, NoneWaiting, Leave, mainVars
<1>2. \A v \in Threads : (Live(v)' <=> Live(v)) /\ (Live(v) => task'[v] = task[v])
  <2>1. CASE Wake(w)
    BY <2>1 DEF Wake, Goto, Live, PoolInv, ThreadInv, TypeOK
  <2>2. CASE End(w)
    BY <2>2 DEF End, Goto, Live, PoolInv, TypeOK
  <2>3. CASE Clear(w)
    BY <2>3 DEF Clear, Goto, AssignTask, Live, PoolInv, TypeOK
  <2>4. CASE NoneWaiting(w)
    BY <2>4 DEF NoneWaiting, Goto, Live, PoolInv, TypeOK
  <2>5. CASE Leave(w)
    BY <2>5 DEF Leave, Goto, Live, PoolInv, ThreadInv, TypeOK
  <2> QED
    BY <2>1, <2>2, <2>3, <2>4, <2>5
<1>3. LiveTasks' = LiveTasks
  BY <1>2 DEF LiveTasks
<1>4. PendingTasks' = PendingTasks /\ DoneTasks' = DoneTasks
  BY <1>1, <1>3 DEF PendingTasks, DoneTasks
<1> QED
  BY <1>1, <1>4, StagesKept DEF Jobs!vars

(* However postTask, update, closeAll and the threads interleave between two   *)
(* locks, a posted task is performed by one thread, once, and called back      *)
(* once, and none is dropped before closeAll.                                  *)
THEOREM PoolImplementsJobPool == Spec => ImplementsJobPool
<1>1. Init => Jobs!Init
  BY EmptyList, PoolAssumption DEF Init, Jobs!Init, JobOf, Assigned
<1>2. PoolInv /\ PoolInv' /\ [Next]_vars => [Jobs!Next]_(Jobs!vars)
  <2> SUFFICES ASSUME PoolInv, PoolInv', [Next]_vars PROVE [Jobs!Next]_(Jobs!vars)
    OBVIOUS
  <2>1. CASE CloseAll
    BY <2>1, CloseAllMaps DEF Jobs!Next
  <2>2. CASE Assign \/ Queue \/ Collect \/ Closed
    BY <2>2, MainStutters
  <2>3. CASE Callback
    BY <2>3, CallbackMaps DEF Jobs!Next
  <2>4. CASE \E w \in Threads : Close(w)
    BY <2>4, CloseMaps DEF Jobs!Next
  <2>5. CASE \E t \in Tasks : Post(t)
    BY <2>5, PostMaps DEF Jobs!Next
  <2>6. ASSUME NEW w \in Threads, Run(w) PROVE [Jobs!Next]_(Jobs!vars)
    <3>1. CASE Finish(w)
      BY <3>1, FinishMaps DEF Jobs!Next
    <3>2. CASE TakeNext(w)
      BY <3>2, TakeNextMaps DEF Jobs!Next
    <3>3. CASE Wake(w) \/ End(w) \/ Clear(w) \/ NoneWaiting(w) \/ Leave(w)
      BY <3>3, ThreadStutters
    <3> QED
      BY <2>6, <3>1, <3>2, <3>3 DEF Run
  <2>7. CASE UNCHANGED vars
    <3>1. DoneTasks' = DoneTasks /\ PendingTasks' = PendingTasks /\ reserve' = reserve /\ main' = main
      BY <2>7 DEF vars, DoneTasks, PendingTasks, LiveTasks, Live
    <3> QED
      BY <3>1, StagesKept DEF Jobs!vars
  <2> QED
    BY <2>1, <2>2, <2>3, <2>4, <2>5, <2>6, <2>7 DEF Next, Main
<1> QED
  BY <1>1, <1>2, PoolAlways, PTL DEF Spec, ImplementsJobPool, Jobs!Spec
==============================================================================
