------------------------------- MODULE JobPool -------------------------------
(***************************************************************************)
(* What a pool of work threads promises to the main thread that posts to   *)
(* it: a posted job is performed once and then returned by its callback;   *)
(* a job is dropped only once the pool has been closed.                    *)
(***************************************************************************)
CONSTANT Tasks

VARIABLES
  job,   \* what has become of each task object
  open   \* the pool still accepts jobs

vars == <<job, open>>

JobStates == {"free", "pending", "done", "dropped"}

Init == job = [t \in Tasks |-> "free"] /\ open = TRUE

(* A step of one task from one stage to another *)
Move(t, from, to) == job[t] = from /\ job' = [job EXCEPT ![t] = to]

Post(t)    == open /\ Move(t, "free", "pending") /\ UNCHANGED open
Perform(t) == Move(t, "pending", "done") /\ UNCHANGED open
Return(t)  == open /\ Move(t, "done", "free") /\ UNCHANGED open
Close      == open /\ open' = FALSE /\ UNCHANGED job
Drop(t)    == ~open /\ Move(t, "pending", "dropped") /\ UNCHANGED open

Next == Close \/ \E t \in Tasks : Post(t) \/ Perform(t) \/ Return(t) \/ Drop(t)

Spec == Init /\ [][Next]_vars
==============================================================================
