----------------------------- MODULE RemoteCall ------------------------------
(***************************************************************************)
(* What a request between two server processes promises its caller, free   *)
(* of queues, serial numbers and links: AsyncRequest implements it.  A     *)
(* request is carried out at least once before its callback runs, and may  *)
(* be carried out again at any time; the callback runs at most once, and   *)
(* not at all for a request that was given up.                             *)
(***************************************************************************)
EXTENDS Integers

CONSTANT Reqs

VARIABLES
  stage,    \* "Idle", "Pending", "Returned", "Cancelled" or "Lost"
  done,     \* requests carried out at least once
  calls     \* how often the callback of a request has run

callVars == <<stage, done, calls>>

Init ==
  /\ stage = [r \in Reqs |-> "Idle"]
  /\ done = {} /\ calls = [r \in Reqs |-> 0]

Call(r) ==
  /\ stage[r] = "Idle" /\ stage' = [stage EXCEPT ![r] = "Pending"]
  /\ UNCHANGED <<done, calls>>

Execute(r) ==
  /\ stage[r] # "Idle" /\ done' = done \cup {r}
  /\ UNCHANGED <<stage, calls>>

Return(r) ==
  /\ stage[r] = "Pending" /\ r \in done
  /\ stage' = [stage EXCEPT ![r] = "Returned"]
  /\ calls' = [calls EXCEPT ![r] = @ + 1]
  /\ UNCHANGED done

Cancel(r) ==
  /\ stage[r] = "Pending" /\ stage' = [stage EXCEPT ![r] = "Cancelled"]
  /\ UNCHANGED <<done, calls>>

(* The process of the caller ends, and with it all it was waiting for *)
Forget ==
  /\ stage' = [r \in Reqs |-> IF stage[r] = "Pending" THEN "Lost" ELSE stage[r]]
  /\ UNCHANGED <<done, calls>>

Next ==
  \/ Forget
  \/ \E r \in Reqs : Call(r) \/ Execute(r) \/ Return(r) \/ Cancel(r)

Spec == Init /\ [][Next]_callVars
=============================================================================
