---------------------------- MODULE AsyncRequest -----------------------------
(***************************************************************************)
(* CAsyncRequestQuene: a server process (DataServer, MJServer, ...) sends  *)
(* a request to another and gets the answer in a callback.  Both processes *)
(* are connected to CenterServer, which passes messages on to whoever is   *)
(* connected and drops them otherwise.  A request that is not answered is  *)
(* sent again every ten seconds.                                           *)
(*                                                                         *)
(* Each way is one FIFO channel, the TCP links to and from CenterServer    *)
(* taken together.  When a link breaks, what was on it is lost: of a       *)
(* channel the part before or behind CenterServer.                         *)
(***************************************************************************)
EXTENDS Integers, Sequences, FiniteSets

CONSTANTS
  Reqs,          \* the requests the callers make, each one once
  ChanCap,       \* bound: messages in a channel
  MaxCrash,      \* bound: restarts of the requesting process
  QuickRestart   \* may the process be back while its old messages are under way?

ASSUME AsyncAssumption ==
  /\ IsFiniteSet(Reqs) /\ Cardinality(Reqs) <= ChanCap
  /\ ChanCap \in Nat \ {0} /\ MaxCrash \in Nat /\ QuickRestart \in BOOLEAN

VARIABLES
  serial,     \* m_nReqSerailNum
  num,        \* m_mapRunningRequest: the serial number of a running request, else 0
  aged,       \* running requests last sent before the last run of the timer
  up,         \* the requesting process is connected to CenterServer
  srvUp,      \* so is the process that serves the requests
  toServer,   \* MSG_ASYNC_REQUEST under way; req is what the content asks for,
              \* life (history) how often the sender had been restarted
  toClient,   \* MSG_ASYNC_REQUEST_RESULT under way; req is what it answers
  crashes,    \* restarts so far
  stage,      \* history: what has become of each request
  done,       \* history: the requests carried out at least once
  calls,      \* history: how often the callback of a request has run
  got         \* history: pairs <<r, q>>, the callback of r got the answer to q

netVars  == <<up, srvUp, toServer, toClient>>
histVars == <<stage, done, calls, got>>
vars == <<serial, num, aged, up, srvUp, toServer, toClient, crashes, stage, done, calls, got>>

Running == {r \in Reqs : num[r] # 0}
Msg(n, r) == [num |-> n, req |-> r, life |-> crashes]

Prefixes(q) == {SubSeq(q, 1, n) : n \in 0 .. Len(q)}
Suffixes(q) == {SubSeq(q, n, Len(q)) : n \in 1 .. Len(q) + 1}

(* A message of an earlier life of the requesting process, or the answer to one *)
Old(m) == m.life < crashes
SomeOld == \E q \in {toServer, toClient} : \E k \in DOMAIN q : Old(q[k])

-----------------------------------------------------------------------------
Init ==
  /\ serial = 0 /\ num = [r \in Reqs |-> 0] /\ aged = {} /\ crashes = 0
  /\ up = TRUE /\ srvUp = TRUE /\ toServer = <<>> /\ toClient = <<>>
  /\ stage = [r \in Reqs |-> "Idle"] /\ done = {}
  /\ calls = [r \in Reqs |-> 0] /\ got = {}

(* IServerApp::sendMsg: nothing is sent, or kept for later, without a connection *)
Send(ms) ==
  \/ up /\ Len(toServer) + Len(ms) <= ChanCap /\ toServer' = toServer \o ms
  \/ ~up /\ UNCHANGED toServer

(* Faulty: the next number is used, but the counter does not advance *)
Push_SameSerial(r) ==
  /\ stage[r] = "Idle"
  /\ num' = [num EXCEPT ![r] = serial + 1]
  /\ Send(<<Msg(serial + 1, r)>>)
  /\ stage' = [stage EXCEPT ![r] = "Pending"]
  /\ UNCHANGED <<serial, aged, up, srvUp, toClient, crashes, done, calls, got>>

(* Faulty: requests are numbered by the size of the map *)
Push_NumberByCount(r) ==
  /\ stage[r] = "Idle"
  /\ num' = [num EXCEPT ![r] = Cardinality(Running) + 1] /\ serial' = serial + 1
  /\ Send(<<Msg(Cardinality(Running) + 1, r)>>)
  /\ stage' = [stage EXCEPT ![r] = "Pending"]
  /\ UNCHANGED <<aged, up, srvUp, toClient, crashes, done, calls, got>>

(* pushAsyncRequest, from any place in the process, callbacks included *)
Push(r) ==
  /\ stage[r] = "Idle"
  /\ serial' = serial + 1 /\ num' = [num EXCEPT ![r] = serial + 1]
  /\ Send(<<Msg(serial + 1, r)>>)
  /\ stage' = [stage EXCEPT ![r] = "Pending"]
  /\ UNCHANGED <<aged, up, srvUp, toClient, crashes, done, calls, got>>

(* canncelAsyncRequest by the caller *)
Cancel(r) ==
  /\ r \in Running
  /\ num' = [num EXCEPT ![r] = 0] /\ aged' = aged \ {r}
  /\ stage' = [stage EXCEPT ![r] = "Cancelled"]
  /\ UNCHANGED <<serial, netVars, crashes, done, calls, got>>

(* Faulty: a request is only sent again if it has been sent again before *)
Check_NeverDue ==
  /\ Running # {} /\ aged' = Running
  /\ UNCHANGED <<serial, num, netVars, crashes, histVars>>

(* timerCheckReqState, every ten seconds: in the order of the map, what was last *)
(* sent ten seconds ago is sent again.  What was sent since the timer ran last   *)
(* is that old or not, as the seconds of time() are cut; before that, it is.     *)
Check ==
  /\ Running # {}
  /\ \E n \in 0 .. Cardinality(Reqs) : \E q \in [1 .. n -> Running] :
       LET due == {q[k] : k \in 1 .. n} IN
       /\ \A j, k \in 1 .. n : j < k => num[q[j]] < num[q[k]]
       /\ aged \subseteq due
       /\ Send([k \in 1 .. n |-> Msg(num[q[k]], q[k])])
       /\ aged' = Running \ due
  /\ UNCHANGED <<serial, num, up, srvUp, toClient, crashes, histVars>>

(* IServerApp::OnMessage at the serving process: every request gets an answer,   *)
(* whether it is new, sent again, or not known to any module                     *)
Serve ==
  /\ srvUp /\ toServer # <<>> /\ Len(toClient) < ChanCap
  /\ toServer' = Tail(toServer) /\ toClient' = Append(toClient, Head(toServer))
  /\ done' = done \cup {Head(toServer).req}
  /\ UNCHANGED <<serial, num, aged, up, srvUp, crashes, stage, calls, got>>

(* Faulty: the request is not taken out of the map *)
Receive_NoCancel ==
  /\ up /\ toClient # <<>> /\ toClient' = Tail(toClient)
  /\ LET m  == Head(toClient)
         rs == {r \in Running : num[r] = m.num}
     IN  /\ calls' = [r \in Reqs |-> IF r \in rs /\ calls[r] < 2 THEN calls[r] + 1 ELSE calls[r]]
         /\ got' = got \cup {<<r, m.req>> : r \in rs}
         /\ stage' = [r \in Reqs |-> IF r \in rs THEN "Returned" ELSE stage[r]]
  /\ UNCHANGED <<serial, num, aged, up, srvUp, toServer, crashes, done>>

(* onMsg of MSG_ASYNC_REQUEST_RESULT: the callback of the request that runs      *)
(* under this number, if there is one, then the end of the request               *)
Receive ==
  /\ up /\ toClient # <<>> /\ toClient' = Tail(toClient)
  /\ LET m  == Head(toClient)
         rs == {r \in Running : num[r] = m.num}
     IN  /\ calls' = [r \in Reqs |-> IF r \in rs THEN calls[r] + 1 ELSE calls[r]]
         /\ got' = got \cup {<<r, m.req>> : r \in rs}
         /\ stage' = [r \in Reqs |-> IF r \in rs THEN "Returned" ELSE stage[r]]
         /\ num' = [r \in Reqs |-> IF r \in rs THEN 0 ELSE num[r]]
         /\ aged' = aged \ rs
  /\ UNCHANGED <<serial, up, srvUp, toServer, crashes, done>>

-----------------------------------------------------------------------------
(* The links to CenterServer *)

(* What is left when the link of the requesting process breaks: the requests     *)
(* that are past CenterServer, the answers that have not reached it              *)
BreakClientLink ==
  /\ up' = FALSE
  /\ toServer' \in Prefixes(toServer) /\ toClient' \in Suffixes(toClient)
  /\ UNCHANGED srvUp

ClientDown ==
  /\ up /\ BreakClientLink
  /\ UNCHANGED <<serial, num, aged, crashes, histVars>>

ServerDown ==
  /\ srvUp /\ srvUp' = FALSE
  /\ toServer' \in Suffixes(toServer) /\ toClient' \in Prefixes(toClient)
  /\ UNCHANGED <<serial, num, aged, up, crashes, histVars>>

(* IServerApp::update reconnects; a restarted process takes its time, during     *)
(* which the messages of its earlier life come to their end, or does not         *)
ClientUp ==
  /\ ~up /\ (SomeOld => QuickRestart)
  /\ up' = TRUE
  /\ UNCHANGED <<serial, num, aged, srvUp, toServer, toClient, crashes, histVars>>

ServerUp ==
  /\ ~srvUp /\ srvUp' = TRUE
  /\ UNCHANGED <<serial, num, aged, up, toServer, toClient, crashes, histVars>>

(* CCenterServerApp: no connection to the receiver, the message is dropped *)
DropRequest ==
  /\ ~srvUp /\ toServer # <<>> /\ toServer' = Tail(toServer)
  /\ UNCHANGED <<serial, num, aged, up, srvUp, toClient, crashes, histVars>>

DropAnswer ==
  /\ ~up /\ toClient # <<>> /\ toClient' = Tail(toClient)
  /\ UNCHANGED <<serial, num, aged, up, srvUp, toServer, crashes, histVars>>

(* The process ends and starts again: init, with an empty map *)
Restart ==
  /\ crashes < MaxCrash /\ crashes' = crashes + 1
  /\ serial' = 0 /\ num' = [r \in Reqs |-> 0] /\ aged' = {}
  /\ BreakClientLink
  /\ stage' = [r \in Reqs |-> IF stage[r] = "Pending" THEN "Lost" ELSE stage[r]]
  /\ UNCHANGED <<done, calls, got>>

Next ==
  \/ Check \/ Serve \/ Receive \/ Restart
  \/ ClientDown \/ ServerDown \/ ClientUp \/ ServerUp \/ DropRequest \/ DropAnswer
  \/ \E r \in Reqs : Push(r) \/ Cancel(r)

Spec == Init /\ [][Next]_vars

(* Every process runs its loop, its timers and its reconnection for ever *)
LiveSpec ==
  /\ Spec /\ WF_vars(Check) /\ WF_vars(Serve) /\ WF_vars(Receive)
  /\ WF_vars(ClientUp) /\ WF_vars(ServerUp) /\ WF_vars(DropRequest) /\ WF_vars(DropAnswer)

-----------------------------------------------------------------------------
Stages   == {"Idle", "Pending", "Returned", "Cancelled", "Lost"}
Messages == [num : Nat \ {0}, req : Reqs, life : 0 .. crashes]

(* Every variable has its type; no running request has a number that is still    *)
(* to be given.                                                                  *)
TypeOK ==
  /\ serial \in Nat /\ num \in [Reqs -> 0 .. serial] /\ aged \subseteq Running
  /\ up \in BOOLEAN /\ srvUp \in BOOLEAN /\ crashes \in 0 .. MaxCrash
  /\ toServer \in Seq(Messages) /\ toClient \in Seq(Messages)
  /\ stage \in [Reqs -> Stages] /\ done \subseteq Reqs
  /\ calls \in [Reqs -> Nat] /\ got \subseteq Reqs \X Reqs

(* A callback gets the answer to the request it was given with, though answers   *)
(* are matched by number alone, come twice, and numbers start again at 1 when    *)
(* the process does.                                                             *)
OwnAnswer == \A p \in got : p[1] = p[2]

(* The callbacks run as RemoteCall promises: at most once, after the request was *)
(* carried out, never after it was cancelled.                                    *)
RC == INSTANCE RemoteCall
ImplementsRemoteCall == RC!Spec

(* Every request comes to its end in spite of lost messages, if the links do not *)
(* break for ever and ever.                                                      *)
LinkBreaks  == ClientDown \/ ServerDown
EveryCallEnds ==
  <>[][~LinkBreaks]_vars => \A r \in Reqs : stage[r] = "Pending" ~> stage[r] # "Pending"
=============================================================================
