------------------------ MODULE AsyncRequest_proofs -------------------------
(***************************************************************************)
(* AsyncRequest, for every set of requests, number of restarts and         *)
(* capacity of the channels: the numbers match answers and requests, and   *)
(* the queue implements RemoteCall.  What holds of the messages under way  *)
(* is said of the set of them; the first lemmas say what each operation on *)
(* a channel does to that set.                                             *)
(***************************************************************************)
EXTENDS AsyncRequest, TLAPS

Elems(q) == {q[k] : k \in DOMAIN q}

LEMMA ElemsType == ASSUME NEW S, NEW q \in Seq(S) PROVE Elems(q) \subseteq S
BY DEF Elems

LEMMA ElemsTail ==
  ASSUME NEW S, NEW q \in Seq(S), q # <<>>
  PROVE  Tail(q) \in Seq(S) /\ Elems(Tail(q)) \subseteq Elems(q) /\ Head(q) \in Elems(q)
<1>1. Tail(q) \in Seq(S) /\ Len(q) > 0 /\ DOMAIN q = 1 .. Len(q)
  OBVIOUS
<1>2. DOMAIN Tail(q) = 1 .. Len(q) - 1 /\ \A k \in DOMAIN Tail(q) : Tail(q)[k] = q[k + 1]
  OBVIOUS
<1>3. Head(q) = q[1] /\ 1 \in DOMAIN q
  BY <1>1
<1>4. \A k \in DOMAIN Tail(q) : k + 1 \in DOMAIN q
  BY <1>1, <1>2
<1> QED
  BY <1>1, <1>2, <1>3, <1>4 DEF Elems

LEMMA ElemsAppend ==
  ASSUME NEW S, NEW q \in Seq(S), NEW e \in S
  PROVE  Append(q, e) \in Seq(S) /\ Elems(Append(q, e)) = Elems(q) \cup {e}
<1>1. /\ DOMAIN Append(q, e) = 1 .. Len(q) + 1 /\ DOMAIN q = 1 .. Len(q)
      /\ \A k \in 1 .. Len(q) : Append(q, e)[k] = q[k]
      /\ Append(q, e)[Len(q) + 1] = e
  OBVIOUS
<1>2. 1 .. Len(q) + 1 = (1 .. Len(q)) \cup {Len(q) + 1}
  BY SMT
<1>3. Append(q, e) \in Seq(S)
  OBVIOUS
<1> QED
  BY <1>1, <1>2, <1>3 DEF Elems

LEMMA ElemsConcat ==
  ASSUME NEW S, NEW q \in Seq(S), NEW p \in Seq(S)
  PROVE  q \o p \in Seq(S) /\ Elems(q \o p) \subseteq Elems(q) \cup Elems(p)
<1>1. /\ q \o p \in Seq(S) /\ DOMAIN (q \o p) = 1 .. Len(q) + Len(p)
      /\ DOMAIN q = 1 .. Len(q) /\ DOMAIN p = 1 .. Len(p)
  OBVIOUS
<1>2. ASSUME NEW k \in DOMAIN (q \o p) PROVE (q \o p)[k] \in Elems(q) \cup Elems(p)
  <2>1. CASE k <= Len(q)
    BY <1>1, <2>1 DEF Elems
  <2>2. CASE k > Len(q)
    <3>1. (q \o p)[k] = p[k - Len(q)] /\ k - Len(q) \in 1 .. Len(p)
      BY <1>1, <2>2
    <3> QED
      BY <1>1, <3>1 DEF Elems
  <2> QED
    BY <1>1, <2>1, <2>2
<1> QED
  BY <1>1, <1>2 DEF Elems

LEMMA ElemsSubSeq ==
  ASSUME NEW S, NEW q \in Seq(S), NEW m \in Nat \ {0}, NEW n \in 0 .. Len(q)
  PROVE  SubSeq(q, m, n) \in Seq(S) /\ Elems(SubSeq(q, m, n)) \subseteq Elems(q)
<1>1. SubSeq(q, m, n) \in Seq(S)
  OBVIOUS
<1>2. /\ DOMAIN SubSeq(q, m, n) = IF m <= n THEN 1 .. n - m + 1 ELSE {}
      /\ \A k \in DOMAIN SubSeq(q, m, n) : SubSeq(q, m, n)[k] = q[m + k - 1]
  OBVIOUS
<1>3. \A k \in DOMAIN SubSeq(q, m, n) : m + k - 1 \in DOMAIN q
  BY <1>2
<1> QED
  BY <1>1, <1>2, <1>3 DEF Elems

LEMMA ElemsPart ==
  ASSUME NEW S, NEW q \in Seq(S), NEW p \in Prefixes(q) \cup Suffixes(q)
  PROVE  p \in Seq(S) /\ Elems(p) \subseteq Elems(q)
<1>1. CASE p \in Prefixes(q)
  <2>1. PICK n \in 0 .. Len(q) : p = SubSeq(q, 1, n)
    BY <1>1 DEF Prefixes
  <2> QED
    BY <2>1, ElemsSubSeq
<1>2. CASE p \in Suffixes(q)
  <2>1. PICK n \in 1 .. Len(q) + 1 : p = SubSeq(q, n, Len(q))
    BY <1>2 DEF Suffixes
  <2>2. n \in Nat \ {0} /\ Len(q) \in 0 .. Len(q)
    OBVIOUS
  <2> QED
    BY <2>1, <2>2, ElemsSubSeq
<1> QED
  BY <1>1, <1>2

LEMMA SeqWiden ==
  ASSUME NEW S, NEW T, NEW q \in Seq(S), Elems(q) \subseteq T PROVE q \in Seq(T)
<1>1. Len(q) \in Nat /\ q \in [1 .. Len(q) -> S] /\ DOMAIN q = 1 .. Len(q)
  OBVIOUS
<1>2. q \in [1 .. Len(q) -> T]
  BY <1>1 DEF Elems
<1> QED
  BY <1>1, <1>2

-----------------------------------------------------------------------------
(* The messages under way in either direction *)
UnderWay == Elems(toServer) \cup Elems(toClient)

(* The inductive invariant.  A message that was sent in the present life of the *)
(* process has a number already given, and if a request runs under it, it is    *)
(* the request the message is about.  Once the process is connected again there *)
(* is no other message, unless it was quick.                                    *)
QueueInv ==
  /\ TypeOK
  /\ \A r \in Reqs : num[r] # 0 <=> stage[r] = "Pending"
  /\ \A r, q \in Running : num[r] = num[q] => r = q
  /\ \A m \in UnderWay : stage[m.req] # "Idle"
  /\ \A m \in UnderWay : m.life = crashes =>
       m.num <= serial /\ \A r \in Running : num[r] = m.num => r = m.req
  /\ \A m \in Elems(toClient) : m.req \in done
  /\ up /\ ~QuickRestart => \A m \in UnderWay : m.life = crashes
  /\ ~QuickRestart => OwnAnswer

LEMMA QueueInit == Init => QueueInv
<1> SUFFICES ASSUME Init PROVE QueueInv
  OBVIOUS
<1>1. Elems(toServer) = {} /\ Elems(toClient) = {}
  BY DEF Init, Elems
<1>2. TypeOK
  BY AsyncAssumption DEF Init, TypeOK, Stages, Running
<1> QED
  BY <1>1, <1>2 DEF Init, QueueInv, UnderWay, Running, OwnAnswer

(* Messages have the type the invariant speaks of *)
LEMMA UnderWayType == ASSUME TypeOK PROVE UnderWay \subseteq Messages
BY ElemsType DEF TypeOK, UnderWay

(* Steps of the links and of CenterServer: messages only disappear, and the     *)
(* connection only comes back when no old one is left or that is allowed.       *)
LEMMA LinkSteps ==
  ASSUME QueueInv,
         UNCHANGED <<serial, num, aged, crashes, histVars>>,
         toServer' \in Seq(Messages), toClient' \in Seq(Messages),
         Elems(toServer') \subseteq Elems(toServer), Elems(toClient') \subseteq Elems(toClient),
         up' \in BOOLEAN, srvUp' \in BOOLEAN,
         up' /\ ~QuickRestart => \A m \in UnderWay : m.life = crashes
  PROVE  QueueInv'
<1>1. UnderWay' \subseteq UnderWay /\ Running' = Running
  BY DEF UnderWay, Running, histVars
<1>2. TypeOK'
  BY <1>1 DEF QueueInv, TypeOK, histVars, Messages
<1> QED
  BY <1>1, <1>2 DEF QueueInv, histVars, OwnAnswer

(* What is sent is under way afterwards, or nothing is *)
LEMMA SendElems ==
  ASSUME toServer \in Seq(Messages), NEW ms, ms \in Seq(Messages), Send(ms)
  PROVE  /\ toServer' \in Seq(Messages)
         /\ Elems(toServer') \subseteq Elems(toServer) \cup Elems(ms)
<1>1. CASE toServer' = toServer \o ms
  BY <1>1, ElemsConcat
<1>2. CASE toServer' = toServer
  BY <1>2
<1> QED
  BY <1>1, <1>2 DEF Send

LEMMA PushStep == ASSUME QueueInv, NEW r \in Reqs, Push(r) PROVE QueueInv'
<1> DEFINE new == Msg(serial + 1, r)
<1> USE DEF QueueInv
<1>t. TypeOK
  OBVIOUS
<1>1. /\ serial' = serial + 1 /\ num' = [num EXCEPT ![r] = serial + 1] /\ aged' = aged
      /\ stage' = [stage EXCEPT ![r] = "Pending"] /\ stage[r] = "Idle"
      /\ up' = up /\ srvUp' = srvUp /\ toClient' = toClient /\ crashes' = crashes
      /\ done' = done /\ calls' = calls /\ got' = got
  BY DEF Push, Send
<1>2. num[r] = 0 /\ serial \in Nat /\ num \in [Reqs -> 0 .. serial]
  BY <1>1, <1>t DEF TypeOK
<1>3. new \in Messages /\ Messages' = Messages
  BY <1>1, <1>2, <1>t DEF Messages, Msg, TypeOK
<1>4. /\ toServer' \in Seq(Messages)
      /\ Elems(toServer') \subseteq Elems(toServer) \cup {new}
  <2>1. Send(<<new>>) /\ toServer \in Seq(Messages)
    BY <1>t DEF Push, TypeOK
  <2> HIDE DEF new
  <2>2. <<new>> \in Seq(Messages) /\ Elems(<<new>>) = {new}
    BY <1>3 DEF Elems
  <2> QED
    BY <2>1, <2>2, SendElems
<1>5. UnderWay' \subseteq UnderWay \cup {new}
  BY <1>1, <1>4 DEF UnderWay
<1>6. Running' = Running \cup {r} /\ r \notin Running
  BY <1>1, <1>2 DEF Running
<1>7. TypeOK'
  BY <1>1, <1>2, <1>3, <1>4, <1>6, <1>t DEF TypeOK, Stages
<1>8. \A m \in UnderWay : m \in Messages
  BY <1>t, UnderWayType
<1>9. \A q \in Running : num'[q] = num[q] /\ num'[q] <= serial /\ q # r
  BY <1>1, <1>2, <1>6 DEF Running
<1>10. \A m \in UnderWay' : stage'[m.req] # "Idle"
  BY <1>1, <1>5, <1>8, <1>t DEF Messages, Msg, TypeOK
<1>11. \A m \in UnderWay' : m.life = crashes' =>
         m.num <= serial' /\ \A q \in Running' : num'[q] = m.num => q = m.req
  <2> SUFFICES ASSUME NEW m \in UnderWay', m.life = crashes
               PROVE  m.num <= serial' /\ \A q \in Running' : num'[q] = m.num => q = m.req
    BY <1>1
  <2>1. CASE m = new
    <3>1. m.num = serial + 1 /\ m.req = r
      BY <2>1 DEF Msg
    <3> QED
      BY <3>1, <1>1, <1>2, <1>6, <1>9
  <2>2. CASE m \in UnderWay
    <3>1. m.num <= serial /\ m.num \in Nat /\ \A q \in Running : num[q] = m.num => q = m.req
      BY <2>2, <1>8 DEF Messages
    <3>2. num'[r] = serial + 1 /\ m.num # serial + 1
      BY <3>1, <1>1, <1>2 DEF TypeOK
    <3> QED
      BY <3>1, <3>2, <1>1, <1>2, <1>6, <1>9
  <2> QED
    BY <2>1, <2>2, <1>5
<1>12. \A p, q \in Running' : num'[p] = num'[q] => p = q
  <2>1. num'[r] = serial + 1
    BY <1>1, <1>2
  <2> QED
    BY <2>1, <1>2, <1>6, <1>9
<1>13. \A q \in Reqs : num'[q] # 0 <=> stage'[q] = "Pending"
  BY <1>1, <1>2, <1>t DEF TypeOK
<1>14. up' /\ ~QuickRestart => \A m \in UnderWay' : m.life = crashes'
  BY <1>1, <1>5 DEF Msg
<1> QED
  BY <1>1, <1>7, <1>10, <1>11, <1>12, <1>13, <1>14 DEF OwnAnswer

LEMMA CancelStep == ASSUME QueueInv, NEW r \in Reqs, Cancel(r) PROVE QueueInv'
<1> USE DEF QueueInv
<1>1. /\ num' = [num EXCEPT ![r] = 0] /\ aged' = aged \ {r} /\ r \in Running
      /\ stage' = [stage EXCEPT ![r] = "Cancelled"]
      /\ UNCHANGED <<serial, up, srvUp, toServer, toClient, crashes, done, calls, got>>
  BY DEF Cancel, netVars
<1>2. Running' = Running \ {r} /\ UnderWay' = UnderWay
  BY <1>1 DEF Running, UnderWay, TypeOK
<1>3. TypeOK'
  BY <1>1, <1>2 DEF TypeOK, Messages, Stages
<1>4. \A m \in UnderWay' : stage'[m.req] # "Idle"
  BY <1>1, <1>2, UnderWayType DEF TypeOK, Messages
<1>5. \A q \in Running' : num'[q] = num[q]
  BY <1>1, <1>2 DEF TypeOK, Running
<1> QED
  BY <1>1, <1>2, <1>3, <1>4, <1>5 DEF TypeOK, OwnAnswer

LEMMA CheckStep == ASSUME QueueInv, Check PROVE QueueInv'
<1> USE DEF QueueInv
<1>1. /\ UNCHANGED <<serial, num, up, srvUp, toClient, crashes, stage, done, calls, got>>
      /\ aged' \subseteq Running /\ Running' = Running
  BY DEF Check, histVars, Running
<1>2. PICK n \in 0 .. Cardinality(Reqs) :
        \E q \in [1 .. n -> Running] : Send([k \in 1 .. n |-> Msg(num[q[k]], q[k])])
  BY DEF Check
<1>3. PICK q \in [1 .. n -> Running] : Send([k \in 1 .. n |-> Msg(num[q[k]], q[k])])
  BY <1>2
<1> DEFINE ms == [k \in 1 .. n |-> Msg(num[q[k]], q[k])]
<1>4. \A r \in Running : r \in Reqs /\ Msg(num[r], r) \in Messages
  BY DEF Running, Msg, Messages, TypeOK
<1>5. ms \in Seq(Messages)
  <2>1. n \in Nat
    BY <1>2
  <2> QED
    BY <2>1, <1>4
<1>6. \A m \in Elems(ms) : \E r \in Running : m = Msg(num[r], r)
  BY DEF Elems
<1>7. Send(ms) /\ toServer \in Seq(Messages)
  BY <1>3 DEF TypeOK
<1>8. toServer' \in Seq(Messages) /\ Elems(toServer') \subseteq Elems(toServer) \cup Elems(ms)
  <2> HIDE DEF ms
  <2> QED
    BY <1>5, <1>7, SendElems
<1>9. \A m \in UnderWay' : m \in UnderWay \/ \E r \in Running : m = Msg(num[r], r)
  BY <1>1, <1>6, <1>8 DEF UnderWay
<1>10. TypeOK'
  BY <1>1, <1>8 DEF TypeOK, Messages
<1>11. ASSUME NEW r \in Running
       PROVE  /\ Msg(num[r], r).num = num[r] /\ Msg(num[r], r).req = r
              /\ Msg(num[r], r).life = crashes /\ num[r] <= serial /\ stage[r] = "Pending"
  BY DEF Msg, Running, TypeOK
<1>12. \A m \in UnderWay' : stage'[m.req] # "Idle"
  BY <1>1, <1>9, <1>11
<1>13. \A m \in UnderWay' : m.life = crashes' =>
         m.num <= serial' /\ \A r \in Running' : num'[r] = m.num => r = m.req
  BY <1>1, <1>9, <1>11
<1>14. up' /\ ~QuickRestart => \A m \in UnderWay' : m.life = crashes'
  BY <1>1, <1>9, <1>11
<1> QED
  BY <1>1, <1>10, <1>12, <1>13, <1>14 DEF OwnAnswer

LEMMA ServeStep == ASSUME QueueInv, Serve PROVE QueueInv'
<1> USE DEF QueueInv
<1> DEFINE m0 == Head(toServer)
<1>1. /\ toServer \in Seq(Messages) /\ toServer # <<>> /\ toClient \in Seq(Messages)
      /\ toServer' = Tail(toServer) /\ toClient' = Append(toClient, m0)
      /\ done' = done \cup {m0.req}
      /\ UNCHANGED <<serial, num, aged, up, srvUp, crashes, stage, calls, got>>
  BY DEF Serve, TypeOK
<1>2. Tail(toServer) \in Seq(Messages) /\ Elems(toServer') \subseteq Elems(toServer) /\ m0 \in Elems(toServer)
  BY <1>1, ElemsTail
<1>3. m0 \in Messages
  BY <1>1, <1>2, ElemsType
<1>4. toClient' \in Seq(Messages) /\ Elems(toClient') = Elems(toClient) \cup {m0}
  BY <1>1, <1>3, ElemsAppend
<1>5. UnderWay' \subseteq UnderWay /\ Running' = Running
  BY <1>1, <1>2, <1>4 DEF UnderWay, Running
<1>6. TypeOK'
  BY <1>1, <1>2, <1>3, <1>4, <1>5 DEF TypeOK, Messages
<1>7. \A m \in Elems(toClient') : m.req \in done'
  BY <1>1, <1>4
<1> QED
  BY <1>1, <1>5, <1>6, <1>7 DEF OwnAnswer

(* The requests an answer is taken for: at most one, the one it is about *)
LEMMA AnsweredOne ==
  ASSUME QueueInv, up, toClient # <<>>, NEW r \in Running, num[r] = Head(toClient).num
  PROVE  /\ stage[r] = "Pending" /\ {q \in Running : num[q] = Head(toClient).num} = {r}
         /\ ~QuickRestart => r = Head(toClient).req /\ r \in done
<1>1. Head(toClient) \in Elems(toClient) /\ Head(toClient) \in UnderWay
  BY ElemsTail DEF QueueInv, TypeOK, UnderWay
<1> QED
  BY <1>1 DEF QueueInv, Running

LEMMA ReceiveStep == ASSUME QueueInv, Receive PROVE QueueInv'
<1> USE DEF QueueInv
<1> DEFINE m0 == Head(toClient)
           rs == {r \in Running : num[r] = m0.num}
<1>1. /\ toClient \in Seq(Messages) /\ toClient # <<>> /\ up
      /\ toClient' = Tail(toClient)
      /\ UNCHANGED <<serial, up, srvUp, toServer, crashes, done>>
      /\ calls' = [r \in Reqs |-> IF r \in rs THEN calls[r] + 1 ELSE calls[r]]
      /\ got' = got \cup {<<r, m0.req>> : r \in rs}
      /\ stage' = [r \in Reqs |-> IF r \in rs THEN "Returned" ELSE stage[r]]
      /\ num' = [r \in Reqs |-> IF r \in rs THEN 0 ELSE num[r]]
      /\ aged' = aged \ rs
  BY DEF Receive, TypeOK
<1>2. Tail(toClient) \in Seq(Messages) /\ Elems(toClient') \subseteq Elems(toClient) /\ m0 \in Elems(toClient)
  BY <1>1, ElemsTail
<1>3. UnderWay' \subseteq UnderWay /\ m0 \in Messages
  BY <1>1, <1>2, ElemsType DEF UnderWay
<1>4. rs \subseteq Running /\ Running \subseteq Reqs
  BY DEF Running
<1>4a. \A r \in rs : ~QuickRestart => r = m0.req
  BY <1>1, AnsweredOne
<1> HIDE DEF rs
<1>5. Running' = Running \ rs
  BY <1>1, <1>4 DEF Running
<1>6. TypeOK'
  <2>1. num' \in [Reqs -> 0 .. serial]
    BY <1>1 DEF TypeOK
  <2>2. stage' \in [Reqs -> Stages]
    BY <1>1 DEF TypeOK, Stages
  <2>3. calls' \in [Reqs -> Nat]
    BY <1>1 DEF TypeOK
  <2>4. got' \subseteq Reqs \X Reqs
    <3>1. \A r \in rs : <<r, m0.req>> \in Reqs \X Reqs
      BY <1>3, <1>4 DEF Messages
    <3> QED
      BY <1>1, <3>1 DEF TypeOK
  <2> QED
    BY <1>1, <1>2, <1>5, <2>1, <2>2, <2>3, <2>4 DEF TypeOK, Messages
<1>7. \A r \in Reqs : num'[r] # 0 <=> stage'[r] = "Pending"
  BY <1>1
<1>8. \A r \in Running' : num'[r] = num[r] /\ r \in Running
  BY <1>1, <1>4, <1>5
<1>9. \A m \in UnderWay' : stage'[m.req] # "Idle"
  <2>1. ASSUME NEW m \in UnderWay'
        PROVE  m.req \in Reqs /\ stage[m.req] # "Idle"
    BY <1>3, <2>1, UnderWayType DEF Messages
  <2>2. \A r \in Reqs : stage[r] # "Idle" => stage'[r] # "Idle"
    BY <1>1
  <2> QED
    BY <2>1, <2>2
<1>10. ~QuickRestart => OwnAnswer'
  BY <1>1, <1>4a DEF OwnAnswer
<1>11. \A m \in UnderWay' : m.life = crashes' =>
         m.num <= serial' /\ \A r \in Running' : num'[r] = m.num => r = m.req
  BY <1>1, <1>3, <1>8
<1>12. \A m \in Elems(toClient') : m.req \in done'
  BY <1>1, <1>2
<1>13. \A r, q \in Running' : num'[r] = num'[q] => r = q
  BY <1>8
<1>14. up' /\ ~QuickRestart => \A m \in UnderWay' : m.life = crashes'
  BY <1>1, <1>3
<1> QED
  BY <1>6, <1>7, <1>9, <1>10, <1>11, <1>12, <1>13, <1>14

LEMMA RestartStep == ASSUME QueueInv, Restart PROVE QueueInv'
<1> USE DEF QueueInv
<1>1. /\ crashes' = crashes + 1 /\ crashes < MaxCrash /\ serial' = 0 /\ aged' = {}
      /\ num' = [r \in Reqs |-> 0] /\ up' = FALSE /\ srvUp' = srvUp
      /\ toServer' \in Prefixes(toServer) /\ toClient' \in Suffixes(toClient)
      /\ stage' = [r \in Reqs |-> IF stage[r] = "Pending" THEN "Lost" ELSE stage[r]]
      /\ UNCHANGED <<done, calls, got>>
  BY DEF Restart, BreakClientLink
<1>2. crashes \in Nat /\ MaxCrash \in Nat /\ toServer \in Seq(Messages) /\ toClient \in Seq(Messages)
  BY AsyncAssumption DEF TypeOK
<1>3. \A m \in Messages : m \in Messages' /\ m.life # crashes'
  BY <1>1, <1>2 DEF Messages
<1>4. /\ toServer' \in Seq(Messages) /\ Elems(toServer') \subseteq Elems(toServer)
      /\ toClient' \in Seq(Messages) /\ Elems(toClient') \subseteq Elems(toClient)
  BY <1>1, <1>2, ElemsPart
<1>5. toServer' \in Seq(Messages') /\ toClient' \in Seq(Messages')
  <2>1. Elems(toServer') \subseteq Messages' /\ Elems(toClient') \subseteq Messages'
    BY <1>2, <1>3, <1>4, ElemsType
  <2> QED
    BY <1>4, <2>1, SeqWiden
<1>6. UnderWay' \subseteq UnderWay /\ UnderWay \subseteq Messages /\ Running' = {}
  BY <1>1, <1>4, UnderWayType DEF UnderWay, Running
<1>7. TypeOK'
  <2>1. serial' \in Nat /\ num' \in [Reqs -> 0 .. serial'] /\ aged' \subseteq Running'
    BY <1>1, <1>6
  <2>2. up' \in BOOLEAN /\ srvUp' \in BOOLEAN
    BY <1>1 DEF TypeOK
  <2>2a. crashes' \in 0 .. MaxCrash
    BY <1>1, <1>2
  <2>3. stage' \in [Reqs -> Stages]
    BY <1>1 DEF TypeOK, Stages
  <2>4. done' \subseteq Reqs /\ calls' \in [Reqs -> Nat] /\ got' \subseteq Reqs \X Reqs
    BY <1>1 DEF TypeOK
  <2> QED
    BY <1>5, <2>1, <2>2, <2>2a, <2>3, <2>4 DEF TypeOK
<1>8. \A m \in UnderWay' : stage'[m.req] # "Idle"
  BY <1>1, <1>6 DEF Messages
<1> QED
  BY <1>1, <1>3, <1>4, <1>6, <1>7, <1>8 DEF OwnAnswer

LEMMA QueueNext == QueueInv /\ [Next]_vars => QueueInv'
<1> SUFFICES ASSUME QueueInv, [Next]_vars PROVE QueueInv'
  OBVIOUS
<1>t. /\ toServer \in Seq(Messages) /\ toClient \in Seq(Messages)
      /\ up \in BOOLEAN /\ srvUp \in BOOLEAN
  BY DEF QueueInv, TypeOK
<1>u. up /\ ~QuickRestart => \A m \in UnderWay : m.life = crashes
  BY DEF QueueInv
<1>1. CASE Check
  BY <1>1, CheckStep
<1>2. CASE Serve
  BY <1>2, ServeStep
<1>3. CASE Receive
  BY <1>3, ReceiveStep
<1>4. CASE Restart
  BY <1>4, RestartStep
<1>5. CASE ClientDown
  <2>1. /\ toServer' \in Prefixes(toServer) /\ toClient' \in Suffixes(toClient)
        /\ up' = FALSE /\ srvUp' = srvUp /\ UNCHANGED <<serial, num, aged, crashes, histVars>>
    BY <1>5 DEF ClientDown, BreakClientLink
  <2> QED
    BY <1>t, <2>1, ElemsPart, LinkSteps
<1>6. CASE ServerDown
  <2>1. /\ toServer' \in Suffixes(toServer) /\ toClient' \in Prefixes(toClient)
        /\ up' = up /\ srvUp' = FALSE /\ UNCHANGED <<serial, num, aged, crashes, histVars>>
    BY <1>6 DEF ServerDown
  <2> QED
    BY <1>t, <1>u, <2>1, ElemsPart, LinkSteps
<1>7. CASE ClientUp
  <2>1. /\ toServer' = toServer /\ toClient' = toClient /\ up' = TRUE /\ srvUp' = srvUp
        /\ UNCHANGED <<serial, num, aged, crashes, histVars>> /\ (SomeOld => QuickRestart)
    BY <1>7 DEF ClientUp
  <2>2. \A m \in UnderWay : m \in Messages /\ (~SomeOld => ~(m.life < crashes))
    BY UnderWayType DEF QueueInv, UnderWay, Elems, SomeOld, Old
  <2>3. ~QuickRestart => \A m \in UnderWay : m.life = crashes
    <3>1. \A m \in Messages : m.life \in Nat /\ m.life <= crashes /\ crashes \in Nat
      BY DEF Messages, QueueInv, TypeOK
    <3> QED
      BY <2>1, <2>2, <3>1
  <2> QED
    BY <1>t, <2>1, <2>3, LinkSteps
<1>8. CASE ServerUp
  BY <1>8, <1>t, <1>u, LinkSteps DEF ServerUp
<1>9. CASE DropRequest
  <2>1. /\ toServer # <<>> /\ toServer' = Tail(toServer) /\ toClient' = toClient
        /\ up' = up /\ srvUp' = srvUp /\ UNCHANGED <<serial, num, aged, crashes, histVars>>
    BY <1>9 DEF DropRequest
  <2> QED
    BY <1>t, <1>u, <2>1, ElemsTail, LinkSteps
<1>10. CASE DropAnswer
  <2>1. /\ toClient # <<>> /\ toClient' = Tail(toClient) /\ toServer' = toServer
        /\ up' = up /\ srvUp' = srvUp /\ UNCHANGED <<serial, num, aged, crashes, histVars>>
    BY <1>10 DEF DropAnswer
  <2> QED
    BY <1>t, <1>u, <2>1, ElemsTail, LinkSteps
<1>11. ASSUME NEW r \in Reqs, Push(r) PROVE QueueInv'
  BY <1>11, PushStep
<1>12. ASSUME NEW r \in Reqs, Cancel(r) PROVE QueueInv'
  BY <1>12, CancelStep
<1>13. CASE UNCHANGED vars
  BY <1>13, <1>t, <1>u, LinkSteps DEF vars, histVars
<1> QED
  BY <1>1, <1>2, <1>3, <1>4, <1>5, <1>6, <1>7, <1>8, <1>9, <1>10, <1>11, <1>12, <1>13 DEF Next

LEMMA QueueAlways == Spec => []QueueInv
<1>1. Init => QueueInv
  BY QueueInit
<1>2. QueueInv /\ [Next]_vars => QueueInv'
  BY QueueNext
<1> QED
  BY <1>1, <1>2, PTL DEF Spec

(* The queue, the channels and the histories always have their types, and no    *)
(* running request has a number that is still to be given.                      *)
THEOREM AsyncTypeCorrect == Spec => []TypeOK
<1>1. QueueInv => TypeOK
  BY DEF QueueInv
<1> QED
  BY <1>1, QueueAlways, PTL

(* A callback gets the answer to its own request, through any loss of messages, *)
(* any resending and any number of restarts, as long as a restarted process     *)
(* does not connect again while messages of its earlier life are under way.     *)
THEOREM AnswersMatch == ASSUME ~QuickRestart PROVE Spec => []OwnAnswer
<1>1. QueueInv => OwnAnswer
  BY DEF QueueInv
<1> QED
  BY <1>1, QueueAlways, PTL

-----------------------------------------------------------------------------
(* AsyncRequest implements RemoteCall: each step is a step of the abstract      *)
(* specification or changes nothing it sees.                                    *)
LEMMA RefineNext ==
  ASSUME ~QuickRestart, QueueInv, [Next]_vars
  PROVE  [RC!Next]_<<stage, done, calls>>
<1> USE DEF RC!Next
<1>1. CASE Serve
  <2>0. toServer \in Seq(Messages) /\ toServer # <<>>
    BY <1>1 DEF Serve, QueueInv, TypeOK
  <2>a. Head(toServer) \in Elems(toServer)
    BY <2>0, ElemsTail
  <2>b. Head(toServer) \in Messages
    BY <2>0, <2>a, ElemsType
  <2>1. Head(toServer) \in Elems(toServer) /\ Head(toServer).req \in Reqs
    BY <2>a, <2>b DEF Messages
  <2>2. stage[Head(toServer).req] # "Idle"
    BY <2>1 DEF QueueInv, UnderWay
  <2>3. RC!Execute(Head(toServer).req)
    BY <1>1, <2>2 DEF Serve, RC!Execute
  <2> QED
    BY <2>1, <2>3
<1>2. CASE Receive
  <2> DEFINE rs == {r \in Running : num[r] = Head(toClient).num}
  <2>1. /\ up /\ toClient # <<>> /\ done' = done
        /\ calls' = [r \in Reqs |-> IF r \in rs THEN calls[r] + 1 ELSE calls[r]]
        /\ stage' = [r \in Reqs |-> IF r \in rs THEN "Returned" ELSE stage[r]]
    BY <1>2 DEF Receive
  <2>2. stage \in [Reqs -> Stages] /\ calls \in [Reqs -> Nat]
    BY DEF QueueInv, TypeOK
  <2>3. CASE rs = {}
    <3>1. stage' = stage /\ calls' = calls
      BY <2>1, <2>2, <2>3
    <3> QED
      BY <2>1, <3>1
  <2>4. CASE rs # {}
    <3>1. PICK r \in Running : num[r] = Head(toClient).num
      BY <2>4
    <3>2. stage[r] = "Pending" /\ rs = {r} /\ r \in done /\ r \in Reqs
      BY <2>1, <3>1, AnsweredOne DEF Running
    <3> HIDE DEF rs
    <3>3. stage' = [stage EXCEPT ![r] = "Returned"] /\ calls' = [calls EXCEPT ![r] = @ + 1]
      BY <2>1, <2>2, <3>2
    <3>4. RC!Return(r)
      BY <2>1, <3>2, <3>3 DEF RC!Return
    <3> QED
      BY <3>2, <3>4
  <2> QED
    BY <2>3, <2>4
<1>3. CASE Restart
  BY <1>3 DEF Restart, RC!Forget
<1>4. ASSUME NEW r \in Reqs, Push(r) PROVE RC!Call(r)
  BY <1>4 DEF Push, RC!Call
<1>5. ASSUME NEW r \in Reqs, Cancel(r) PROVE RC!Cancel(r)
  BY <1>5 DEF Cancel, RC!Cancel, QueueInv, Running
<1>6. CASE Check \/ ClientDown \/ ServerDown \/ ClientUp \/ ServerUp \/ DropRequest \/ DropAnswer
  BY <1>6 DEF Check, ClientDown, ServerDown, ClientUp, ServerUp, DropRequest, DropAnswer, histVars
<1>7. CASE UNCHANGED vars
  BY <1>7 DEF vars
<1> QED
  BY <1>1, <1>2, <1>3, <1>4, <1>5, <1>6, <1>7 DEF Next

(* The callbacks run as RemoteCall promises: at most once, after the request    *)
(* was carried out, never for one that was cancelled, whatever is lost, sent    *)
(* again or answered twice.                                                     *)
THEOREM CallsImplementRemoteCall == ASSUME ~QuickRestart PROVE Spec => ImplementsRemoteCall
<1>1. Init => RC!Init
  BY DEF Init, RC!Init
<1>2. QueueInv /\ [Next]_vars => [RC!Next]_<<stage, done, calls>>
  BY RefineNext
<1>3. Spec => RC!Spec
  BY <1>1, <1>2, QueueAlways, PTL DEF Spec, RC!Spec, RC!callVars
<1> QED
  BY <1>3 DEF ImplementsRemoteCall
=============================================================================
