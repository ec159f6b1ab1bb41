---------------------------- MODULE RunnerProofs ----------------------------
(***************************************************************************)
(* Proofs about Runner.tla, for any services, endpoints, queues, listeners *)
(* and schedules, healthy or not.                                          *)
(***************************************************************************)
EXTENDS Runner, SequenceTheorems, TLAPS

-----------------------------------------------------------------------------
(* The kind of request that brings the server thread to a place.           *)
KindAt(pc) ==
  CASE pc = "proxy" -> "proxy" [] pc = "deliver" -> "publish" [] OTHER -> "run"

(* Where the server thread is, and which calls it and the schedule threads *)
(* may be waiting for.                                                     *)
Shape ==
  /\ server.pc = "idle" => server = Idle
  /\ server.pc # "idle" => taken >= 1
  /\ server.pc \in {"proxy", "run"} => server.call # 0
  /\ server.pc = "record" => server.call = 0
  /\ server.pc # "idle" => requests[taken].kind = KindAt(server.pc)
  /\ server.call \in 0 .. Len(calls)
  /\ \A s \in Schedules : threadCall[s] \in 0 .. Len(calls)

Base ==
  /\ TypeOK
  /\ Registry!TypeOK
  /\ counters \in [Services -> Nat]
  /\ Shape

-----------------------------------------------------------------------------
(* Facts about the data of the model.                                      *)

(* A call that begins is a call.                                            *)
LEMMA NewCallType ==
  ASSUME NEW e \in Endpoints, NEW r \in Nat, NEW m \in Nat, NEW k \in Nat
  PROVE  NewCall(e, r, m, k) \in ServiceCall
<1>1. Len(Events[e]) \in Nat
  BY EndpointsAssumption, LenProperties
<1> QED BY <1>1 DEF NewCall, ServiceCall, CallType

(* The runner that the router picks has a position.                         *)
LEMMA PositionType ==
  ASSUME Base, NEW s \in Services
  PROVE  Router!Position(s) \in Nat
<1>1. counters[s] \in Nat /\ Runners[s] \in Nat \ {0}
  BY EndpointsAssumption DEF Base
<1> QED BY <1>1 DEF Router!Position

(* An answer goes to one request and changes no other.                      *)
LEMMA AnswerType ==
  ASSUME Base, NEW i \in 1 .. Len(requests), NEW status \in Nat, Answer(i, status)
  PROVE  /\ answers' \in Seq(Answers)
         /\ Len(answers') = Len(answers)
         /\ \A j \in 1 .. Len(answers) :
              answers'[j] = IF j = i THEN status ELSE answers[j]
BY ExceptSeq DEF Base, TypeOK, Answer, Answers

(* A request that arrives is the last one, unanswered and unrecorded.       *)
LEMMA ArrivesType ==
  ASSUME Base, NEW r \in RequestType, Arrives(r)
  PROVE  /\ requests' \in Seq(RequestType) /\ Len(requests') = Len(requests) + 1
         /\ \A i \in 1 .. Len(requests) : requests'[i] = requests[i]
         /\ requests'[Len(requests) + 1] = r
         /\ answers' \in Seq(Answers) /\ Len(answers') = Len(requests')
         /\ \A i \in 1 .. Len(requests) : answers'[i] = answers[i]
         /\ answers'[Len(requests) + 1] = None
         /\ recorded' \in Seq(Answers) /\ Len(recorded') = Len(requests')
<1>1. None \in Answers
  BY DEF Answers
<1> QED BY <1>1, AppendProperties DEF Base, TypeOK, Arrives

(* A call that begins is the last one.                                      *)
LEMMA CallsType ==
  ASSUME Base, NEW call \in ServiceCall, calls' = Append(calls, call)
  PROVE  /\ calls' \in Seq(ServiceCall) /\ Len(calls') = Len(calls) + 1
         /\ \A c \in 1 .. Len(calls) : calls'[c] = calls[c]
         /\ calls'[Len(calls) + 1] = call
BY AppendProperties DEF Base, TypeOK

(* A handler changes its own call only.                                     *)
LEMMA HandlerType ==
  ASSUME Base, NEW c \in DOMAIN calls, NEW new \in ServiceCall, Handler(c, new)
  PROVE  /\ calls' \in Seq(ServiceCall) /\ Len(calls') = Len(calls)
         /\ \A d \in 1 .. Len(calls) :
              calls'[d] = IF d = c THEN new ELSE calls[d]
         /\ c \in 1 .. Len(calls)
<1>1. calls \in Seq(ServiceCall) /\ c \in 1 .. Len(calls)
  BY DEF Base, TypeOK
<1> QED BY <1>1, ExceptSeq DEF Handler

(* What each request asks for.                                              *)
LEMMA RequestTypes ==
  ASSUME Base, NEW i \in 1 .. Len(requests)
  PROVE  /\ requests[i] \in RequestType
         /\ requests[i].kind = "proxy" => requests[i].target \in Endpoints
         /\ requests[i].kind = "publish" => requests[i].target \in Queues
         /\ requests[i].kind \in {"toggle", "run"} => requests[i].target \in Schedules
<1>1. requests[i] \in RequestType
  BY ElementOfSeq DEF Base, TypeOK
<1> QED BY <1>1, EndpointsAssumption DEF RequestType

(* The result of a call that is over is an outcome of execute_webhook.      *)
LEMMA OutcomeType ==
  ASSUME Base, NEW c \in 1 .. Len(calls), ~Running(c)
  PROVE  Outcome(c) \in Sched!Outcomes
<1>1. calls[c] \in ServiceCall
  BY ElementOfSeq DEF Base, TypeOK
<1>2. CASE Replied(c)
  <2>1. calls[c].status \in Statuses
    BY <1>1, <1>2 DEF ServiceCall, CallType, Replied
  <2> QED BY <1>2, <2>1 DEF Outcome, Sched!Outcomes
<1>3. CASE ~Replied(c)
  BY <1>3 DEF Outcome, Sched!Outcomes
<1> QED BY <1>2, <1>3

-----------------------------------------------------------------------------
(* Base is inductive.                                                      *)

(* The runner starts with its types and at rest.                            *)
LEMMA InitBase == Init => Base
<1> SUFFICES ASSUME Init PROVE Base
  OBVIOUS
<1>1. Registry!TypeOK /\ counters \in [Services -> Nat]
  <2>1. 0 \in 0 .. Len(Listeners) /\ 0 \in 0 .. MaxCount
    BY EndpointsAssumption, LenProperties
  <2> QED BY <2>1, EmptySeq DEF Init, Registry!Init, Registry!NewQueue,
                 Registry!QueueInfo, Registry!TypeOK, Router!RouterInit
<1>2. TypeOK
  BY EmptySeq DEF Init, TypeOK, Idle, ServerType
<1>3. Shape
  BY EmptySeq DEF Init, Shape, Idle
<1> QED BY <1>1, <1>2, <1>3 DEF Base

(* Registering a listener keeps the types of the registry.                  *)
LEMMA StartupBase == Base /\ Startup => Base'
<1> SUFFICES ASSUME Base, Startup PROVE Base'
  OBVIOUS
<1> USE DEF netVars, serverVars, callVars, routerVars
<1>1. Registry!TypeOK'
  <2> DEFINE n == registered + 1
             q == Listeners[n].queue
             e == Listeners[n].subscriber
  <2>1. n \in 1 .. Len(Listeners) /\ registered' = n
    BY EndpointsAssumption, LenProperties
       DEF Base, Registry!TypeOK, Startup, Registry!RegisterListener
  <2>2. Listeners[n] \in [queue : Queues, subscriber : Endpoints]
    BY <2>1, EndpointsAssumption, ElementOfSeq
  <2>3. q \in Queues /\ e \in Endpoints /\ queues[q] \in Registry!QueueInfo
    BY <2>2 DEF Base, Registry!TypeOK
  <2>4. queues' = [queues EXCEPT ![q] = Registry!Subscribed(queues[q], e)]
    BY DEF Startup, Registry!RegisterListener
  <2> HIDE DEF n, q, e
  <2>5. Append(queues[q].subscribers, e) \in Seq(Endpoints)
    BY <2>3, AppendProperties DEF Registry!QueueInfo
  <2>6. Registry!Subscribed(queues[q], e) \in Registry!QueueInfo
    BY <2>3, <2>5 DEF Registry!QueueInfo, Registry!Subscribed
  <2>7. n \in 0 .. Len(Listeners)
    BY <2>1
  <2> QED BY <2>1, <2>4, <2>6, <2>7 DEF Base, Registry!TypeOK
<1>2. TypeOK' /\ Shape'
  BY DEF Base, Startup, TypeOK, Shape
<1> QED BY <1>1, <1>2 DEF Base, Startup

(* Counting a message keeps the subscribers and the type of its queue.      *)
LEMMA PrepareDeliveryType ==
  ASSUME Base, NEW q \in Queues, Registry!PrepareDelivery(q)
  PROVE  /\ Registry!TypeOK'
         /\ \A p \in Queues : queues'[p].subscribers = queues[p].subscribers
<1> DEFINE new == Registry!Counted(queues[q])
<1>1. queues[q] \in Registry!QueueInfo /\ queues \in [Queues -> Registry!QueueInfo]
  BY DEF Base, Registry!TypeOK
<1>2. /\ queues[q].message_count \in 0 .. MaxCount
      /\ queues[q].subscribers \in Seq(Endpoints)
  BY <1>1 DEF Registry!QueueInfo
<1>3. Registry!SaturatingAdd(queues[q].message_count) \in 0 .. MaxCount
  BY <1>2, EndpointsAssumption DEF Registry!SaturatingAdd
<1>4. new \in Registry!QueueInfo /\ new.subscribers = queues[q].subscribers
  BY <1>2, <1>3 DEF Registry!QueueInfo, Registry!Counted
<1>5. queues' = [queues EXCEPT ![q] = new] /\ registered' = registered
  BY DEF Registry!PrepareDelivery
<1> HIDE DEF new
<1> QED BY <1>1, <1>4, <1>5 DEF Base, Registry!TypeOK

(* A request from a client is a request.                                    *)
LEMMA SubmitBase == Base /\ Submit => Base'
<1> SUFFICES ASSUME Base, Submit PROVE Base'
  OBVIOUS
<1> USE DEF serverVars, callVars, registryVars, routerVars
<1>1. PICK r \in ClientRequests : Arrives(r)
  BY DEF Submit
<1>2. r \in RequestType
  BY DEF ClientRequests, Request, RequestType
<1>3. TypeOK'
  BY <1>1, <1>2, ArrivesType DEF Base, TypeOK, Submit
<1>4. Shape'
  BY <1>1, <1>2, ArrivesType DEF Base, TypeOK, Submit, Shape
<1> QED BY <1>3, <1>4 DEF Base, Submit, Registry!TypeOK

(* A request that is answered at once keeps the types.                      *)
LEMMA LocalBase ==
  ASSUME Base, TakeLocal \/ TakeToggle \/ RejectPublish
  PROVE  Base'
<1> USE DEF callVars, registryVars, routerVars
<1>1. taken + 1 \in 1 .. Len(requests) /\ taken' = taken + 1 /\ server = Idle
  BY DEF Base, TypeOK, TakeLocal, TakeToggle, RejectPublish, Takes
<1>2. /\ UNCHANGED <<requests, recorded, server, calls, threadCall, queues,
                     registered, counters>>
      /\ \E status \in Nat : Answer(taken + 1, status)
  BY DEF TakeLocal, TakeToggle, RejectPublish
<1>3. answers' \in Seq(Answers) /\ Len(answers') = Len(answers)
  BY <1>1, <1>2, AnswerType
<1>4. TypeOK'
  BY <1>1, <1>2, <1>3 DEF Base, TypeOK
<1>5. Shape'
  BY <1>1, <1>2 DEF Base, Shape, Idle
<1> QED BY <1>2, <1>4, <1>5 DEF Base, Registry!TypeOK

(* A call of the server thread keeps the types.                             *)
LEMMA ServerCallsBase ==
  ASSUME Base, UNCHANGED <<netVars, threadCall>>, Registry!TypeOK',
         counters' \in [Services -> Nat],
         NEW pc \in {"proxy", "deliver", "run"}, NEW k \in Nat,
         NEW call \in ServiceCall, ServerCalls(pc, k, call),
         taken' \in 1 .. Len(requests),
         requests[taken'].kind = KindAt(pc)
  PROVE  Base'
<1> USE DEF netVars
<1>1. calls' \in Seq(ServiceCall) /\ Len(calls') = Len(calls) + 1 /\ Len(calls) \in Nat
  BY CallsType DEF ServerCalls, Base, TypeOK
<1>2. TypeOK'
  BY <1>1 DEF Base, TypeOK, ServerCalls, ServerType
<1>3. Shape'
  BY <1>1 DEF Base, Shape, ServerCalls, KindAt
<1> QED BY <1>2, <1>3 DEF Base

(* Sending a proxied request on keeps the types.                            *)
LEMMA TakeProxyBase == Base /\ TakeProxy => Base'
<1> SUFFICES ASSUME Base, TakeProxy PROVE Base'
  OBVIOUS
<1> DEFINE e == Taking.target
           s == ServiceOf[e]
<1>1. taken + 1 \in 1 .. Len(requests) /\ taken' = taken + 1
  BY DEF Base, TypeOK, TakeProxy, Takes
<1>2. e \in Endpoints
  BY <1>1, RequestTypes DEF Taking, TakeProxy, Takes
<1>3. s \in Services
  BY <1>2, EndpointsAssumption
<1>4. NewCall(e, Router!Position(s), 0, 0) \in ServiceCall
  BY <1>2, <1>3, PositionType, NewCallType
<1>5. counters' \in [Services -> Nat]
  <2>1. counters[s] \in Nat /\ Modulus \in Nat \ {0}
    BY <1>3, EndpointsAssumption DEF Base
  <2>2. (counters[s] + 1) % Modulus \in Nat
    BY <2>1
  <2> QED BY <2>2 DEF Base, TakeProxy, Router!NextBaseUrl
<1>6. ServerCalls("proxy", 0, NewCall(e, Router!Position(s), 0, 0))
  BY DEF TakeProxy
<1>7. Registry!TypeOK' /\ UNCHANGED <<netVars, threadCall>>
  BY DEF TakeProxy, Base, registryVars, Registry!TypeOK
<1>8. requests[taken'].kind = KindAt("proxy")
  BY <1>1 DEF TakeProxy, Takes, KindAt
<1> QED BY <1>1, <1>4, <1>5, <1>6, <1>7, <1>8, ServerCallsBase

(* Calling the next subscriber keeps the types.                             *)
LEMMA DeliverNextBase == Base /\ DeliverNext => Base'
<1> SUFFICES ASSUME Base, DeliverNext PROVE Base'
  OBVIOUS
<1> DEFINE q == Current.target
           k == server.delivered + 1
           e == SubscribersOf(q)[k]
<1>1. taken \in 1 .. Len(requests) /\ server.delivered \in Nat
  BY DEF Base, Shape, TypeOK, DeliverNext, ServerType
<1>2. requests[taken].kind = "publish" /\ q \in Queues
  BY <1>1, RequestTypes DEF Base, Shape, DeliverNext, Current, KindAt
<1>3. SubscribersOf(q) \in Seq(Endpoints)
  BY <1>2 DEF Base, Registry!TypeOK, Registry!QueueInfo, SubscribersOf
<1>4. e \in Endpoints
  <2>1. k \in 1 .. Len(SubscribersOf(q))
    BY <1>1, <1>3, LenProperties DEF DeliverNext
  <2> QED BY <1>3, <2>1, ElementOfSeq
<1>5. NewCall(e, 0, taken, k) \in ServiceCall
  BY <1>1, <1>4, NewCallType
<1>6. ServerCalls("deliver", k, NewCall(e, 0, taken, k)) /\ k \in Nat
  BY <1>1 DEF DeliverNext
<1>7. Registry!TypeOK' /\ UNCHANGED <<netVars, taken, threadCall, counters>>
  BY DEF DeliverNext, Base, registryVars, routerVars, Registry!TypeOK
<1>8. counters' \in [Services -> Nat]
  BY <1>7 DEF Base
<1>9. requests[taken'].kind = KindAt("deliver") /\ taken' = taken
  BY <1>2, <1>7 DEF KindAt
<1> QED BY <1>1, <1>5, <1>6, <1>7, <1>8, <1>9, ServerCallsBase

(* Starting a manual run keeps the types.                                   *)
LEMMA TakeRunBase == Base /\ TakeRun => Base'
<1> SUFFICES ASSUME Base, TakeRun PROVE Base'
  OBVIOUS
<1>1. taken + 1 \in 1 .. Len(requests) /\ taken' = taken + 1
  BY DEF Base, TypeOK, TakeRun, Takes
<1>2. Taking.target \in Schedules
  BY <1>1, RequestTypes DEF Taking, TakeRun, Takes
<1>3. NewCall(Hook[Taking.target], 0, 0, 0) \in ServiceCall
  BY <1>2, NewCallType, EndpointsAssumption
<1>4. ServerCalls("run", 0, NewCall(Hook[Taking.target], 0, 0, 0))
  BY DEF TakeRun
<1>5. Registry!TypeOK' /\ UNCHANGED <<netVars, threadCall, counters>>
  BY DEF TakeRun, Base, registryVars, routerVars, Registry!TypeOK
<1>6. counters' \in [Services -> Nat]
  BY <1>5 DEF Base
<1>7. requests[taken'].kind = KindAt("run")
  BY <1>1 DEF TakeRun, Takes, KindAt
<1> QED BY <1>1, <1>3, <1>4, <1>5, <1>6, <1>7, ServerCallsBase

(* The answer to a proxied request, and what the statistics record of it,   *)
(* are statuses.                                                            *)
LEMMA ProxyAnswers ==
  ASSUME Base, ProxyReturns \/ ProxyBodyFails \/ ProxyBreaks
  PROVE  \E status, seen \in Nat :
           Answer(taken, status) /\ recorded' = [recorded EXCEPT ![taken] = seen]
<1>1. CASE ProxyBreaks
  <2>1. Answer(taken, 502) /\ recorded' = [recorded EXCEPT ![taken] = 502]
    BY <1>1 DEF ProxyBreaks
  <2>2. 502 \in Nat
    OBVIOUS
  <2> QED BY <2>1, <2>2
<1>2. CASE ProxyReturns \/ ProxyBodyFails
  <2>1. server.call \in 1 .. Len(calls)
    BY <1>2 DEF Base, Shape, TypeOK, ProxyReturns, ProxyBodyFails
  <2>2. calls[server.call] \in ServiceCall /\ calls[server.call].state = "replied"
    BY <1>2, <2>1, ElementOfSeq DEF Base, TypeOK, ProxyReturns, ProxyBodyFails, Replied
  <2>3. calls[server.call].status \in Nat
    <3>1. calls[server.call].status \in Statuses
      BY <2>2 DEF ServiceCall, CallType
    <3>2. Statuses \subseteq Nat
      BY StatusAssumption DEF Statuses
    <3> QED BY <3>1, <3>2
  <2> QED BY <1>2, <2>3 DEF ProxyReturns, ProxyBodyFails
<1> QED BY <1>1, <1>2

(* The steps that follow a call of the server thread, or the last of them,  *)
(* keep the types.                                                          *)
LEMMA ProxyBase ==
  ASSUME Base, ProxyReturns \/ ProxyBodyFails \/ ProxyBreaks
  PROVE  Base'
<1> USE DEF callVars, registryVars, routerVars
<1>1. taken \in 1 .. Len(requests)
  BY DEF Base, TypeOK, Shape, ProxyReturns, ProxyBodyFails, ProxyBreaks
<1>2. /\ UNCHANGED <<requests, taken, calls, threadCall, queues, registered, counters>>
      /\ server' = Idle
  BY DEF ProxyReturns, ProxyBodyFails, ProxyBreaks
<1>3. \E status, seen \in Nat :
        Answer(taken, status) /\ recorded' = [recorded EXCEPT ![taken] = seen]
  BY ProxyAnswers
<1>4. answers' \in Seq(Answers) /\ Len(answers') = Len(answers)
  BY <1>1, <1>3, AnswerType
<1>5. recorded' \in Seq(Answers) /\ Len(recorded') = Len(recorded)
  BY <1>1, <1>3, ExceptSeq DEF Base, TypeOK, Answers
<1>6. TypeOK'
  BY <1>2, <1>4, <1>5 DEF Base, TypeOK, Idle, ServerType
<1>7. Shape'
  <2>1. Len(calls) \in Nat
    BY DEF Base, TypeOK
  <2> QED BY <1>2, <2>1 DEF Base, Shape, Idle
<1> QED BY <1>2, <1>6, <1>7 DEF Base, Registry!TypeOK

(* Counting a message keeps the types.                                      *)
LEMMA TakePublishBase == Base /\ TakePublish => Base'
<1> SUFFICES ASSUME Base, TakePublish PROVE Base'
  OBVIOUS
<1> USE DEF netVars, callVars, routerVars
<1>1. taken + 1 \in 1 .. Len(requests) /\ taken' = taken + 1
      /\ requests[taken + 1].kind = "publish"
  BY DEF Base, TypeOK, TakePublish, Takes
<1>2. Taking.target \in Queues
  BY <1>1, RequestTypes DEF Taking
<1>3. Registry!TypeOK'
  BY <1>2, PrepareDeliveryType DEF TakePublish
<1>4. TypeOK'
  BY <1>1 DEF Base, TypeOK, TakePublish, ServerType
<1>5. Shape'
  BY <1>1 DEF Base, TypeOK, Shape, TakePublish, KindAt
<1> QED BY <1>3, <1>4, <1>5 DEF Base, TakePublish

(* The end of a delivery keeps the types.                                   *)
LEMMA DeliveryReturnsBase == Base /\ DeliveryReturns => Base'
<1> SUFFICES ASSUME Base, DeliveryReturns PROVE Base'
  OBVIOUS
<1> USE DEF netVars, callVars, registryVars, routerVars
<1>1. TypeOK'
  BY DEF Base, TypeOK, DeliveryReturns, ServerType
<1>2. Shape'
  BY DEF Base, TypeOK, Shape, DeliveryReturns, ServerType, KindAt
<1> QED BY <1>1, <1>2 DEF Base, DeliveryReturns, Registry!TypeOK

(* Answering a publisher or a manual run keeps the types.                   *)
LEMMA FinishBase ==
  ASSUME Base, FinishPublish \/ RunRecords
  PROVE  Base'
<1> USE DEF callVars, registryVars, routerVars
<1>1. taken \in 1 .. Len(requests)
  BY DEF Base, TypeOK, Shape, FinishPublish, RunRecords
<1>2. /\ UNCHANGED <<requests, recorded, taken, calls, threadCall, queues,
                     registered, counters>>
      /\ server' = Idle
      /\ \E status \in Nat : Answer(taken, status)
  BY DEF FinishPublish, RunRecords
<1>3. answers' \in Seq(Answers) /\ Len(answers') = Len(answers)
  BY <1>1, <1>2, AnswerType
<1>4. TypeOK'
  BY <1>2, <1>3 DEF Base, TypeOK, Idle, ServerType
<1>5. Shape'
  <2>1. Len(calls) \in Nat
    BY DEF Base, TypeOK
  <2> QED BY <1>2, <2>1 DEF Base, Shape, Idle
<1> QED BY <1>2, <1>4, <1>5 DEF Base, Registry!TypeOK

(* The end of a manual run's call keeps the types.                          *)
LEMMA RunEndsBase ==
  ASSUME Base, RunReturns \/ RunTimesOut
  PROVE  Base'
<1> USE DEF netVars, callVars, registryVars, routerVars
<1>1. /\ UNCHANGED <<requests, answers, recorded, taken, calls, threadCall,
                     queues, registered, counters>>
      /\ server.pc = "run"
      /\ server' = [server EXCEPT !.pc = "record", !.call = 0]
  BY DEF RunReturns, RunTimesOut
<1>2. TypeOK'
  BY <1>1 DEF Base, TypeOK, ServerType
<1>3. Shape'
  BY <1>1 DEF Base, TypeOK, Shape, ServerType, KindAt
<1> QED BY <1>1, <1>2, <1>3 DEF Base, Registry!TypeOK

(* The steps of a schedule thread keep the types.                           *)
LEMMA ThreadBase ==
  ASSUME Base, NEW s \in Schedules, ThreadStep(s)
  PROVE  Base'
<1> USE DEF netVars, serverVars, registryVars, routerVars
<1>1. CASE ThreadCalls(s)
  <2>1. NewCall(Hook[s], 0, 0, 0) \in ServiceCall
    BY NewCallType, EndpointsAssumption
  <2>2. calls' \in Seq(ServiceCall) /\ Len(calls') = Len(calls) + 1 /\ Len(calls) \in Nat
    BY <1>1, <2>1, CallsType DEF ThreadCalls, Base, TypeOK
  <2>3. TypeOK'
    BY <1>1, <2>2 DEF Base, TypeOK, ThreadCalls
  <2>4. Shape'
    BY <1>1, <2>2 DEF Base, TypeOK, Shape, ThreadCalls
  <2> QED BY <1>1, <2>3, <2>4 DEF Base, ThreadCalls, Registry!TypeOK
<1>2. CASE ThreadWakes(s) \/ ThreadReturns(s) \/ ThreadTimesOut(s)
  <2>1. /\ UNCHANGED <<requests, answers, recorded, taken, server, calls,
                       queues, registered, counters>>
        /\ threadCall' = threadCall \/ threadCall' = [threadCall EXCEPT ![s] = 0]
    BY <1>2 DEF ThreadWakes, ThreadReturns, ThreadTimesOut, callVars
  <2>2. TypeOK'
    BY <2>1 DEF Base, TypeOK
  <2>3. Shape'
    <3>1. 0 \in 0 .. Len(calls)
      BY LenProperties DEF Base, TypeOK
    <3>2. \A t \in Schedules : threadCall'[t] = threadCall[t] \/ threadCall'[t] = 0
      BY <2>1 DEF Base, TypeOK
    <3>3. \A t \in Schedules : threadCall'[t] \in 0 .. Len(calls)
      BY <3>1, <3>2 DEF Base, Shape
    <3> QED BY <2>1, <3>3 DEF Base, Shape
  <2> QED BY <2>1, <2>2, <2>3 DEF Base, Registry!TypeOK
<1> QED BY <1>1, <1>2 DEF ThreadStep

(* What a step of a handler makes of its call.  Where the call came from    *)
(* stays; awaiting begins with a request, success with an answer.           *)
Moves(c, new) ==
  /\ new.endpoint = calls[c].endpoint
  /\ new.msg = calls[c].msg
  /\ new.pos = calls[c].pos
  /\ new.left \in {calls[c].left, calls[c].left - 1}
  /\ new.state = "awaiting" =>
       HandlerPublishes(c) /\ new.pub = Len(requests) + 1 /\ new.ok = calls[c].ok
  /\ new.ok # calls[c].ok =>
       HandlerResumes(c) /\ answers[calls[c].pub] \in 200 .. 299
  /\ new.status = 202 /\ Events[new.endpoint] # <<>> => new.ok > 0

(* A step of a handler makes such a move.                                   *)
LEMMA HandlerStep ==
  ASSUME Base, NEW c \in DOMAIN calls, ServiceStep(c)
  PROVE  \E new \in ServiceCall : Handler(c, new) /\ Moves(c, new)
<1> DEFINE Same(new) == /\ new.endpoint = calls[c].endpoint
                        /\ new.msg = calls[c].msg
                        /\ new.pos = calls[c].pos
           Unfinished == CallType({"running", "awaiting", "failed"}, {None})
<1>1. calls[c] \in ServiceCall /\ Len(requests) \in Nat
  BY ElementOfSeq DEF Base, TypeOK
<1>2. /\ calls[c].left \in Nat /\ calls[c].ok \in Nat
      /\ Running(c) => calls[c] \in Unfinished
  BY <1>1 DEF ServiceCall, CallType, Running
<1>3. None # 202
  BY StatusAssumption
<1>4. CASE HandlerPublishes(c)
  <2> DEFINE new == [calls[c] EXCEPT !.state = "awaiting", !.left = @ - 1,
                                     !.pub = Len(requests) + 1]
  <2>1. calls[c].left - 1 \in Nat /\ Len(requests) + 1 \in Nat
    BY <1>1, <1>2, <1>4 DEF HandlerPublishes
  <2>2. calls[c] \in Unfinished
    BY <1>2, <1>4 DEF HandlerPublishes, Running
  <2>3. new \in ServiceCall
    BY <2>1, <2>2 DEF ServiceCall, CallType
  <2>4. /\ Same(new) /\ new.left = calls[c].left - 1 /\ new.ok = calls[c].ok
        /\ new.pub = Len(requests) + 1 /\ new.status = None
    BY <2>2 DEF CallType
  <2>5. Handler(c, new)
    BY <1>4 DEF HandlerPublishes
  <2> HIDE DEF new
  <2> QED BY <1>3, <1>4, <2>3, <2>4, <2>5 DEF Moves
<1>5. CASE PublishFails(c)
  <2> DEFINE new == [calls[c] EXCEPT !.left = @ - 1]
  <2>1. calls[c].left - 1 \in Nat /\ calls[c].state = "running"
    BY <1>2, <1>5 DEF PublishFails
  <2>2. calls[c] \in Unfinished
    BY <1>2, <2>1 DEF Running
  <2>3. new \in ServiceCall
    BY <2>1, <2>2 DEF ServiceCall, CallType
  <2>4. /\ Same(new) /\ new.left = calls[c].left - 1 /\ new.ok = calls[c].ok
        /\ new.state = "running" /\ new.status = None
    BY <2>1, <2>2 DEF CallType
  <2>5. Handler(c, new)
    BY <1>5 DEF PublishFails
  <2> HIDE DEF new
  <2> QED BY <1>3, <2>3, <2>4, <2>5 DEF Moves
<1>6. CASE HandlerResumes(c)
  <2> DEFINE accepted == answers[calls[c].pub] \in 200 .. 299
             ok == IF accepted THEN calls[c].ok + 1 ELSE calls[c].ok
             new == [calls[c] EXCEPT !.state = "running",
                                     !.ok = IF accepted THEN @ + 1 ELSE @]
  <2>1. calls[c] \in Unfinished
    BY <1>2, <1>6 DEF HandlerResumes, Running
  <2>2. ok \in Nat /\ (ok # calls[c].ok => accepted)
    BY <1>2
  <2>3. Handler(c, new)
    BY <1>6 DEF HandlerResumes
  <2> HIDE DEF accepted
  <2>4. new \in ServiceCall
    BY <2>1, <2>2 DEF ServiceCall, CallType
  <2>5. /\ Same(new) /\ new.left = calls[c].left /\ new.ok = ok
        /\ new.state = "running" /\ new.status = None
    BY <2>1 DEF CallType
  <2> HIDE DEF new, ok
  <2> QED BY <1>3, <1>6, <2>2, <2>3, <2>4, <2>5 DEF Moves, accepted
<1>7. CASE HandlerReplies(c)
  <2>1. PICK status \in Statuses :
          /\ IF Events[calls[c].endpoint] = <<>>
             THEN status \in Replies
             ELSE status = IF calls[c].ok > 0 THEN 202 ELSE 500
          /\ Handler(c, [calls[c] EXCEPT !.state = "replied", !.status = status])
    BY <1>7 DEF HandlerReplies
  <2> DEFINE new == [calls[c] EXCEPT !.state = "replied", !.status = status]
  <2>2. calls[c] \in Unfinished
    BY <1>2, <1>7 DEF HandlerReplies, Running
  <2>3. new \in ServiceCall
    BY <2>2 DEF ServiceCall, CallType
  <2>4. /\ Same(new) /\ new.left = calls[c].left /\ new.ok = calls[c].ok
        /\ new.state = "replied" /\ new.status = status
    BY <2>2 DEF CallType
  <2>5. Handler(c, new)
    BY <2>1
  <2> HIDE DEF new
  <2> QED BY <2>1, <2>3, <2>4, <2>5 DEF Moves
<1>8. CASE HandlerFails(c) \/ HandlerDropped(c)
  <2> DEFINE new == [calls[c] EXCEPT !.state = "failed"]
  <2>1. calls[c] \in Unfinished
    BY <1>2, <1>8 DEF HandlerFails, HandlerDropped
  <2>2. new \in ServiceCall
    BY <2>1 DEF ServiceCall, CallType
  <2>3. /\ Same(new) /\ new.left = calls[c].left /\ new.ok = calls[c].ok
        /\ new.state = "failed" /\ new.status = None
    BY <2>1 DEF CallType
  <2>4. Handler(c, new)
    BY <1>8 DEF HandlerFails, HandlerDropped
  <2> HIDE DEF new
  <2> QED BY <1>3, <2>2, <2>3, <2>4 DEF Moves
<1> QED BY <1>4, <1>5, <1>6, <1>7, <1>8 DEF ServiceStep, HandlerProgress

(* What is left to a handler is within the events of its endpoint, and it   *)
(* awaits the answer to a request that has reached the runner.              *)
Handlers ==
  \A c \in DOMAIN calls :
    /\ calls[c].left <= Len(Events[calls[c].endpoint])
    /\ calls[c].state = "awaiting" => calls[c].pub \in 1 .. Len(requests)

(* A handler's event is a publication for a queue.                          *)
LEMMA PublishArrives ==
  ASSUME Base, Handlers, NEW c \in DOMAIN calls, HandlerPublishes(c)
  PROVE  \E q \in Queues : /\ Request("publish", q, c) \in RequestType
                           /\ Arrives(Request("publish", q, c))
<1> DEFINE events == Events[calls[c].endpoint]
           k == Len(events) - calls[c].left + 1
<1>1. calls[c] \in ServiceCall /\ c \in Nat
  BY ElementOfSeq DEF Base, TypeOK
<1>2. /\ events \in Seq(Queues)
      /\ calls[c].left \in Nat \ {0} /\ calls[c].left <= Len(events)
  BY <1>1, EndpointsAssumption DEF Handlers, HandlerPublishes, ServiceCall, CallType
<1>3. events[k] \in Queues
  <2>1. Len(events) \in Nat
    BY <1>2, LenProperties
  <2>2. k \in 1 .. Len(events)
    BY <1>2, <2>1
  <2> QED BY <1>2, <2>2, ElementOfSeq
<1>4. Arrives(Request("publish", events[k], c))
  BY DEF HandlerPublishes
<1> HIDE DEF events, k
<1>5. Request("publish", events[k], c) \in RequestType
  BY <1>1, <1>3 DEF Request, RequestType
<1> QED BY <1>3, <1>4, <1>5

(* A step of a handler keeps the types.                                     *)
LEMMA HandlerBase ==
  ASSUME Base, Handlers, NEW c \in DOMAIN calls, ServiceStep(c)
  PROVE  Base'
<1> USE DEF serviceFrame, serverVars, registryVars, routerVars
<1>1. /\ UNCHANGED <<taken, server, threadCall, queues, registered, counters>>
      /\ \/ UNCHANGED netVars
         \/ \E r \in RequestType : Arrives(r)
  <2>1. CASE HandlerPublishes(c)
    BY <2>1, PublishArrives DEF HandlerPublishes
  <2>2. CASE ~HandlerPublishes(c)
    BY <2>2 DEF ServiceStep, HandlerProgress, HandlerResumes, HandlerReplies,
                PublishFails, HandlerFails, HandlerDropped
  <2> QED BY <2>1, <2>2
<1>2. calls' \in Seq(ServiceCall) /\ Len(calls') = Len(calls)
  BY HandlerStep, HandlerType
<1>3. CASE UNCHANGED netVars
  <2>1. TypeOK' /\ Shape'
    BY <1>1, <1>2, <1>3 DEF netVars, Base, TypeOK, Shape
  <2> QED BY <1>1, <2>1 DEF Base, Registry!TypeOK
<1>4. CASE \E r \in RequestType : Arrives(r)
  <2>1. PICK r \in RequestType : Arrives(r)
    BY <1>4
  <2>2. TypeOK'
    BY <1>1, <1>2, <2>1, ArrivesType DEF Base, TypeOK
  <2>3. Shape'
    BY <1>1, <1>2, <2>1, ArrivesType DEF Base, TypeOK, Shape
  <2> QED BY <1>1, <2>2, <2>3 DEF Base, Registry!TypeOK
<1> QED BY <1>1, <1>3, <1>4

(* Base is kept by every step.                                              *)
LEMMA NextBase == Base /\ Handlers /\ [Next]_vars => Base'
<1> SUFFICES ASSUME Base, Handlers, [Next]_vars PROVE Base'
  OBVIOUS
<1>1. CASE Startup \/ Submit
  BY <1>1, StartupBase, SubmitBase
<1>2. CASE ServerStep
  BY <1>2, LocalBase, TakeProxyBase, ProxyBase, TakePublishBase, DeliverNextBase,
     DeliveryReturnsBase, FinishBase, TakeRunBase, RunEndsBase DEF ServerStep
<1>3. ASSUME NEW s \in Schedules, ThreadStep(s)
      PROVE  Base'
  BY <1>3, ThreadBase
<1>4. ASSUME NEW c \in DOMAIN calls, ServiceStep(c)
      PROVE  Base'
  BY <1>4, HandlerBase
<1>5. CASE UNCHANGED vars
  BY <1>5 DEF vars, netVars, serverVars, callVars, registryVars, routerVars,
              Base, TypeOK, Shape, Registry!TypeOK
<1> QED BY <1>1, <1>2, <1>3, <1>4, <1>5 DEF Next, Rest

(* Outside the server thread, a step leaves the requests and their answers  *)
(* alone or adds a request.                                                 *)
LEMMA NextServer ==
  ASSUME Base, Handlers, [Next]_vars
  PROVE  \/ ServerStep
         \/ UNCHANGED <<requests, answers, recorded, taken, server>>
         \/ UNCHANGED <<taken, server>> /\ \E r \in RequestType : Arrives(r)
<1>1. CASE Startup
  BY <1>1 DEF Startup, netVars, serverVars
<1>2. CASE Submit
  <2>1. PICK r \in ClientRequests : Arrives(r)
    BY <1>2 DEF Submit
  <2>2. r \in RequestType
    BY DEF ClientRequests, Request, RequestType
  <2> QED BY <1>2, <2>1, <2>2 DEF Submit, serverVars
<1>3. ASSUME NEW s \in Schedules, ThreadStep(s)
      PROVE  UNCHANGED <<requests, answers, recorded, taken, server>>
  BY <1>3 DEF ThreadStep, netVars, serverVars, ThreadWakes, ThreadCalls,
       ThreadReturns, ThreadTimesOut
<1>4. ASSUME NEW c \in DOMAIN calls, ServiceStep(c)
      PROVE  \/ UNCHANGED <<requests, answers, recorded, taken, server>>
             \/ UNCHANGED <<taken, server>> /\ \E r \in RequestType : Arrives(r)
  <2>1. CASE HandlerPublishes(c)
    BY <2>1, PublishArrives DEF HandlerPublishes, serviceFrame, serverVars
  <2>2. CASE ~HandlerPublishes(c)
    BY <1>4, <2>2 DEF ServiceStep, HandlerProgress, HandlerResumes, HandlerReplies,
         PublishFails, HandlerFails, HandlerDropped, netVars, serviceFrame, serverVars
  <2> QED BY <2>1, <2>2
<1>5. CASE UNCHANGED vars
  BY <1>5 DEF vars, netVars, serverVars
<1> QED BY <1>1, <1>2, <1>3, <1>4, <1>5 DEF Next, Rest

(* Requests stay as they are, and new ones come after them.                 *)
LEMMA RequestsKept ==
  ASSUME Base, Handlers, [Next]_vars
  PROVE  /\ Len(requests') \in Nat /\ Len(requests') >= Len(requests)
         /\ \A i \in 1 .. Len(requests) : requests'[i] = requests[i]
<1>1. Len(requests) \in Nat
  BY LenProperties DEF Base, TypeOK
<1>2. CASE ServerStep
  <2>1. UNCHANGED requests
    BY <1>2 DEF ServerStep, netVars, TakeLocal, TakeToggle, TakeProxy, ProxyReturns,
         ProxyBodyFails, ProxyBreaks, TakePublish, RejectPublish, DeliverNext,
         DeliveryReturns, FinishPublish, TakeRun, RunReturns, RunTimesOut, RunRecords
  <2> QED BY <1>1, <2>1
<1>3. CASE UNCHANGED requests
  BY <1>1, <1>3
<1>4. CASE \E r \in RequestType : Arrives(r)
  BY <1>1, <1>4, ArrivesType
<1> QED BY <1>2, <1>3, <1>4, NextServer

(* The server thread begins calls of endpoints.                             *)
LEMMA ServerCallsNew ==
  ASSUME Base, TakeProxy \/ DeliverNext \/ TakeRun
  PROVE  \E e \in Endpoints, r, m, n \in Nat :
           ServerCalls(server'.pc, server'.delivered, NewCall(e, r, m, n))
<1>1. CASE TakeProxy
  <2> DEFINE e == Taking.target
  <2>1. taken + 1 \in 1 .. Len(requests)
    BY <1>1 DEF Base, TypeOK, TakeProxy, Takes
  <2>2. e \in Endpoints
    BY <1>1, <2>1, RequestTypes DEF Taking, TakeProxy, Takes
  <2>3. Router!Position(ServiceOf[e]) \in Nat
    BY <2>2, EndpointsAssumption, PositionType
  <2>4. ServerCalls("proxy", 0, NewCall(e, Router!Position(ServiceOf[e]), 0, 0))
    BY <1>1 DEF TakeProxy
  <2>5. server'.pc = "proxy" /\ server'.delivered = 0
    BY <2>4 DEF ServerCalls
  <2> HIDE DEF e
  <2> QED BY <2>2, <2>3, <2>4, <2>5
<1>2. CASE DeliverNext
  <2> DEFINE q == Current.target
             k == server.delivered + 1
             e == SubscribersOf(q)[k]
  <2>1. taken \in 1 .. Len(requests) /\ k \in Nat \ {0}
    BY <1>2 DEF Base, Shape, TypeOK, DeliverNext, ServerType
  <2>2. q \in Queues
    BY <1>2, <2>1, RequestTypes DEF Base, Shape, DeliverNext, Current, KindAt
  <2>3. SubscribersOf(q) \in Seq(Endpoints)
    BY <2>2 DEF Base, Registry!TypeOK, Registry!QueueInfo, SubscribersOf
  <2>4. e \in Endpoints
    <3>1. k \in 1 .. Len(SubscribersOf(q))
      BY <1>2, <2>1, <2>3, LenProperties DEF DeliverNext, Base, TypeOK, ServerType
    <3> QED BY <2>3, <3>1, ElementOfSeq
  <2>5. ServerCalls("deliver", k, NewCall(e, 0, taken, k))
    BY <1>2 DEF DeliverNext
  <2>6. server'.pc = "deliver" /\ server'.delivered = k
    BY <2>5 DEF ServerCalls
  <2> HIDE DEF q, k, e
  <2> QED BY <2>1, <2>4, <2>5, <2>6
<1>3. CASE TakeRun
  <2> DEFINE e == Hook[Taking.target]
  <2>1. taken + 1 \in 1 .. Len(requests)
    BY <1>3 DEF Base, TypeOK, TakeRun, Takes
  <2>2. e \in Endpoints
    BY <1>3, <2>1, RequestTypes, EndpointsAssumption DEF Taking, TakeRun, Takes
  <2>3. ServerCalls("run", 0, NewCall(e, 0, 0, 0))
    BY <1>3 DEF TakeRun
  <2>4. server'.pc = "run" /\ server'.delivered = 0
    BY <2>3 DEF ServerCalls
  <2> HIDE DEF e
  <2> QED BY <2>2, <2>3, <2>4
<1> QED BY <1>1, <1>2, <1>3

(* What a step does to the calls: nothing, a new one or a step of a handler. *)
LEMMA CallsStep ==
  ASSUME Base, [Next]_vars
  PROVE  \/ UNCHANGED calls
         \/ \E e \in Endpoints, r, m, k \in Nat :
              calls' = Append(calls, NewCall(e, r, m, k))
         \/ \E c \in DOMAIN calls : ServiceStep(c)
<1>1. CASE TakeProxy \/ DeliverNext \/ TakeRun
  BY <1>1, ServerCallsNew DEF ServerCalls
<1>2. ASSUME NEW s \in Schedules, ThreadCalls(s)
      PROVE  \E e \in Endpoints, r, m, k \in Nat :
               calls' = Append(calls, NewCall(e, r, m, k))
  <2>1. Hook[s] \in Endpoints
    BY EndpointsAssumption
  <2> QED BY <1>2, <2>1 DEF ThreadCalls
<1>3. CASE \/ Startup \/ Submit \/ UNCHANGED vars
           \/ ServerStep /\ ~TakeProxy /\ ~DeliverNext /\ ~TakeRun
           \/ \E s \in Schedules : ThreadStep(s) /\ ~ThreadCalls(s)
  BY <1>3 DEF vars, callVars, Startup, Submit, ServerStep, TakeLocal, TakeToggle,
       ProxyReturns, ProxyBodyFails, ProxyBreaks, TakePublish, RejectPublish,
       DeliveryReturns, FinishPublish, RunReturns, RunTimesOut, RunRecords,
       ThreadStep, ThreadWakes, ThreadReturns, ThreadTimesOut
<1>4. \/ Startup \/ Submit \/ UNCHANGED vars \/ ServerStep
      \/ \E s \in Schedules : ThreadStep(s)
      \/ \E c \in DOMAIN calls : ServiceStep(c)
  BY DEF Next, Rest
<1> QED BY <1>1, <1>2, <1>3, <1>4

(* Handlers is kept by every step.                                          *)
LEMMA NextHandlers == Base /\ Handlers /\ [Next]_vars => Handlers'
<1> SUFFICES ASSUME Base, Handlers, [Next]_vars PROVE Handlers'
  OBVIOUS
<1>1. Len(requests) \in Nat /\ Len(requests') \in Nat /\ Len(requests') >= Len(requests)
  BY RequestsKept, LenProperties DEF Base, TypeOK
<1>2. calls \in Seq(ServiceCall) /\ Len(calls) \in Nat /\ DOMAIN calls = 1 .. Len(calls)
  BY LenProperties DEF Base, TypeOK
<1>3. CASE UNCHANGED calls
  BY <1>1, <1>2, <1>3, ElementOfSeq DEF Handlers, ServiceCall, CallType
<1>4. ASSUME NEW e \in Endpoints, NEW r \in Nat, NEW m \in Nat, NEW k \in Nat,
             calls' = Append(calls, NewCall(e, r, m, k))
      PROVE  Handlers'
  <2>1. /\ Len(calls') = Len(calls) + 1 /\ DOMAIN calls' = 1 .. Len(calls')
        /\ \A c \in 1 .. Len(calls) : calls'[c] = calls[c]
        /\ calls'[Len(calls) + 1] = NewCall(e, r, m, k)
    BY <1>4, NewCallType, CallsType, LenProperties
  <2>2. Len(Events[e]) <= Len(Events[e])
    BY EndpointsAssumption, LenProperties
  <2>3. \A c \in 1 .. Len(calls) : calls[c].pub \in Nat
    BY <1>2, ElementOfSeq DEF ServiceCall, CallType
  <2> QED BY <1>1, <1>2, <2>1, <2>2, <2>3 DEF Handlers, NewCall
<1>5. ASSUME NEW c \in DOMAIN calls, ServiceStep(c)
      PROVE  Handlers'
  <2>1. PICK new \in ServiceCall :
          Handler(c, new) /\ Moves(c, new)
    BY <1>5, HandlerStep
  <2>2. /\ DOMAIN calls' = DOMAIN calls
        /\ \A d \in DOMAIN calls : calls'[d] = IF d = c THEN new ELSE calls[d]
    BY <1>2, <2>1, HandlerType, LenProperties
  <2>3. calls[c] \in ServiceCall
    BY <1>2, ElementOfSeq
  <2>4. new.left <= Len(Events[new.endpoint])
    <3>1. Len(Events[calls[c].endpoint]) \in Nat /\ calls[c].left \in Nat
      BY <2>3, EndpointsAssumption, LenProperties DEF ServiceCall, CallType
    <3>2. new.left \in {calls[c].left, calls[c].left - 1}
      BY <2>1 DEF Moves
    <3> QED BY <2>1, <3>1, <3>2 DEF Handlers, Moves
  <2>5. new.state = "awaiting" => new.pub \in 1 .. Len(requests')
    <3>1. ASSUME HandlerPublishes(c)
          PROVE  Len(requests') = Len(requests) + 1
      BY <3>1, PublishArrives, ArrivesType
    <3> QED BY <1>1, <2>1, <3>1 DEF Moves
  <2>6. \A d \in 1 .. Len(calls) : calls[d].pub \in Nat
    BY <1>2, ElementOfSeq DEF ServiceCall, CallType
  <2> QED BY <1>1, <1>2, <2>2, <2>4, <2>5, <2>6 DEF Handlers
<1> QED BY <1>3, <1>4, <1>5, CallsStep

(* Every reachable state of the runner has its types.                       *)
THEOREM RunnerTypes == Spec => []TypeOK
<1>1. Init => Base /\ Handlers
  <2>1. Init => Handlers
    BY EmptySeq DEF Init, Handlers
  <2> QED BY <2>1, InitBase
<1>2. (Base /\ Handlers) /\ [Next]_vars => (Base /\ Handlers)'
  BY NextBase, NextHandlers
<1>3. Base /\ Handlers => TypeOK
  BY DEF Base
<1> QED BY <1>1, <1>2, <1>3, PTL DEF Spec

-----------------------------------------------------------------------------
(* The order in which requests are answered.                               *)

(* The server thread answers a request at once, takes one up, goes on with  *)
(* the one it has, or answers it.                                           *)
AnswersAtOnce ==
  /\ server = Idle /\ server' = Idle
  /\ taken + 1 \in 1 .. Len(requests) /\ taken' = taken + 1
  /\ \E status \in Nat :
       /\ Answer(taken + 1, status)
       /\ requests[taken + 1].kind = "publish" => status \in {202, 500}

TakesUp ==
  /\ server = Idle /\ server' # Idle
  /\ taken + 1 \in 1 .. Len(requests) /\ taken' = taken + 1
  /\ UNCHANGED answers

GoesOn == server # Idle /\ server' # Idle /\ UNCHANGED <<taken, answers>>

Finishes ==
  /\ server # Idle /\ server' = Idle
  /\ taken \in 1 .. Len(requests) /\ UNCHANGED taken
  /\ \E status \in Nat :
       /\ Answer(taken, status)
       /\ requests[taken].kind = "publish" => status \in {202, 500}

(* Every step of the server thread is one of these four.                    *)
LEMMA ServerMoves ==
  ASSUME Base, ServerStep
  PROVE  /\ UNCHANGED requests
         /\ AnswersAtOnce \/ TakesUp \/ GoesOn \/ Finishes
<1>1. taken \in Nat /\ Len(requests) \in Nat /\ server \in ServerType
  BY DEF Base, TypeOK
<1>2. CASE TakeLocal \/ TakeToggle \/ RejectPublish
  <2>1. AnswersAtOnce
    BY <1>1, <1>2 DEF AnswersAtOnce, TakeLocal, TakeToggle, RejectPublish, Takes
  <2> QED BY <1>2, <2>1 DEF TakeLocal, TakeToggle, RejectPublish
<1>3. CASE TakeProxy \/ TakePublish \/ TakeRun
  <2>1. server'.pc # "idle"
    BY <1>3 DEF TakeProxy, TakePublish, TakeRun, ServerCalls
  <2> QED BY <1>1, <1>3, <2>1
       DEF TakesUp, TakeProxy, TakePublish, TakeRun, Takes, netVars, Idle
<1>4. CASE DeliverNext \/ DeliveryReturns \/ RunReturns \/ RunTimesOut
  <2>1. server.pc # "idle"
    BY <1>4 DEF DeliverNext, DeliveryReturns, RunReturns, RunTimesOut
  <2>2. server'.pc # "idle"
    <3>1. CASE DeliverNext
      BY <3>1 DEF DeliverNext, ServerCalls
    <3>2. CASE DeliveryReturns
      BY <1>1, <3>2 DEF DeliveryReturns, ServerType
    <3>3. CASE RunReturns \/ RunTimesOut
      BY <1>1, <3>3 DEF RunReturns, RunTimesOut, ServerType
    <3> QED BY <1>4, <3>1, <3>2, <3>3
  <2> QED BY <1>4, <2>1, <2>2
       DEF GoesOn, DeliverNext, DeliveryReturns, RunReturns, RunTimesOut, netVars, Idle
<1>5. CASE ProxyReturns \/ ProxyBodyFails \/ ProxyBreaks
  <2>1. /\ server.pc = "proxy" /\ UNCHANGED <<requests, taken>> /\ server' = Idle
    BY <1>5 DEF ProxyReturns, ProxyBodyFails, ProxyBreaks
  <2>2. taken \in 1 .. Len(requests) /\ requests[taken].kind = "proxy"
    BY <1>1, <2>1 DEF Base, TypeOK, Shape, KindAt
  <2>3. \E status \in Nat : Answer(taken, status)
    BY <1>5, ProxyAnswers
  <2> QED BY <2>1, <2>2, <2>3 DEF Finishes, Idle
<1>6. CASE FinishPublish
  <2>1. taken \in 1 .. Len(requests)
    BY <1>1, <1>6 DEF Base, TypeOK, Shape, FinishPublish
  <2> QED BY <1>6, <2>1 DEF Finishes, FinishPublish, Idle
<1>7. CASE RunRecords
  <2>1. taken \in 1 .. Len(requests) /\ requests[taken].kind = "run"
    BY <1>1, <1>7 DEF Base, TypeOK, Shape, RunRecords, KindAt
  <2> QED BY <1>7, <2>1 DEF Finishes, RunRecords, Idle
<1> QED BY <1>2, <1>3, <1>4, <1>5, <1>6, <1>7 DEF ServerStep

(* What every step does to the answers: none is changed once it is given,   *)
(* and a publication is answered with 202 or 500.                           *)
AnswersKept ==
  \A i \in 1 .. Len(requests) :
    \/ answers'[i] = answers[i]
    \/ /\ answers[i] = None
       /\ requests[i].kind = "publish" => answers'[i] \in {202, 500}

(* The server thread answers in order, and answers are kept.                *)
LEMMA NextInOrder ==
  ASSUME Base, Handlers, InOrder, [Next]_vars
  PROVE  InOrder' /\ AnswersKept
<1>1. /\ taken \in Nat /\ taken <= Len(requests) /\ Len(requests) \in Nat
      /\ DOMAIN requests = 1 .. Len(requests) /\ Len(answers) = Len(requests)
      /\ DOMAIN requests' = 1 .. Len(requests')
  <2>1. TypeOK'
    BY NextBase DEF Base
  <2> QED BY <2>1, LenProperties DEF Base, TypeOK
<1>2. \A i \in 1 .. Len(requests) :
        answers[i] # None <=> i < taken \/ (i = taken /\ server = Idle)
  BY <1>1 DEF InOrder
<1>3. CASE ServerStep
  <2>1. UNCHANGED requests
    BY <1>3, ServerMoves
  <2>2. CASE AnswersAtOnce
    <3>1. PICK status \in Nat :
            /\ Answer(taken + 1, status)
            /\ requests[taken + 1].kind = "publish" => status \in {202, 500}
      BY <2>2 DEF AnswersAtOnce
    <3>2. \A i \in 1 .. Len(requests) :
            answers'[i] = IF i = taken + 1 THEN status ELSE answers[i]
      BY <1>1, <2>2, <3>1, AnswerType DEF AnswersAtOnce
    <3>3. status # None
      BY StatusAssumption
    <3> QED BY <1>1, <1>2, <2>1, <2>2, <3>1, <3>2, <3>3
         DEF InOrder, AnswersKept, AnswersAtOnce
  <2>3. CASE TakesUp
    BY <1>1, <1>2, <2>1, <2>3 DEF InOrder, AnswersKept, TakesUp
  <2>4. CASE GoesOn
    BY <1>1, <1>2, <2>1, <2>4 DEF InOrder, AnswersKept, GoesOn
  <2>5. CASE Finishes
    <3>1. PICK status \in Nat :
            /\ Answer(taken, status)
            /\ requests[taken].kind = "publish" => status \in {202, 500}
      BY <2>5 DEF Finishes
    <3>2. \A i \in 1 .. Len(requests) :
            answers'[i] = IF i = taken THEN status ELSE answers[i]
      BY <1>1, <2>5, <3>1, AnswerType DEF Finishes
    <3>3. status # None
      BY StatusAssumption
    <3> QED BY <1>1, <1>2, <2>1, <2>5, <3>1, <3>2, <3>3
         DEF InOrder, AnswersKept, Finishes
  <2> QED BY <1>3, <2>2, <2>3, <2>4, <2>5, ServerMoves
<1>4. CASE UNCHANGED <<requests, answers, recorded, taken, server>>
  BY <1>1, <1>2, <1>4 DEF InOrder, AnswersKept
<1>5. CASE UNCHANGED <<taken, server>> /\ \E r \in RequestType : Arrives(r)
  <2>1. PICK r \in RequestType : Arrives(r)
    BY <1>5
  <2>2. /\ Len(requests') = Len(requests) + 1
        /\ \A i \in 1 .. Len(requests) : answers'[i] = answers[i]
        /\ answers'[Len(requests) + 1] = None
    BY <2>1, ArrivesType
  <2> QED BY <1>1, <1>2, <1>5, <2>2 DEF InOrder, AnswersKept
<1>6. ServerStep \/ UNCHANGED <<requests, answers, recorded, taken, server>>
      \/ (UNCHANGED <<taken, server>> /\ \E r \in RequestType : Arrives(r))
  BY NextServer
<1> QED BY <1>3, <1>4, <1>5, <1>6

(* The server thread has answered exactly the requests it has finished.     *)
THEOREM AnswersInOrder == Spec => []InOrder
<1> DEFINE IInv == Base /\ Handlers /\ InOrder
<1>1. Init => IInv
  BY InitBase, EmptySeq DEF Init, Handlers, InOrder
<1>2. IInv /\ [Next]_vars => IInv'
  BY NextBase, NextHandlers, NextInOrder
<1> QED BY <1>1, <1>2, PTL DEF Spec

-----------------------------------------------------------------------------
(* The statistics of proxied requests.                                     *)

(* A step that concerns no proxied request, and one that ends one.          *)
LeavesProxied ==
  /\ UNCHANGED recorded
  /\ \A i \in 1 .. Len(requests) :
       requests[i].kind = "proxy" => answers'[i] = answers[i]

EndsProxied(status, counted) ==
  /\ taken \in 1 .. Len(requests)
  /\ Answer(taken, status)
  /\ recorded' = [recorded EXCEPT ![taken] = counted]
  /\ counted = status \/ (status = 500 /\ counted \in Statuses)

(* The server thread records a status in the step that answers a proxied    *)
(* request, and in no other.                                                *)
LEMMA ServerRecords ==
  ASSUME Base, ServerStep
  PROVE  LeavesProxied \/ \E status, counted \in Nat : EndsProxied(status, counted)
<1>1. taken \in Nat /\ Len(requests) \in Nat /\ Len(answers) = Len(requests)
  BY LenProperties DEF Base, TypeOK
<1>2. CASE TakeLocal \/ TakeToggle \/ RejectPublish
  <2>1. /\ taken + 1 \in 1 .. Len(requests) /\ UNCHANGED recorded
        /\ requests[taken + 1].kind # "proxy"
    BY <1>1, <1>2 DEF TakeLocal, TakeToggle, RejectPublish, Takes
  <2>2. PICK status \in Nat : Answer(taken + 1, status)
    BY <1>2 DEF TakeLocal, TakeToggle, RejectPublish
  <2> QED BY <1>1, <2>1, <2>2, AnswerType DEF LeavesProxied
<1>3. CASE TakeProxy \/ TakePublish \/ TakeRun \/ DeliverNext
           \/ DeliveryReturns \/ RunReturns \/ RunTimesOut
  BY <1>3 DEF LeavesProxied, TakeProxy, TakePublish, TakeRun, DeliverNext,
              DeliveryReturns, RunReturns, RunTimesOut, netVars
<1>4. CASE FinishPublish \/ RunRecords
  <2>1. /\ taken \in 1 .. Len(requests) /\ UNCHANGED recorded
        /\ requests[taken].kind # "proxy"
    BY <1>1, <1>4 DEF FinishPublish, RunRecords, Base, TypeOK, Shape, KindAt
  <2>2. PICK status \in Nat : Answer(taken, status)
    BY <1>4 DEF FinishPublish, RunRecords
  <2> QED BY <1>1, <2>1, <2>2, AnswerType DEF LeavesProxied
<1>5. CASE ProxyReturns \/ ProxyBodyFails
  <2>1. server.pc = "proxy" /\ Replied(server.call)
    BY <1>5 DEF ProxyReturns, ProxyBodyFails
  <2>2. taken \in 1 .. Len(requests) /\ server.call \in 1 .. Len(calls)
    BY <1>1, <2>1 DEF Base, TypeOK, Shape, ServerType
  <2>3. calls[server.call] \in ServiceCall
    BY <2>2, ElementOfSeq DEF Base, TypeOK
  <2>4. calls[server.call].status \in Statuses
    BY <2>1, <2>3 DEF ServiceCall, CallType, Replied
  <2>5. 202 \in Nat /\ 500 \in Nat
    OBVIOUS
  <2>6. calls[server.call].status \in Nat
    BY <2>4, <2>5, StatusAssumption DEF Statuses
  <2> QED BY <1>5, <2>2, <2>4, <2>5, <2>6 DEF EndsProxied, ProxyReturns, ProxyBodyFails
<1>6. CASE ProxyBreaks
  <2>1. taken \in 1 .. Len(requests)
    BY <1>1, <1>6 DEF ProxyBreaks, Base, TypeOK, Shape
  <2>2. 502 \in Nat
    OBVIOUS
  <2>3. EndsProxied(502, 502)
    BY <1>6, <2>1 DEF EndsProxied, ProxyBreaks
  <2> QED BY <2>2, <2>3
<1> QED BY <1>2, <1>3, <1>4, <1>5, <1>6 DEF ServerStep

(* ProxiedIsRecorded is kept by every step.                                 *)
LEMMA NextProxied ==
  ASSUME Base, Handlers, ProxiedIsRecorded, [Next]_vars
  PROVE  ProxiedIsRecorded'
<1>1. /\ Len(requests) \in Nat /\ DOMAIN requests = 1 .. Len(requests)
      /\ Len(answers) = Len(requests) /\ Len(recorded) = Len(requests)
      /\ recorded \in Seq(Answers)
      /\ DOMAIN requests' = 1 .. Len(requests')
  <2>1. TypeOK'
    BY NextBase DEF Base
  <2> QED BY <2>1, LenProperties DEF Base, TypeOK
<1>2. CASE ServerStep
  <2>1. UNCHANGED requests
    BY <1>2, ServerMoves
  <2>2. CASE LeavesProxied
    BY <1>1, <2>1, <2>2 DEF LeavesProxied, ProxiedIsRecorded
  <2>3. ASSUME NEW status \in Nat, NEW counted \in Nat, EndsProxied(status, counted)
        PROVE  ProxiedIsRecorded'
    <3>1. \A i \in 1 .. Len(requests) :
            answers'[i] = IF i = taken THEN status ELSE answers[i]
      BY <1>1, <2>3, AnswerType DEF EndsProxied
    <3>2. \A i \in 1 .. Len(requests) :
            recorded'[i] = IF i = taken THEN counted ELSE recorded[i]
      BY <1>1, <2>3, ExceptSeq DEF EndsProxied, Answers
    <3> QED BY <1>1, <2>1, <2>3, <3>1, <3>2 DEF EndsProxied, ProxiedIsRecorded
  <2> QED BY <1>2, <2>2, <2>3, ServerRecords
<1>3. CASE UNCHANGED <<requests, answers, recorded>>
  BY <1>3 DEF ProxiedIsRecorded
<1>4. ASSUME NEW r \in RequestType, Arrives(r)
      PROVE  ProxiedIsRecorded'
  <2>1. /\ Len(requests') = Len(requests) + 1
        /\ \A i \in 1 .. Len(requests) :
             requests'[i] = requests[i] /\ answers'[i] = answers[i]
        /\ answers'[Len(requests) + 1] = None
    BY <1>4, ArrivesType
  <2>2. \A i \in 1 .. Len(requests) : recorded'[i] = recorded[i]
    BY <1>1, <1>4, AppendProperties DEF Arrives, Answers
  <2> QED BY <1>1, <2>1, <2>2 DEF ProxiedIsRecorded
<1>5. \/ ServerStep
      \/ UNCHANGED <<requests, answers, recorded>>
      \/ \E r \in RequestType : Arrives(r)
  BY NextServer
<1> QED BY <1>2, <1>3, <1>4, <1>5

(* Every proxied request that was answered is in the statistics with the    *)
(* status of its answer, or with the one that its service gave before the   *)
(* body broke off.                                                          *)
THEOREM ProxiedRecorded == Spec => []ProxiedIsRecorded
<1> DEFINE IInv == Base /\ Handlers /\ ProxiedIsRecorded
<1>1. Init => IInv
  BY InitBase, EmptySeq DEF Init, Handlers, ProxiedIsRecorded
<1>2. IInv /\ [Next]_vars => IInv'
  BY NextBase, NextHandlers, NextProxied
<1> QED BY <1>1, <1>2, PTL DEF Spec

-----------------------------------------------------------------------------
(* Events and their answers.                                               *)

(* An event of call c has been accepted.                                    *)
Counts(c) ==
  \E i \in 1 .. Len(requests) : requests[i].from = c /\ answers[i] = 202

(* A handler awaits the answer to a publication of its own, each success it *)
(* counts is a publication the runner accepted, and its 202 one such.       *)
Published ==
  /\ \A i \in 1 .. Len(requests) :
       requests[i].kind = "publish" => answers[i] \in {None, 202, 500}
  /\ \A c \in 1 .. Len(calls) :
       /\ calls[c].state = "awaiting" =>
            /\ requests[calls[c].pub].from = c
            /\ requests[calls[c].pub].kind = "publish"
       /\ calls[c].ok > 0 => Counts(c)
       /\ calls[c].status = 202 /\ Events[calls[c].endpoint] # <<>> => calls[c].ok > 0

(* Published is kept by every step.                                         *)
LEMMA NextPublished ==
  ASSUME Base, Handlers, InOrder, Published, [Next]_vars
  PROVE  Published'
<1>1. /\ Len(requests) \in Nat /\ calls \in Seq(ServiceCall) /\ Len(calls) \in Nat
      /\ DOMAIN calls = 1 .. Len(calls) /\ Len(requests) = Len(answers)
  BY LenProperties DEF Base, TypeOK
<1>2. /\ Len(requests') \in Nat /\ Len(requests') >= Len(requests)
      /\ \A i \in 1 .. Len(requests) : requests'[i] = requests[i]
  BY RequestsKept
<1>3. AnswersKept /\ None # 202
  BY NextInOrder, StatusAssumption
<1>4. \A c : Counts(c) => Counts(c)'
  BY <1>1, <1>2, <1>3 DEF AnswersKept, Counts
<1>5. \A i \in 1 .. Len(requests') :
        requests'[i].kind = "publish" => answers'[i] \in {None, 202, 500}
  <2>1. \A i \in 1 .. Len(requests) :
          requests'[i].kind = "publish" => answers'[i] \in {None, 202, 500}
    BY <1>2, <1>3 DEF AnswersKept, Published
  <2>2. CASE Len(requests') = Len(requests)
    BY <2>1, <2>2
  <2>3. CASE \E r \in RequestType : Arrives(r)
    <3>1. /\ Len(requests') = Len(requests) + 1
          /\ answers'[Len(requests) + 1] = None
      BY <2>3, ArrivesType
    <3> QED BY <1>1, <2>1, <3>1
  <2> QED BY <2>2, <2>3, NextServer, ServerMoves
<1>6. ASSUME NEW c \in 1 .. Len(calls), calls'[c] = calls[c]
      PROVE  /\ calls'[c].state = "awaiting" =>
                  /\ requests'[calls'[c].pub].from = c
                  /\ requests'[calls'[c].pub].kind = "publish"
             /\ calls'[c].ok > 0 => Counts(c)'
             /\ calls'[c].status = 202 /\ Events[calls'[c].endpoint] # <<>> =>
                  calls'[c].ok > 0
  <2>1. calls[c].state = "awaiting" => calls[c].pub \in 1 .. Len(requests)
    BY <1>1 DEF Handlers
  <2>2. calls[c].ok > 0 => Counts(c)
    BY DEF Published
  <2> QED BY <1>2, <1>4, <1>6, <2>1, <2>2 DEF Published
<1>7. CASE UNCHANGED calls
  BY <1>5, <1>6, <1>7 DEF Published
<1>8. ASSUME NEW e \in Endpoints, NEW r \in Nat, NEW m \in Nat, NEW k \in Nat,
             calls' = Append(calls, NewCall(e, r, m, k))
      PROVE  Published'
  <2>1. /\ Len(calls') = Len(calls) + 1
        /\ \A c \in 1 .. Len(calls) : calls'[c] = calls[c]
        /\ calls'[Len(calls) + 1] = NewCall(e, r, m, k)
    BY <1>8, NewCallType, CallsType
  <2>2. /\ NewCall(e, r, m, k).state = "running" /\ NewCall(e, r, m, k).ok = 0
        /\ NewCall(e, r, m, k).status = None
    BY DEF NewCall
  <2> QED BY <1>1, <1>3, <1>5, <1>6, <2>1, <2>2 DEF Published
<1>9. ASSUME NEW c \in DOMAIN calls, ServiceStep(c)
      PROVE  Published'
  <2>1. PICK new \in ServiceCall : Handler(c, new) /\ Moves(c, new)
    BY <1>9, HandlerStep
  <2>2. /\ Len(calls') = Len(calls) /\ c \in 1 .. Len(calls)
        /\ \A d \in 1 .. Len(calls) : calls'[d] = IF d = c THEN new ELSE calls[d]
    BY <2>1, HandlerType
  <2>3. new.state = "awaiting" =>
          /\ requests'[new.pub].from = c
          /\ requests'[new.pub].kind = "publish"
    <3>1. SUFFICES ASSUME HandlerPublishes(c), new.pub = Len(requests) + 1
                   PROVE  /\ requests'[new.pub].from = c
                          /\ requests'[new.pub].kind = "publish"
      BY <2>1 DEF Moves
    <3>2. PICK q \in Queues : /\ Request("publish", q, c) \in RequestType
                              /\ Arrives(Request("publish", q, c))
      BY <3>1, PublishArrives
    <3>3. requests'[Len(requests) + 1] = Request("publish", q, c)
      BY <3>2, ArrivesType
    <3> QED BY <3>1, <3>3 DEF Request
  <2>4. new.ok > 0 => Counts(c)'
    <3>1. CASE new.ok = calls[c].ok
      BY <1>4, <2>2, <3>1 DEF Published
    <3>2. CASE new.ok # calls[c].ok
      <4>1. HandlerResumes(c) /\ answers[calls[c].pub] \in 200 .. 299
        BY <2>1, <3>2 DEF Moves
      <4>2. /\ calls[c].state = "awaiting"
            /\ calls[c].pub \in 1 .. Len(requests)
        BY <4>1 DEF HandlerResumes, Handlers
      <4>3. answers[calls[c].pub] \in {None, 202, 500} /\ None \notin Nat
        BY <2>2, <4>2, StatusAssumption DEF Published
      <4>4. answers[calls[c].pub] = 202
        BY <4>1, <4>3
      <4>5. Counts(c)
        BY <2>2, <4>2, <4>4 DEF Published, Counts
      <4> QED BY <1>4, <4>5
    <3> QED BY <3>1, <3>2
  <2>5. new.status = 202 /\ Events[new.endpoint] # <<>> => new.ok > 0
    BY <2>1 DEF Moves
  <2> QED BY <1>5, <1>6, <2>2, <2>3, <2>4, <2>5 DEF Published
<1> QED BY <1>7, <1>8, <1>9, CallsStep

(* A webhook that publishes and answers 202 had an event accepted.          *)
THEOREM SuccessIsAccepted == Spec => []SuccessMeansAccepted
<1> DEFINE IInv == Base /\ Handlers /\ InOrder /\ Published
<1>1. Init => IInv
  BY InitBase, EmptySeq DEF Init, Handlers, InOrder, Published
<1>2. IInv /\ [Next]_vars => IInv'
  BY NextBase, NextHandlers, NextInOrder, NextPublished
<1>3. IInv => SuccessMeansAccepted
  <2> SUFFICES ASSUME Base, Published, NEW c \in DOMAIN calls,
                      calls[c].status = 202, Events[calls[c].endpoint] # <<>>
               PROVE  \E i \in DOMAIN requests :
                        requests[i].from = c /\ answers[i] = 202
    BY DEF SuccessMeansAccepted
  <2>1. DOMAIN calls = 1 .. Len(calls) /\ DOMAIN requests = 1 .. Len(requests)
    BY LenProperties DEF Base, TypeOK
  <2>2. Counts(c)
    BY <2>1 DEF Published
  <2> QED BY <2>1, <2>2 DEF Counts
<1> QED BY <1>1, <1>2, <1>3, PTL DEF Spec

(* A call of the server thread begins with nothing accepted and awaits an   *)
(* answer only the server thread could give.                                *)
LEMMA NextOwnEventsWait ==
  ASSUME Base, Handlers, InOrder, OwnEventsWait, [Next]_vars
  PROVE  OwnEventsWait'
<1>1. /\ Len(requests) \in Nat /\ taken \in Nat /\ taken <= Len(requests)
      /\ Len(calls) \in Nat /\ server.call \in 0 .. Len(calls)
      /\ calls \in Seq(ServiceCall)
      /\ DOMAIN calls = 1 .. Len(calls) /\ DOMAIN requests = 1 .. Len(requests)
  BY LenProperties DEF Base, TypeOK, Shape
<1>2. CASE ServerStep
  <2>1. ASSUME NEW pc, NEW k, NEW e \in Endpoints, NEW r \in Nat, NEW m \in Nat,
               NEW n \in Nat, ServerCalls(pc, k, NewCall(e, r, m, n))
        PROVE  OwnEventsWait'
    <3>1. calls'[Len(calls) + 1] = NewCall(e, r, m, n)
      BY <2>1, NewCallType, CallsType DEF ServerCalls
    <3>2. server'.call = Len(calls) + 1
      BY <2>1 DEF ServerCalls
    <3>3. NewCall(e, r, m, n).ok = 0 /\ NewCall(e, r, m, n).state = "running"
      BY DEF NewCall
    <3> QED BY <3>1, <3>2, <3>3 DEF OwnEventsWait
  <2>2. \/ server'.call = 0
        \/ TakeProxy \/ DeliverNext \/ TakeRun
    <3>1. CASE \/ TakeLocal \/ TakeToggle \/ RejectPublish \/ FinishPublish
               \/ ProxyReturns \/ ProxyBodyFails \/ ProxyBreaks \/ RunRecords
      BY <3>1 DEF Idle, TakeLocal, TakeToggle, RejectPublish, Takes, FinishPublish,
           ProxyReturns, ProxyBodyFails, ProxyBreaks, RunRecords
    <3>2. CASE TakePublish
      BY <3>2 DEF TakePublish
    <3>3. CASE DeliveryReturns
      BY <3>3 DEF DeliveryReturns, Base, TypeOK, ServerType
    <3>4. CASE RunReturns \/ RunTimesOut
      BY <3>4 DEF RunReturns, RunTimesOut, Base, TypeOK, ServerType
    <3> QED BY <1>2, <3>1, <3>2, <3>3, <3>4 DEF ServerStep
  <2>3. CASE server'.call = 0
    BY <2>3 DEF OwnEventsWait
  <2>4. CASE TakeProxy \/ DeliverNext \/ TakeRun
    BY <2>1, <2>4, ServerCallsNew
  <2> QED BY <2>2, <2>3, <2>4
<1>3. CASE UNCHANGED <<taken, server>> /\ ~ServerStep
  <2> SUFFICES ASSUME server.call # 0
               PROVE  /\ calls'[server.call].ok = 0
                      /\ calls'[server.call].state = "awaiting" =>
                           calls'[server.call].pub > taken
    BY <1>3 DEF OwnEventsWait
  <2>1. /\ calls[server.call].ok = 0
        /\ calls[server.call].state = "awaiting" => calls[server.call].pub > taken
        /\ server.call \in 1 .. Len(calls)
    BY <1>1 DEF OwnEventsWait
  <2>2. CASE UNCHANGED calls
    BY <2>1, <2>2
  <2>3. ASSUME NEW e \in Endpoints, NEW r \in Nat, NEW m \in Nat, NEW k \in Nat,
               calls' = Append(calls, NewCall(e, r, m, k))
        PROVE  calls'[server.call] = calls[server.call]
    BY <2>1, <2>3, NewCallType, CallsType
  <2>4. ASSUME NEW c \in DOMAIN calls, ServiceStep(c)
        PROVE  /\ calls'[server.call].ok = 0
               /\ calls'[server.call].state = "awaiting" =>
                    calls'[server.call].pub > taken
    <3>1. PICK new \in ServiceCall : Handler(c, new) /\ Moves(c, new)
      BY <2>4, HandlerStep
    <3>2. \A d \in 1 .. Len(calls) : calls'[d] = IF d = c THEN new ELSE calls[d]
      BY <3>1, HandlerType
    <3>3. CASE c # server.call
      BY <2>1, <3>2, <3>3
    <3>4. CASE c = server.call
      <4>1. ~HandlerResumes(c)
        <5> SUFFICES ASSUME HandlerResumes(c) PROVE FALSE
          OBVIOUS
        <5>1. /\ calls[c].pub \in 1 .. Len(requests) /\ calls[c].pub > taken
              /\ answers[calls[c].pub] # None
          BY <2>1, <3>4 DEF HandlerResumes, Handlers
        <5> QED BY <1>1, <5>1 DEF InOrder
      <4>2. new.ok = 0
        BY <2>1, <3>1, <3>4, <4>1 DEF Moves
      <4>3. new.state = "awaiting" => new.pub > taken
        BY <1>1, <3>1 DEF Moves
      <4> QED BY <2>1, <3>2, <3>4, <4>2, <4>3
    <3> QED BY <3>3, <3>4
  <2> QED BY <2>1, <2>2, <2>3, <2>4, CallsStep
<1> QED BY <1>2, <1>3, NextServer

(* While the server thread waits for a call, nothing that the handler of    *)
(* the call publishes is accepted.                                          *)
THEOREM OwnEventsAreNotServed == Spec => []OwnEventsWait
<1> DEFINE IInv == Base /\ Handlers /\ InOrder /\ OwnEventsWait
<1>1. Init => IInv
  BY InitBase, EmptySeq DEF Init, Idle, Handlers, InOrder, OwnEventsWait
<1>2. IInv /\ [Next]_vars => IInv'
  BY NextBase, NextHandlers, NextInOrder, NextOwnEventsWait
<1> QED BY <1>1, <1>2, PTL DEF Spec

-----------------------------------------------------------------------------
(* The schedules of the runner behave as Scheduler.tla says.               *)

(* The call that a schedule thread or a manual run waits for has a result.  *)
LEMMA NextScheduler ==
  ASSUME Base, Handlers, [Next]_vars
  PROVE  [Sched!Next]_(Sched!vars)
<1> USE DEF schedVars, Sched!vars
<1>1. Len(calls) \in Nat /\ DOMAIN calls = 1 .. Len(calls)
  BY LenProperties DEF Base, TypeOK
<1>2. Sched!Failed \in Sched!Outcomes
  BY DEF Sched!Outcomes
<1>3. ASSUME NEW s \in Schedules, ThreadStep(s)
      PROVE  [Sched!Next]_(Sched!vars)
  <2>1. CASE ThreadWakes(s)
    BY <2>1 DEF ThreadWakes, Sched!Next, Sched!Thread
  <2>2. CASE ThreadCalls(s)
    BY <2>2 DEF ThreadCalls, Sched!Next, Sched!Thread
  <2>3. CASE ThreadReturns(s)
    <3>1. Outcome(threadCall[s]) \in Sched!Outcomes
      <4>1. threadCall[s] \in 1 .. Len(calls) /\ ~Running(threadCall[s])
        BY <1>1, <2>3 DEF ThreadReturns, Base, Shape
      <4> QED BY <4>1, OutcomeType
    <3> QED BY <2>3, <3>1 DEF ThreadReturns, Sched!Next, Sched!Thread
  <2>4. CASE ThreadTimesOut(s)
    BY <1>2, <2>4 DEF ThreadTimesOut, Sched!Next, Sched!Thread
  <2> QED BY <1>3, <2>1, <2>2, <2>3, <2>4 DEF ThreadStep
<1>4. CASE TakeToggle
  <2>1. Taking.target \in Schedules
    <3>1. taken + 1 \in 1 .. Len(requests)
      BY <1>4 DEF Base, TypeOK, TakeToggle, Takes
    <3> QED BY <1>4, <3>1, RequestTypes DEF Taking, TakeToggle, Takes
  <2> QED BY <1>4, <2>1 DEF TakeToggle, Sched!Next, Sched!Server
<1>5. CASE TakeRun
  <2>1. Taking.target \in Schedules
    <3>1. taken + 1 \in 1 .. Len(requests)
      BY <1>5 DEF Base, TypeOK, TakeRun, Takes
    <3> QED BY <1>5, <3>1, RequestTypes DEF Taking, TakeRun, Takes
  <2> QED BY <1>5, <2>1 DEF TakeRun, Sched!Next, Sched!Server
<1>6. CASE RunReturns
  <2>1. Outcome(server.call) \in Sched!Outcomes
    <3>1. server.call \in 1 .. Len(calls) /\ ~Running(server.call)
      BY <1>1, <1>6 DEF RunReturns, Base, Shape
    <3> QED BY <3>1, OutcomeType
  <2> QED BY <1>6, <2>1 DEF RunReturns, Sched!Next, Sched!Server
<1>7. CASE RunTimesOut
  BY <1>2, <1>7 DEF RunTimesOut, Sched!Next, Sched!Server
<1>8. CASE RunRecords
  BY <1>8 DEF RunRecords, Sched!Next, Sched!Server
<1>9. CASE ServerStep /\ ~TakeToggle /\ ~TakeRun /\ ~RunReturns /\ ~RunTimesOut
           /\ ~RunRecords
  BY <1>9 DEF ServerStep, TakeLocal, TakeProxy, ProxyReturns, ProxyBodyFails,
       ProxyBreaks, TakePublish, RejectPublish, DeliverNext, DeliveryReturns,
       FinishPublish
<1>10. ASSUME NEW c \in DOMAIN calls, ServiceStep(c)
       PROVE  [Sched!Next]_(Sched!vars)
  BY <1>10 DEF ServiceStep, HandlerProgress, HandlerPublishes, HandlerResumes,
       HandlerReplies, PublishFails, HandlerFails, HandlerDropped, serviceFrame
<1>11. CASE Startup \/ Submit \/ UNCHANGED vars
  BY <1>11 DEF Startup, Submit, vars
<1> QED BY <1>3, <1>4, <1>5, <1>6, <1>7, <1>8, <1>9, <1>10, <1>11 DEF Next, Rest

(* Composed with the server thread and the services, whose calls decide the *)
(* outcomes, the schedules implement Scheduler.tla, so that what is proved  *)
(* of it holds in the runner.                                               *)
THEOREM SchedulerRefined == Spec => SchedulerSpec
<1> DEFINE IInv == Base /\ Handlers
<1>1. Init => IInv /\ Sched!Init
  BY InitBase, EmptySeq DEF Init, Handlers
<1>2. IInv /\ [Next]_vars => IInv'
  BY NextBase, NextHandlers
<1>3. IInv /\ [Next]_vars => [Sched!Next]_(Sched!vars)
  BY NextScheduler
<1> QED BY <1>1, <1>2, <1>3, PTL DEF Spec, SchedulerSpec, Sched!Spec

-----------------------------------------------------------------------------
(* The router of the runner behaves as RoundRobinRouter.tla says.          *)

(* TakeProxy picks a runner of one service, and nothing else moves it.     *)
LEMMA NextRouter ==
  ASSUME Base, [Next]_vars
  PROVE  [Router!RouterNext]_(Router!routerVars)
<1> USE DEF routerVars, Router!routerVars
<1>1. CASE TakeProxy
  <2>1. taken + 1 \in 1 .. Len(requests)
    BY <1>1 DEF Base, TypeOK, TakeProxy, Takes
  <2>2. Taking.target \in Endpoints
    BY <1>1, <2>1, RequestTypes DEF Taking, TakeProxy, Takes
  <2>3. ServiceOf[Taking.target] \in Services
    BY <2>2, EndpointsAssumption
  <2> QED BY <1>1, <2>3 DEF TakeProxy, Router!RouterNext
<1>2. CASE ServerStep /\ ~TakeProxy
  BY <1>2 DEF ServerStep, TakeLocal, TakeToggle, ProxyReturns, ProxyBodyFails,
       ProxyBreaks, TakePublish, RejectPublish, DeliverNext, DeliveryReturns,
       FinishPublish, TakeRun, RunReturns, RunTimesOut, RunRecords
<1>3. ASSUME NEW s \in Schedules, ThreadStep(s)
      PROVE  UNCHANGED routerVars
  BY <1>3 DEF ThreadStep, ThreadWakes, ThreadCalls, ThreadReturns, ThreadTimesOut
<1>4. ASSUME NEW c \in DOMAIN calls, ServiceStep(c)
      PROVE  UNCHANGED routerVars
  BY <1>4 DEF ServiceStep, HandlerProgress, HandlerPublishes, HandlerResumes,
       HandlerReplies, PublishFails, HandlerFails, HandlerDropped, serviceFrame
<1>5. CASE Startup \/ Submit \/ UNCHANGED vars
  BY <1>5 DEF Startup, Submit, vars
<1> QED BY <1>1, <1>2, <1>3, <1>4, <1>5 DEF Next, Rest

(* Composed with the server thread, the router implements its own           *)
(* specification, so that what is proved of its turns holds in the runner.  *)
THEOREM RouterRefined == Spec => Router!RouterSpec
<1> DEFINE IInv == Base /\ Handlers
<1>1. Init => IInv /\ Router!RouterInit
  BY InitBase, EmptySeq DEF Init, Handlers
<1>2. IInv /\ [Next]_vars => IInv'
  BY NextBase, NextHandlers
<1>3. IInv /\ [Next]_vars => [Router!RouterNext]_(Router!routerVars)
  BY NextRouter
<1> QED BY <1>1, <1>2, <1>3, PTL DEF Spec, Router!RouterSpec
=============================================================================
