--------------------------- MODULE DeliveryProofs ---------------------------
(***************************************************************************)
(* Proofs about the delivery loop of handle_queue_publish in Runner.tla:   *)
(* the order of the offers of a message, and what its acknowledgement says.*)
(***************************************************************************)
EXTENDS RunnerProofs, FiniteSetTheorems

-----------------------------------------------------------------------------
(* No request arrives before the registry is complete, so the subscribers  *)
(* of a queue do not change once there are messages.                       *)
Registered == Len(requests) > 0 => Registry!Shared

Offered(i, k) ==
  \E c \in 1 .. Len(calls) : calls[c].msg = i /\ calls[c].pos = k

(* Call c offers its message to the subscriber at its position.            *)
IsOffer(c) ==
  /\ calls[c].msg \in 1 .. taken
  /\ requests[calls[c].msg].kind = "publish"
  /\ calls[c].pos \in DOMAIN SubscribersOf(requests[calls[c].msg].target)
  /\ calls[c].endpoint = SubscribersOf(requests[calls[c].msg].target)[calls[c].pos]

OffersAreOffers == \A c \in 1 .. Len(calls) : calls[c].msg # 0 => IsOffer(c)

InTheirOrder ==
  \A c, d \in 1 .. Len(calls) :
    c < d /\ calls[c].msg # 0 /\ calls[d].msg # 0 =>
      \/ calls[c].msg < calls[d].msg
      \/ calls[c].msg = calls[d].msg /\ calls[c].pos < calls[d].pos

(* The invariant of the loop: the calls made for the message that is being *)
(* delivered are those to the first server.delivered subscribers.          *)
Loop ==
  server.pc = "deliver" =>
    /\ \A c \in 1 .. Len(calls) :
         calls[c].msg = taken => calls[c].pos <= server.delivered
    /\ \A k \in 1 .. server.delivered : Offered(taken, k)

Acked ==
  \A i \in 1 .. Len(requests) :
    requests[i].kind = "publish" /\ answers[i] = 202 =>
      \A k \in DOMAIN SubscribersOf(requests[i].target) : Offered(i, k)

Deliveries == Registered /\ OffersAreOffers /\ InTheirOrder /\ Loop /\ Acked

-----------------------------------------------------------------------------
(* What a step does to subscribers, offers and acknowledgements.           *)

SubscribersKept ==
  Len(requests) > 0 =>
    \A q \in Queues : SubscribersOf(q)' = SubscribersOf(q)

(* Only an incomplete registry takes listeners, only a complete one lets   *)
(* requests in.                                                            *)
LEMMA NextRegistered ==
  ASSUME Base, Handlers, Registered, [Next]_vars
  PROVE  Registered' /\ SubscribersKept
<1>1. Len(requests) \in Nat
  BY LenProperties DEF Base, TypeOK
<1>2. CASE Startup
  <2>1. ~Registry!Shared
    BY <1>2, EndpointsAssumption, LenProperties
       DEF Startup, Registry!RegisterListener, Registry!Shared, Base, Registry!TypeOK
  <2>2. Len(requests) = 0 /\ Len(requests') = 0
    BY <1>1, <1>2, <2>1 DEF Startup, netVars, Registered
  <2> QED BY <2>2 DEF Registered, SubscribersKept
<1>3. CASE Submit
  BY <1>3 DEF Submit, registryVars, Registered, SubscribersKept, SubscribersOf,
     Registry!Shared
<1>4. CASE TakePublish
  <2>1. Taking.target \in Queues
    <3>1. taken + 1 \in 1 .. Len(requests)
      BY <1>4 DEF Base, TypeOK, TakePublish, Takes
    <3> QED BY <1>4, <3>1, RequestTypes DEF Taking, TakePublish, Takes
  <2>2. \A p \in Queues : queues'[p].subscribers = queues[p].subscribers
    BY <1>4, <2>1, PrepareDeliveryType DEF TakePublish
  <2> QED BY <1>4, <2>2 DEF TakePublish, Registry!PrepareDelivery, Registry!Shared,
             Registered, SubscribersKept, SubscribersOf, netVars
<1>5. CASE ServerStep /\ ~TakePublish
  BY <1>5 DEF ServerStep, TakeLocal, TakeToggle, TakeProxy, ProxyReturns,
     ProxyBodyFails, ProxyBreaks, RejectPublish, DeliverNext, DeliveryReturns,
     FinishPublish, TakeRun, RunReturns, RunTimesOut, RunRecords, netVars,
     registryVars, Registered, SubscribersKept, SubscribersOf, Registry!Shared
<1>6. ASSUME NEW s \in Schedules, ThreadStep(s)
      PROVE  Registered' /\ SubscribersKept
  BY <1>6 DEF ThreadStep, ThreadWakes, ThreadCalls, ThreadReturns, ThreadTimesOut,
     netVars, registryVars, Registered, SubscribersKept, SubscribersOf,
     Registry!Shared
<1>7. ASSUME NEW c \in DOMAIN calls, ServiceStep(c)
      PROVE  Registered' /\ SubscribersKept
  BY <1>7 DEF ServiceStep, HandlerProgress, HandlerPublishes, HandlerResumes,
     HandlerReplies, PublishFails, HandlerFails, HandlerDropped, serviceFrame,
     netVars, registryVars, Registered, SubscribersKept, SubscribersOf,
     Registry!Shared
<1>8. CASE UNCHANGED vars
  BY <1>8 DEF vars, netVars, registryVars, Registered, SubscribersKept,
     SubscribersOf, Registry!Shared
<1> QED BY <1>2, <1>3, <1>4, <1>5, <1>6, <1>7, <1>8 DEF Next, Rest

(* No offer is made or changed.                                            *)
SameOffers ==
  /\ Len(calls') \in Nat /\ Len(calls') >= Len(calls)
  /\ \A c \in 1 .. Len(calls) :
       /\ calls'[c].msg = calls[c].msg
       /\ calls'[c].pos = calls[c].pos
       /\ calls'[c].endpoint = calls[c].endpoint
  /\ \A c \in 1 .. Len(calls') : c > Len(calls) => calls'[c].msg = 0

(* Only the loop makes offers, and the handlers do not change them.        *)
LEMMA OffersStep ==
  ASSUME Base, Handlers, [Next]_vars
  PROVE  DeliverNext \/ SameOffers
<1>1. Len(calls) \in Nat /\ DOMAIN calls = 1 .. Len(calls)
  BY LenProperties DEF Base, TypeOK
<1>2. ASSUME NEW e \in Endpoints, NEW r \in Nat,
             calls' = Append(calls, NewCall(e, r, 0, 0))
      PROVE  SameOffers
  <2>1. /\ Len(calls') = Len(calls) + 1
        /\ \A c \in 1 .. Len(calls) : calls'[c] = calls[c]
        /\ calls'[Len(calls) + 1] = NewCall(e, r, 0, 0)
    BY <1>2, NewCallType, CallsType
  <2>2. NewCall(e, r, 0, 0).msg = 0
    BY DEF NewCall
  <2> QED BY <1>1, <2>1, <2>2 DEF SameOffers
<1>3. CASE TakeProxy
  <2>1. taken + 1 \in 1 .. Len(requests)
    BY <1>3 DEF Base, TypeOK, TakeProxy, Takes
  <2>2. Taking.target \in Endpoints
    BY <1>3, <2>1, RequestTypes DEF Taking, TakeProxy, Takes
  <2>3. Router!Position(ServiceOf[Taking.target]) \in Nat
    BY <2>2, PositionType, EndpointsAssumption
  <2> QED BY <1>2, <1>3, <2>2, <2>3 DEF TakeProxy, ServerCalls
<1>4. CASE TakeRun
  <2>1. taken + 1 \in 1 .. Len(requests)
    BY <1>4 DEF Base, TypeOK, TakeRun, Takes
  <2>2. Taking.target \in Schedules
    BY <1>4, <2>1, RequestTypes DEF Taking, TakeRun, Takes
  <2> QED BY <1>2, <1>4, <2>2, EndpointsAssumption DEF TakeRun, ServerCalls
<1>5. CASE UNCHANGED calls
  BY <1>1, <1>5 DEF SameOffers
<1>6. CASE ServerStep /\ ~TakeProxy /\ ~TakeRun /\ ~DeliverNext
  BY <1>5, <1>6 DEF ServerStep, TakeLocal, TakeToggle, ProxyReturns, ProxyBodyFails,
     ProxyBreaks, TakePublish, RejectPublish, DeliveryReturns, FinishPublish,
     RunReturns, RunTimesOut, RunRecords, callVars
<1>7. ASSUME NEW s \in Schedules, ThreadStep(s)
      PROVE  SameOffers
  <2>1. CASE ThreadCalls(s)
    BY <1>2, <2>1, EndpointsAssumption DEF ThreadCalls
  <2>2. CASE ThreadWakes(s) \/ ThreadReturns(s) \/ ThreadTimesOut(s)
    <3>1. UNCHANGED calls
      BY <2>2 DEF ThreadWakes, ThreadReturns, ThreadTimesOut, callVars
    <3> QED BY <1>1, <3>1 DEF SameOffers
  <2> QED BY <1>7, <2>1, <2>2 DEF ThreadStep
<1>8. ASSUME NEW c \in DOMAIN calls, ServiceStep(c)
      PROVE  SameOffers
  <2>1. PICK new \in ServiceCall : Handler(c, new) /\ Moves(c, new)
    BY <1>8, HandlerStep
  <2>2. /\ Len(calls') = Len(calls)
        /\ \A d \in 1 .. Len(calls) : calls'[d] = IF d = c THEN new ELSE calls[d]
    BY <2>1, HandlerType
  <2> QED BY <1>1, <2>1, <2>2 DEF SameOffers, Moves
<1>9. CASE Startup \/ Submit \/ UNCHANGED vars
  BY <1>5, <1>9 DEF Startup, Submit, vars, callVars
<1> QED BY <1>3, <1>4, <1>6, <1>7, <1>8, <1>9 DEF Next, Rest

(* The loop begins with TakePublish and goes on with DeliverNext; whatever *)
(* else happens leaves its place alone or ends it.                         *)
SamePlace ==
  /\ taken' \in Nat /\ taken' >= taken
  /\ server'.pc = "deliver" =>
       /\ server.pc = "deliver" /\ taken' = taken
       /\ server'.delivered = server.delivered

(* No other step than these two moves the server thread into the loop.     *)
LEMMA PlaceStep ==
  ASSUME Base, Handlers, [Next]_vars
  PROVE  DeliverNext \/ TakePublish \/ SamePlace
<1>1. taken \in Nat /\ server \in ServerType
  BY DEF Base, TypeOK
<1>2. CASE UNCHANGED <<taken, server>>
  BY <1>1, <1>2 DEF SamePlace
<1>3. CASE TakeLocal \/ TakeToggle \/ RejectPublish
  BY <1>1, <1>3 DEF TakeLocal, TakeToggle, RejectPublish, Takes, Idle, SamePlace
<1>4. CASE TakeProxy \/ TakeRun
  BY <1>1, <1>4 DEF TakeProxy, TakeRun, Takes, ServerCalls, SamePlace
<1>5. CASE ProxyReturns \/ ProxyBodyFails \/ ProxyBreaks \/ FinishPublish \/ RunRecords
  BY <1>1, <1>5 DEF ProxyReturns, ProxyBodyFails, ProxyBreaks, FinishPublish,
     RunRecords, Idle, SamePlace
<1>6. CASE DeliveryReturns
  BY <1>1, <1>6 DEF DeliveryReturns, ServerType, SamePlace
<1>7. CASE RunReturns \/ RunTimesOut
  <2>1. server'.pc = "record" /\ taken' = taken
    BY <1>1, <1>7 DEF RunReturns, RunTimesOut, ServerType
  <2> QED BY <1>1, <2>1 DEF SamePlace
<1> QED BY <1>2, <1>3, <1>4, <1>5, <1>6, <1>7, NextServer DEF ServerStep

(* Only the end of the loop acknowledges a message.                        *)
SameAcks ==
  \A i \in 1 .. Len(requests') :
    requests'[i].kind = "publish" /\ answers'[i] = 202 =>
      /\ i \in 1 .. Len(requests) /\ answers[i] = 202

(* Every other answer goes to another kind of request, or is a rejection.  *)
LEMMA AcksStep ==
  ASSUME Base, Handlers, [Next]_vars
  PROVE  FinishPublish \/ SameAcks
<1>1. /\ taken \in Nat /\ Len(requests) \in Nat /\ taken <= Len(requests)
      /\ Len(answers) = Len(requests)
  BY LenProperties DEF Base, TypeOK
<1>2. CASE UNCHANGED <<requests, answers>>
  BY <1>2 DEF SameAcks
<1>3. ASSUME NEW r \in RequestType, Arrives(r)
      PROVE  SameAcks
  <2>1. /\ Len(requests') = Len(requests) + 1
        /\ \A i \in 1 .. Len(requests) : answers'[i] = answers[i]
        /\ answers'[Len(requests) + 1] = None
    BY <1>3, ArrivesType
  <2> QED BY <1>1, <2>1, StatusAssumption DEF SameAcks
<1>4. ASSUME NEW i \in 1 .. Len(requests), NEW status \in Nat, Answer(i, status),
             UNCHANGED requests,
             requests[i].kind # "publish" \/ status # 202
      PROVE  SameAcks
  <2>1. \A j \in 1 .. Len(answers) :
          answers'[j] = IF j = i THEN status ELSE answers[j]
    BY <1>4, AnswerType
  <2> QED BY <1>1, <1>4, <2>1 DEF SameAcks
<1>5. CASE TakeLocal \/ TakeToggle \/ RejectPublish
  <2>1. taken + 1 \in 1 .. Len(requests)
    BY <1>1, <1>5 DEF TakeLocal, TakeToggle, RejectPublish, Takes
  <2>2. UNCHANGED requests
    BY <1>5 DEF TakeLocal, TakeToggle, RejectPublish
  <2>3. CASE TakeLocal \/ TakeToggle
    <3>1. requests[taken + 1].kind # "publish" /\ Answer(taken + 1, 200)
      BY <2>3 DEF TakeLocal, TakeToggle, Takes
    <3> QED BY <1>4, <2>1, <2>2, <3>1
  <2>4. CASE RejectPublish
    <3>1. Answer(taken + 1, 500) /\ 500 \in Nat /\ 500 # 202
      BY <2>4 DEF RejectPublish
    <3> QED BY <1>4, <2>1, <2>2, <3>1
  <2> QED BY <1>5, <2>3, <2>4
<1>6. CASE ProxyReturns \/ ProxyBodyFails \/ ProxyBreaks
  <2>1. taken \in 1 .. Len(requests) /\ requests[taken].kind = "proxy"
    BY <1>1, <1>6 DEF Base, Shape, KindAt, ProxyReturns, ProxyBodyFails, ProxyBreaks
  <2>2. PICK status \in Nat : Answer(taken, status)
    BY <1>6, ProxyAnswers
  <2>3. UNCHANGED requests
    BY <1>6 DEF ProxyReturns, ProxyBodyFails, ProxyBreaks
  <2> QED BY <1>4, <2>1, <2>2, <2>3
<1>7. CASE RunRecords
  <2>1. taken \in 1 .. Len(requests) /\ requests[taken].kind = "run"
    BY <1>1, <1>7 DEF Base, Shape, KindAt, RunRecords
  <2>2. Answer(taken, 200) /\ UNCHANGED requests
    BY <1>7 DEF RunRecords
  <2> QED BY <1>4, <2>1, <2>2
<1>8. CASE TakeProxy \/ TakePublish \/ DeliverNext \/ DeliveryReturns \/ TakeRun
           \/ RunReturns \/ RunTimesOut
  BY <1>2, <1>8 DEF TakeProxy, TakePublish, DeliverNext, DeliveryReturns, TakeRun,
     RunReturns, RunTimesOut, netVars
<1> QED BY <1>2, <1>3, <1>5, <1>6, <1>7, <1>8, NextServer DEF ServerStep

-----------------------------------------------------------------------------
(* Deliveries is inductive.                                                *)

(* An offer stays one, and what was offered stays offered.                 *)
LEMMA OffersStay ==
  ASSUME Base, Handlers, Registered, [Next]_vars, OffersAreOffers,
         NEW c \in 1 .. Len(calls), calls[c].msg # 0,
         NEW d \in 1 .. Len(calls'),
         calls'[d].msg = calls[c].msg, calls'[d].pos = calls[c].pos,
         calls'[d].endpoint = calls[c].endpoint,
         taken' \in Nat, taken' >= taken
  PROVE  IsOffer(d)'
<1> DEFINE i == calls[c].msg
<1>1. taken \in 0 .. Len(requests) /\ Len(requests) \in Nat
  BY DEF Base, TypeOK
<1>2. IsOffer(c)
  BY DEF OffersAreOffers
<1>3. i \in 1 .. Len(requests) /\ requests'[i] = requests[i] /\ i \in 1 .. taken'
  BY <1>1, <1>2, RequestsKept DEF IsOffer
<1>4. requests[i].target \in Queues /\ requests[i].kind = "publish"
  BY <1>2, <1>3, RequestTypes DEF IsOffer
<1>5. queues'[requests[i].target].subscribers = queues[requests[i].target].subscribers
  BY <1>1, <1>3, <1>4, NextRegistered DEF SubscribersKept, SubscribersOf
<1> QED BY <1>2, <1>3, <1>4, <1>5 DEF IsOffer, SubscribersOf

(* One more offer: to the next subscriber, of the message being delivered. *)
LEMMA DeliverNextOffers ==
  ASSUME Base, DeliverNext
  PROVE  LET q == requests[taken].target
             k == server.delivered + 1
         IN  /\ taken \in 1 .. Len(requests) /\ q \in Queues
             /\ requests[taken].kind = "publish"
             /\ UNCHANGED <<requests, answers, taken, queues>>
             /\ server.pc = "deliver" /\ server'.pc = "deliver"
             /\ k \in DOMAIN SubscribersOf(q) /\ k \in Nat \ {0}
             /\ server'.delivered = k /\ server.delivered \in Nat
             /\ Len(calls') = Len(calls) + 1
             /\ \A c \in 1 .. Len(calls) : calls'[c] = calls[c]
             /\ calls'[Len(calls) + 1].msg = taken
             /\ calls'[Len(calls) + 1].pos = k
             /\ calls'[Len(calls) + 1].endpoint = SubscribersOf(q)[k]
<1> DEFINE q == requests[taken].target
           k == server.delivered + 1
           e == SubscribersOf(q)[k]
<1>1. taken \in 1 .. Len(requests) /\ server.delivered \in Nat
  BY DEF Base, Shape, TypeOK, DeliverNext, ServerType
<1>2. requests[taken].kind = "publish" /\ q \in Queues
  BY <1>1, RequestTypes DEF Base, Shape, DeliverNext, KindAt
<1>3. SubscribersOf(q) \in Seq(Endpoints)
  BY <1>2 DEF Base, Registry!TypeOK, Registry!QueueInfo, SubscribersOf
<1>4. k \in 1 .. Len(SubscribersOf(q)) /\ k \in DOMAIN SubscribersOf(q) /\ k \in Nat \ {0}
  BY <1>1, <1>3, LenProperties DEF DeliverNext, Current
<1>5. e \in Endpoints
  BY <1>3, <1>4, ElementOfSeq
<1>6. calls' = Append(calls, NewCall(e, 0, taken, k))
  BY DEF DeliverNext, ServerCalls, Current
<1>7. /\ Len(calls') = Len(calls) + 1
      /\ \A c \in 1 .. Len(calls) : calls'[c] = calls[c]
      /\ calls'[Len(calls) + 1] = NewCall(e, 0, taken, k)
  BY <1>1, <1>4, <1>5, <1>6, NewCallType, CallsType
<1>8. /\ NewCall(e, 0, taken, k).msg = taken
      /\ NewCall(e, 0, taken, k).pos = k
      /\ NewCall(e, 0, taken, k).endpoint = e
  BY DEF NewCall
<1>9. /\ UNCHANGED <<requests, answers, taken, queues>>
      /\ server.pc = "deliver" /\ server'.pc = "deliver" /\ server'.delivered = k
  BY DEF DeliverNext, ServerCalls, netVars, registryVars
<1> HIDE DEF q, k, e
<1>10. calls'[Len(calls) + 1].msg = taken /\ calls'[Len(calls) + 1].pos = k
       /\ calls'[Len(calls) + 1].endpoint = e
  BY <1>7, <1>8
<1> QED BY <1>1, <1>2, <1>4, <1>7, <1>9, <1>10 DEF q, k, e

(* Offers stay in order: a new one is of the newest message, to the next   *)
(* position.                                                               *)
LEMMA NextOffers ==
  ASSUME Base, Handlers, Deliveries, [Next]_vars
  PROVE  OffersAreOffers' /\ InTheirOrder'
<1>1. Len(calls) \in Nat /\ taken \in Nat
  BY LenProperties DEF Base, TypeOK
<1>2. ASSUME NEW c \in 1 .. Len(calls), calls[c].msg # 0
      PROVE  calls[c].msg \in 1 .. taken
  BY <1>2 DEF Deliveries, OffersAreOffers, IsOffer
<1>3. CASE DeliverNext
  <2> DEFINE k == server.delivered + 1
             n == Len(calls) + 1
  <2>1. OffersAreOffers'
    <3> SUFFICES ASSUME NEW d \in 1 .. Len(calls'), calls'[d].msg # 0
                 PROVE  IsOffer(d)'
      BY DEF OffersAreOffers
    <3>1. CASE d \in 1 .. Len(calls)
      <4>1. calls'[d] = calls[d] /\ taken' = taken
        BY <1>3, <3>1, DeliverNextOffers
      <4> QED BY <1>1, <3>1, <4>1, OffersStay DEF Deliveries
    <3>2. CASE d = n
      <4>1. /\ taken' = taken /\ requests' = requests /\ queues' = queues
            /\ taken \in 1 .. Len(requests)
            /\ requests[taken].kind = "publish"
            /\ k \in DOMAIN SubscribersOf(requests[taken].target)
            /\ calls'[d].msg = taken /\ calls'[d].pos = k
            /\ calls'[d].endpoint = SubscribersOf(requests[taken].target)[k]
        BY <1>3, <3>2, DeliverNextOffers
      <4> HIDE DEF k
      <4> QED BY <4>1 DEF IsOffer, SubscribersOf
    <3> QED BY <1>1, <1>3, <3>1, <3>2, DeliverNextOffers
  <2>2. InTheirOrder'
    <3> SUFFICES ASSUME NEW c \in 1 .. Len(calls'), NEW d \in 1 .. Len(calls'),
                        c < d, calls'[c].msg # 0, calls'[d].msg # 0
                 PROVE  \/ calls'[c].msg < calls'[d].msg
                        \/ /\ calls'[c].msg = calls'[d].msg
                           /\ calls'[c].pos < calls'[d].pos
      BY DEF InTheirOrder
    <3>1. /\ Len(calls') = n /\ calls'[n].msg = taken /\ calls'[n].pos = k
          /\ server.pc = "deliver" /\ server.delivered \in Nat
          /\ \A b \in 1 .. Len(calls) : calls'[b] = calls[b]
      BY <1>3, DeliverNextOffers
    <3>2. c \in 1 .. Len(calls) /\ calls'[c] = calls[c]
      BY <1>1, <3>1
    <3>3. CASE d \in 1 .. Len(calls)
      <4>1. calls'[d] = calls[d]
        BY <3>1, <3>3
      <4> QED BY <3>2, <3>3, <4>1 DEF Deliveries, InTheirOrder
    <3>4. CASE d = n
      <4>1. calls[c].msg = taken => calls[c].pos <= server.delivered
        BY <3>1, <3>2 DEF Deliveries, Loop
      <4>2. calls[c].msg \in 1 .. taken /\ calls[c].pos \in Nat
        <5>1. calls[c] \in ServiceCall
          BY <3>2, ElementOfSeq DEF Base, TypeOK
        <5> QED BY <1>2, <3>2, <5>1 DEF ServiceCall, CallType
      <4> QED BY <1>1, <3>1, <3>2, <3>4, <4>1, <4>2
    <3> QED BY <1>1, <3>1, <3>3, <3>4
  <2> QED BY <2>1, <2>2
<1>4. CASE SameOffers
  <2>1. ASSUME NEW d \in 1 .. Len(calls'), calls'[d].msg # 0
        PROVE  d \in 1 .. Len(calls)
    BY <1>1, <1>4, <2>1 DEF SameOffers
  <2>2. taken' \in Nat /\ taken' >= taken
    <3>1. CASE DeliverNext
      BY <1>1, <3>1, DeliverNextOffers
    <3>2. CASE TakePublish
      BY <1>1, <3>2 DEF TakePublish, Takes
    <3> QED BY <3>1, <3>2, PlaceStep DEF SamePlace
  <2>3. OffersAreOffers'
    <3> SUFFICES ASSUME NEW d \in 1 .. Len(calls'), calls'[d].msg # 0
                 PROVE  IsOffer(d)'
      BY DEF OffersAreOffers
    <3>1. d \in 1 .. Len(calls)
      BY <2>1
    <3>2. /\ calls'[d].msg = calls[d].msg /\ calls'[d].pos = calls[d].pos
          /\ calls'[d].endpoint = calls[d].endpoint
      BY <1>4, <3>1 DEF SameOffers
    <3> QED BY <2>2, <3>1, <3>2, OffersStay DEF Deliveries
  <2>4. InTheirOrder'
    <3> SUFFICES ASSUME NEW c \in 1 .. Len(calls'), NEW d \in 1 .. Len(calls'),
                        c < d, calls'[c].msg # 0, calls'[d].msg # 0
                 PROVE  \/ calls'[c].msg < calls'[d].msg
                        \/ /\ calls'[c].msg = calls'[d].msg
                           /\ calls'[c].pos < calls'[d].pos
      BY DEF InTheirOrder
    <3>1. c \in 1 .. Len(calls) /\ d \in 1 .. Len(calls)
      BY <2>1
    <3> QED BY <1>4, <3>1 DEF SameOffers, Deliveries, InTheirOrder
  <2> QED BY <2>3, <2>4
<1> QED BY <1>3, <1>4, OffersStep

(* What was offered stays offered.                                         *)
LEMMA OfferedStays ==
  ASSUME Base, Handlers, [Next]_vars, NEW i, NEW k, Offered(i, k)
  PROVE  Offered(i, k)'
<1>1. Len(calls) \in Nat
  BY LenProperties DEF Base, TypeOK
<1>2. PICK c \in 1 .. Len(calls) : calls[c].msg = i /\ calls[c].pos = k
  BY DEF Offered
<1>3. c \in 1 .. Len(calls') /\ calls'[c].msg = i /\ calls'[c].pos = k
  <2>1. CASE DeliverNext
    BY <1>1, <1>2, <2>1, DeliverNextOffers
  <2>2. CASE SameOffers
    BY <1>1, <1>2, <2>2 DEF SameOffers
  <2> QED BY <2>1, <2>2, OffersStep
<1> QED BY <1>3 DEF Offered

(* The invariant of the loop is kept by every step.                        *)
LEMMA NextLoop ==
  ASSUME Base, Handlers, Deliveries, [Next]_vars
  PROVE  Loop'
<1>1. Len(calls) \in Nat /\ taken \in Nat
  BY LenProperties DEF Base, TypeOK
<1>2. CASE DeliverNext
  <2> DEFINE k == server.delivered + 1
             n == Len(calls) + 1
  <2>1. /\ Len(calls') = n /\ calls'[n].msg = taken /\ calls'[n].pos = k
        /\ taken' = taken /\ server.pc = "deliver" /\ server.delivered \in Nat
        /\ server'.delivered = k
        /\ \A b \in 1 .. Len(calls) : calls'[b] = calls[b]
    BY <1>2, DeliverNextOffers
  <2>2. \A c \in 1 .. Len(calls') :
          calls'[c].msg = taken' => calls'[c].pos <= server'.delivered
    <3> SUFFICES ASSUME NEW c \in 1 .. Len(calls'), calls'[c].msg = taken
                 PROVE  calls'[c].pos <= k
      BY <2>1
    <3>1. CASE c = n
      BY <2>1, <3>1
    <3>2. CASE c \in 1 .. Len(calls)
      <4>1. calls[c] \in ServiceCall
        BY <3>2, ElementOfSeq DEF Base, TypeOK
      <4>2. calls[c].pos <= server.delivered /\ calls[c].pos \in Nat
        BY <2>1, <3>2, <4>1 DEF Deliveries, Loop, ServiceCall, CallType
      <4> QED BY <2>1, <3>2, <4>2
    <3> QED BY <1>1, <2>1, <3>1, <3>2
  <2>3. ASSUME NEW j \in 1 .. k
        PROVE  \E c \in 1 .. Len(calls') :
                 calls'[c].msg = taken /\ calls'[c].pos = j
    <3>1. CASE j = k
      <4>1. n \in 1 .. Len(calls')
        BY <1>1, <2>1
      <4> QED BY <2>1, <3>1, <4>1
    <3>2. CASE j \in 1 .. server.delivered
      <4>1. Offered(taken, j)
        BY <2>1, <3>2 DEF Deliveries, Loop
      <4>2. PICK c \in 1 .. Len(calls) : calls[c].msg = taken /\ calls[c].pos = j
        BY <4>1 DEF Offered
      <4>3. c \in 1 .. Len(calls') /\ calls'[c] = calls[c]
        BY <1>1, <2>1
      <4> QED BY <2>1, <4>2, <4>3
    <3> QED BY <2>1, <2>3, <3>1, <3>2
  <2> QED BY <2>1, <2>2, <2>3 DEF Loop, Offered
<1>3. CASE TakePublish
  <2>1. /\ taken' = taken + 1 /\ server'.delivered = 0 /\ UNCHANGED calls
    BY <1>3 DEF TakePublish, Takes, callVars
  <2>2. \A c \in 1 .. Len(calls) : calls[c].msg # taken + 1
    BY <1>1 DEF Deliveries, OffersAreOffers, IsOffer
  <2> QED BY <2>1, <2>2 DEF Loop
<1>4. CASE SamePlace /\ ~DeliverNext
  <2> SUFFICES ASSUME server'.pc = "deliver"
               PROVE  /\ \A c \in 1 .. Len(calls') :
                           calls'[c].msg = taken' => calls'[c].pos <= server'.delivered
                      /\ \A k \in 1 .. server'.delivered :
                           \E c \in 1 .. Len(calls') :
                             calls'[c].msg = taken' /\ calls'[c].pos = k
    BY DEF Loop, Offered
  <2>1. server.pc = "deliver" /\ taken' = taken /\ server'.delivered = server.delivered
    BY <1>4 DEF SamePlace
  <2>2. SameOffers /\ taken # 0
    BY <1>4, OffersStep, <2>1 DEF Base, Shape
  <2>3. \A c \in 1 .. Len(calls') :
          calls'[c].msg = taken' => calls'[c].pos <= server'.delivered
    BY <1>1, <2>1, <2>2 DEF SameOffers, Deliveries, Loop
  <2>4. ASSUME NEW k \in 1 .. server.delivered
        PROVE  \E c \in 1 .. Len(calls') :
                 calls'[c].msg = taken /\ calls'[c].pos = k
    <3>1. PICK c \in 1 .. Len(calls) : calls[c].msg = taken /\ calls[c].pos = k
      BY <2>1, <2>4 DEF Deliveries, Loop, Offered
    <3>2. c \in 1 .. Len(calls') /\ calls'[c].msg = taken /\ calls'[c].pos = k
      BY <1>1, <2>2, <3>1 DEF SameOffers
    <3> QED BY <3>2
  <2> QED BY <2>1, <2>3, <2>4
<1> QED BY <1>2, <1>3, <1>4, PlaceStep

(* When the loop ends, the message was offered at every position.          *)
LEMMA NextAcked ==
  ASSUME Base, Handlers, Deliveries, [Next]_vars
  PROVE  Acked'
<1> SUFFICES ASSUME NEW i \in 1 .. Len(requests'),
                    requests'[i].kind = "publish", answers'[i] = 202,
                    NEW k \in DOMAIN queues'[requests'[i].target].subscribers
             PROVE  Offered(i, k)'
  BY DEF Acked, SubscribersOf
<1>1. /\ taken \in 0 .. Len(requests) /\ Len(requests) \in Nat
      /\ Len(answers) = Len(requests)
  BY LenProperties DEF Base, TypeOK
<1>2. ASSUME i \in 1 .. Len(requests)
      PROVE  /\ requests[i] = requests'[i] /\ requests[i].kind = "publish"
             /\ k \in DOMAIN SubscribersOf(requests[i].target)
  <2>1. requests'[i] = requests[i]
    BY <1>2, RequestsKept
  <2>2. requests[i].target \in Queues
    BY <1>2, <2>1, RequestTypes
  <2>3. queues'[requests[i].target].subscribers = queues[requests[i].target].subscribers
    BY <1>1, <1>2, <2>2, NextRegistered DEF Deliveries, SubscribersKept, SubscribersOf
  <2> QED BY <2>1, <2>3 DEF SubscribersOf
<1>3. CASE SameAcks
  <2>1. i \in 1 .. Len(requests) /\ answers[i] = 202
    BY <1>3 DEF SameAcks
  <2>2. Offered(i, k)
    BY <1>2, <2>1 DEF Deliveries, Acked
  <2> QED BY <2>2, OfferedStays
<1>4. CASE FinishPublish
  <2>1. /\ Answer(taken, 202) /\ UNCHANGED <<requests, calls>>
        /\ server.pc = "deliver" /\ taken \in 1 .. Len(requests)
        /\ server.delivered = Len(SubscribersOf(requests[taken].target))
    BY <1>1, <1>4 DEF FinishPublish, Current, callVars, Base, Shape
  <2>2. i \in 1 .. Len(requests)
    BY <2>1
  <2>3. CASE i = taken
    <3>1. SubscribersOf(requests[taken].target) \in Seq(Endpoints)
      <4>1. requests[taken].target \in Queues
        BY <1>2, <2>1, <2>2, <2>3, RequestTypes
      <4> QED BY <4>1 DEF Base, Registry!TypeOK, Registry!QueueInfo, SubscribersOf
    <3>2. k \in 1 .. server.delivered
      BY <1>2, <2>1, <2>2, <2>3, <3>1, LenProperties
    <3>3. Offered(i, k)
      BY <2>1, <2>3, <3>2 DEF Deliveries, Loop
    <3> QED BY <3>3, OfferedStays
  <2>4. CASE i # taken
    <3>1. answers[i] = 202
      <4>1. \A j \in 1 .. Len(answers) :
              answers'[j] = IF j = taken THEN 202 ELSE answers[j]
        BY <2>1, AnswerType
      <4> QED BY <1>1, <2>2, <2>4, <4>1
    <3>2. Offered(i, k)
      BY <1>2, <2>2, <3>1 DEF Deliveries, Acked
    <3> QED BY <3>2, OfferedStays
  <2> QED BY <2>3, <2>4
<1> QED BY <1>3, <1>4, AcksStep

(* Deliveries holds at the start, and every step keeps it.                 *)
LEMMA DeliveriesHold == Spec => [](Base /\ Deliveries)
<1> DEFINE IInv == Base /\ Handlers /\ Deliveries
<1>1. Init => IInv
  <2> SUFFICES ASSUME Init PROVE IInv
    OBVIOUS
  <2>1. Base /\ Handlers
    BY InitBase, EmptySeq DEF Init, Handlers
  <2>2. Len(requests) = 0 /\ Len(calls) = 0 /\ server.pc = "idle"
    BY EmptySeq DEF Init, Idle
  <2>3. Deliveries
    BY <2>2 DEF Deliveries, Registered, OffersAreOffers, InTheirOrder, Loop, Acked
  <2> QED BY <2>1, <2>3
<1>2. IInv /\ [Next]_vars => IInv'
  BY NextBase, NextHandlers, NextRegistered, NextOffers, NextLoop, NextAcked
     DEF Deliveries
<1> QED BY <1>1, <1>2, PTL DEF Spec

(* A message is offered to the subscribers of its queue in their order and *)
(* never twice, and all offers of one message come before those of the     *)
(* next: no two subscribers see two messages in different orders.          *)
THEOREM OffersInOrder == Spec => []DeliveryOrder
<1>1. Base /\ Deliveries => DeliveryOrder
  <2> SUFFICES ASSUME Base, Deliveries PROVE DeliveryOrder
    OBVIOUS
  <2>1. DOMAIN calls = 1 .. Len(calls)
    BY LenProperties DEF Base, TypeOK
  <2> QED BY <2>1 DEF Deliveries, OffersAreOffers, IsOffer, InTheirOrder, DeliveryOrder
<1> QED BY <1>1, DeliveriesHold, PTL

(* A publisher that was answered 202 had its message offered to every      *)
(* subscriber of the queue, whichever of the deliveries failed.            *)
THEOREM AcksAreOffered == Spec => []AckMeansOffered
<1>1. Base /\ Deliveries => AckMeansOffered
  <2> SUFFICES ASSUME Base, Deliveries PROVE AckMeansOffered
    OBVIOUS
  <2>1. DOMAIN calls = 1 .. Len(calls) /\ DOMAIN requests = 1 .. Len(requests)
    BY LenProperties DEF Base, TypeOK
  <2> SUFFICES ASSUME NEW i \in DOMAIN requests,
                      requests[i].kind = "publish", answers[i] = 202,
                      NEW k \in DOMAIN SubscribersOf(requests[i].target)
               PROVE  \E c \in DOMAIN calls : calls[c].msg = i /\ calls[c].pos = k
    BY DEF AckMeansOffered
  <2>2. Offered(i, k)
    BY <2>1 DEF Deliveries, Acked
  <2> QED BY <2>1, <2>2 DEF Offered
<1> QED BY <1>1, DeliveriesHold, PTL

-----------------------------------------------------------------------------
(* The counter of the registry against the requests.                       *)

AcceptedFor(q) == {i \in 1 .. taken : Accepted(i) /\ requests[i].target = q}

(* The accepted requests of a queue can be counted.                        *)
LEMMA AcceptedFinite ==
  ASSUME Base, NEW q
  PROVE  IsFiniteSet(AcceptedFor(q)) /\ AcceptedBy(q) \in Nat
<1>1. taken \in Nat
  BY DEF Base, TypeOK
<1>2. IsFiniteSet(1 .. taken)
  BY <1>1, FS_Interval
<1>3. IsFiniteSet(AcceptedFor(q))
  BY <1>2, FS_Subset DEF AcceptedFor
<1> QED BY <1>3, FS_CardinalityType DEF AcceptedFor, AcceptedBy

(* Only TakePublish accepts a message, and only it counts one.             *)
LEMMA AcceptedStep ==
  ASSUME Base, Handlers, InOrder, [Next]_vars, NEW q \in Queues
  PROVE  \/ TakePublish
         \/ AcceptedFor(q)' = AcceptedFor(q)
<1>1. /\ taken \in 0 .. Len(requests) /\ Len(requests) \in Nat
      /\ Len(answers) = Len(requests)
      /\ DOMAIN requests = 1 .. Len(requests)
  BY LenProperties DEF Base, TypeOK
<1>2. CASE UNCHANGED <<requests, answers, taken>>
  BY <1>2 DEF AcceptedFor, Accepted
<1>3. ASSUME UNCHANGED taken, NEW r \in RequestType, Arrives(r)
      PROVE  AcceptedFor(q)' = AcceptedFor(q)
  <2>1. \A i \in 1 .. taken : requests'[i] = requests[i] /\ answers'[i] = answers[i]
    BY <1>1, <1>3, ArrivesType
  <2> QED BY <1>3, <2>1 DEF AcceptedFor, Accepted
<1>4. ASSUME taken' = taken + 1, UNCHANGED requests,
             \A i \in 1 .. taken : answers'[i] = answers[i],
             requests[taken + 1].kind # "publish" \/ answers'[taken + 1] = 500
      PROVE  AcceptedFor(q)' = AcceptedFor(q)
  <2>1. \A i \in 1 .. taken : Accepted(i)' <=> Accepted(i)
    BY <1>1, <1>4 DEF Accepted
  <2>2. \A j \in {taken + 1} : ~Accepted(j)'
    BY <1>1, <1>4 DEF Accepted
  <2> QED BY <1>1, <1>4, <2>1, <2>2 DEF AcceptedFor
<1>5. CASE TakeLocal \/ TakeToggle \/ RejectPublish
  <2>1. /\ taken' = taken + 1 /\ taken + 1 \in 1 .. Len(requests)
        /\ UNCHANGED requests
    BY <1>1, <1>5 DEF TakeLocal, TakeToggle, RejectPublish, Takes
  <2>2. CASE TakeLocal \/ TakeToggle
    <3>1. requests[taken + 1].kind # "publish" /\ Answer(taken + 1, 200)
      BY <2>2 DEF TakeLocal, TakeToggle, Takes
    <3>2. \A i \in 1 .. taken : answers'[i] = answers[i]
      BY <1>1, <2>1, <3>1, AnswerType
    <3> QED BY <1>4, <2>1, <3>1, <3>2
  <2>3. CASE RejectPublish
    <3>1. Answer(taken + 1, 500)
      BY <2>3 DEF RejectPublish
    <3>2. /\ \A i \in 1 .. taken : answers'[i] = answers[i]
          /\ answers'[taken + 1] = 500
      BY <1>1, <2>1, <3>1, AnswerType
    <3> QED BY <1>4, <2>1, <3>2
  <2> QED BY <1>5, <2>2, <2>3
<1>6. CASE TakeProxy \/ TakeRun
  BY <1>1, <1>4, <1>6 DEF TakeProxy, TakeRun, Takes, netVars
<1>7. CASE DeliverNext \/ DeliveryReturns \/ RunReturns \/ RunTimesOut
  BY <1>2, <1>7 DEF DeliverNext, DeliveryReturns, RunReturns, RunTimesOut, netVars
<1>8. ASSUME UNCHANGED <<requests, taken>>, taken \in 1 .. Len(requests),
             NEW status \in Nat, Answer(taken, status), server # Idle,
             requests[taken].kind # "publish" \/ status # 500
      PROVE  AcceptedFor(q)' = AcceptedFor(q)
  <2>1. /\ \A i \in 1 .. taken : i # taken => answers'[i] = answers[i]
        /\ answers'[taken] = status
    BY <1>1, <1>8, AnswerType
  <2>2. answers[taken] = None /\ None # 500
    BY <1>1, <1>8, StatusAssumption DEF InOrder
  <2>3. \A i \in 1 .. taken : Accepted(i)' <=> Accepted(i)
    BY <1>8, <2>1, <2>2 DEF Accepted
  <2> QED BY <1>8, <2>3 DEF AcceptedFor
<1>9. CASE ProxyReturns \/ ProxyBodyFails \/ ProxyBreaks
  <2>1. taken \in 1 .. Len(requests) /\ requests[taken].kind = "proxy" /\ server # Idle
    BY <1>1, <1>9 DEF Base, Shape, KindAt, Idle, ProxyReturns, ProxyBodyFails, ProxyBreaks
  <2>2. PICK status \in Nat : Answer(taken, status)
    BY <1>9, ProxyAnswers
  <2>3. UNCHANGED <<requests, taken>>
    BY <1>9 DEF ProxyReturns, ProxyBodyFails, ProxyBreaks
  <2> QED BY <1>8, <2>1, <2>2, <2>3
<1>10. CASE RunRecords
  <2>1. taken \in 1 .. Len(requests) /\ requests[taken].kind = "run" /\ server # Idle
    BY <1>1, <1>10 DEF Base, Shape, KindAt, Idle, RunRecords
  <2>2. Answer(taken, 200) /\ UNCHANGED <<requests, taken>>
    BY <1>10 DEF RunRecords
  <2> QED BY <1>8, <2>1, <2>2
<1>11. CASE FinishPublish
  <2>1. taken \in 1 .. Len(requests) /\ server # Idle
    BY <1>1, <1>11 DEF Base, Shape, Idle, FinishPublish
  <2>2. Answer(taken, 202) /\ UNCHANGED <<requests, taken>>
    BY <1>11 DEF FinishPublish
  <2> QED BY <1>8, <2>1, <2>2
<1>12. ServerStep => TakePublish \/ AcceptedFor(q)' = AcceptedFor(q)
  BY <1>5, <1>6, <1>7, <1>9, <1>10, <1>11 DEF ServerStep
<1> QED BY <1>2, <1>3, <1>12, NextServer

(* Every other step leaves the counters alone.                             *)
LEMMA CountsStep ==
  ASSUME Base, Handlers, [Next]_vars, NEW q \in Queues
  PROVE  TakePublish \/ queues'[q].message_count = queues[q].message_count
<1>1. CASE Startup
  <2> DEFINE n == registered + 1
             p == Listeners[n].queue
             e == Listeners[n].subscriber
  <2>1. queues' = [queues EXCEPT ![p] = Registry!Subscribed(queues[p], e)]
    BY <1>1 DEF Startup, Registry!RegisterListener
  <2>2. queues \in [Queues -> Registry!QueueInfo]
    BY DEF Base, Registry!TypeOK
  <2> HIDE DEF p, e
  <2>3. queues[q] \in Registry!QueueInfo
    BY <2>2
  <2>4. Registry!Subscribed(queues[q], e).message_count = queues[q].message_count
    BY <2>3 DEF Registry!Subscribed, Registry!QueueInfo
  <2> QED BY <2>1, <2>2, <2>4
<1>2. CASE UNCHANGED queues
  BY <1>2
<1>3. ~Startup /\ ~TakePublish => UNCHANGED queues
  <2>1. CASE Submit \/ UNCHANGED vars
    BY <2>1 DEF Submit, vars, registryVars
  <2>2. CASE ServerStep
    BY <2>2 DEF ServerStep, TakeLocal, TakeToggle, TakeProxy, ProxyReturns,
       ProxyBodyFails, ProxyBreaks, RejectPublish, DeliverNext, DeliveryReturns,
       FinishPublish, TakeRun, RunReturns, RunTimesOut, RunRecords, registryVars
  <2>3. ASSUME NEW s \in Schedules, ThreadStep(s)
        PROVE  UNCHANGED queues
    BY <2>3 DEF ThreadStep, ThreadWakes, ThreadCalls, ThreadReturns, ThreadTimesOut,
       registryVars
  <2>4. ASSUME NEW c \in DOMAIN calls, ServiceStep(c)
        PROVE  UNCHANGED queues
    BY <2>4 DEF ServiceStep, HandlerProgress, HandlerPublishes, HandlerResumes,
       HandlerReplies, PublishFails, HandlerFails, HandlerDropped, serviceFrame,
       registryVars
  <2> QED BY <2>1, <2>2, <2>3, <2>4 DEF Next, Rest
<1> QED BY <1>1, <1>2, <1>3

(* A message that is accepted is one more of its queue, and counted once.  *)
LEMMA NextCounted ==
  ASSUME Base, Handlers, InOrder, CountIsAccepted, [Next]_vars
  PROVE  CountIsAccepted'
<1> SUFFICES ASSUME NEW q \in Queues
             PROVE  queues'[q].message_count =
                      IF AcceptedBy(q)' < MaxCount THEN AcceptedBy(q)' ELSE MaxCount
  BY DEF CountIsAccepted
<1>1. /\ taken \in 0 .. Len(requests) /\ Len(requests) \in Nat
      /\ DOMAIN requests = 1 .. Len(requests) /\ MaxCount \in Nat \ {0}
  BY LenProperties, EndpointsAssumption DEF Base, TypeOK
<1>2. queues[q].message_count =
        IF AcceptedBy(q) < MaxCount THEN AcceptedBy(q) ELSE MaxCount
  BY DEF CountIsAccepted
<1>3. AcceptedBy(q) = Cardinality(AcceptedFor(q)) /\ AcceptedBy(q) \in Nat
  BY AcceptedFinite DEF AcceptedBy, AcceptedFor
<1>4. AcceptedBy(q)' = Cardinality(AcceptedFor(q)')
  BY DEF AcceptedBy, AcceptedFor
<1>5. CASE TakePublish
  <2> DEFINE i == taken + 1
  <2>1. /\ i \in 1 .. Len(requests) /\ taken' = i /\ server = Idle
        /\ UNCHANGED <<requests, answers>>
        /\ requests[i].kind = "publish"
        /\ Registry!PrepareDelivery(requests[i].target)
    BY <1>1, <1>5 DEF TakePublish, Takes, Taking, netVars
  <2>2. requests[i].target \in Queues
    BY <2>1, RequestTypes
  <2>3. \A j \in 1 .. taken : Accepted(j)' <=> Accepted(j)
    BY <1>1, <2>1 DEF Accepted
  <2>4. \A j \in {taken + 1} : Accepted(j)'
    <3>1. answers[i] = None /\ None # 500
      BY <1>1, <2>1, StatusAssumption DEF InOrder
    <3> QED BY <1>1, <2>1, <3>1 DEF Accepted
  <2>5. queues \in [Queues -> Registry!QueueInfo]
    BY DEF Base, Registry!TypeOK
  <2>6. CASE requests[i].target = q
    <3>1. AcceptedFor(q)' = AcceptedFor(q) \cup {i}
      BY <1>1, <2>1, <2>3, <2>4, <2>6 DEF AcceptedFor
    <3>2. i \notin AcceptedFor(q)
      BY <1>1 DEF AcceptedFor
    <3>3. AcceptedBy(q)' = AcceptedBy(q) + 1
      BY <1>3, <1>4, <3>1, <3>2, AcceptedFinite, FS_AddElement
    <3>4. queues'[q].message_count = Registry!SaturatingAdd(queues[q].message_count)
      BY <2>1, <2>5, <2>6 DEF Registry!PrepareDelivery, Registry!Counted
    <3> QED BY <1>1, <1>2, <1>3, <3>3, <3>4 DEF Registry!SaturatingAdd
  <2>7. CASE requests[i].target # q
    <3>1. AcceptedFor(q)' = AcceptedFor(q)
      BY <1>1, <2>1, <2>3, <2>7 DEF AcceptedFor
    <3>2. queues'[q] = queues[q]
      BY <2>1, <2>2, <2>5, <2>7 DEF Registry!PrepareDelivery
    <3> QED BY <1>2, <1>3, <1>4, <3>1, <3>2
  <2> QED BY <2>6, <2>7
<1>6. CASE ~TakePublish
  BY <1>2, <1>3, <1>4, <1>6, AcceptedStep, CountsStep
<1> QED BY <1>5, <1>6

(* The count that the dashboard shows for a queue is the number of messages*)
(* that were accepted for it, up to the limit of the counter.              *)
THEOREM CountsAreAccepted == Spec => []CountIsAccepted
<1> DEFINE IInv == Base /\ Handlers /\ InOrder /\ CountIsAccepted
<1>1. Init => IInv
  <2> SUFFICES ASSUME Init PROVE IInv
    OBVIOUS
  <2>1. Base /\ Handlers /\ InOrder
    BY InitBase, EmptySeq DEF Init, Handlers, InOrder
  <2>2. taken = 0 /\ MaxCount \in Nat \ {0}
    BY EndpointsAssumption DEF Init
  <2>3. \A q : AcceptedBy(q) = 0
    <3> SUFFICES ASSUME NEW q PROVE AcceptedBy(q) = 0
      OBVIOUS
    <3>1. {i \in 1 .. taken : Accepted(i) /\ requests[i].target = q} = {}
      BY <2>2
    <3> QED BY <3>1, FS_EmptySet DEF AcceptedBy
  <2>4. \A q \in Queues : queues[q].message_count = 0
    BY DEF Init, Registry!Init, Registry!NewQueue
  <2> QED BY <2>1, <2>2, <2>3, <2>4 DEF CountIsAccepted
<1>2. IInv /\ [Next]_vars => IInv'
  BY NextBase, NextHandlers, NextInOrder, NextCounted
<1> QED BY <1>1, <1>2, PTL DEF Spec

-----------------------------------------------------------------------------
(* The registry of the runner is the registry of QueueRegistry.tla.        *)

Reg == INSTANCE QueueRegistryProofs WITH Subscribers <- Endpoints

(* What the registry assumes of its constants holds for the runner's.      *)
LEMMA RegistryConstants == Reg!ListenersAssumption /\ Reg!MaxCountAssumption
BY EndpointsAssumption
   DEF Reg!ListenersAssumption, Reg!MaxCountAssumption, Reg!Listener

(* Startup registers, TakePublish counts, and no other step touches it.    *)
LEMMA NextRegistry ==
  ASSUME Base, Handlers, [Next]_vars
  PROVE  [Reg!Next]_(Reg!registryVars)
<1>1. CASE UNCHANGED registryVars
  BY <1>1 DEF registryVars, Reg!registryVars
<1>2. CASE Startup
  BY <1>2 DEF Startup, Registry!RegisterListener, Registry!Subscribed, Registry!Holds,
     Reg!Next, Reg!RegisterListener, Reg!Subscribed, Reg!Holds
<1>3. CASE TakePublish
  <2>1. taken + 1 \in 1 .. Len(requests)
    BY <1>3 DEF Base, TypeOK, TakePublish, Takes
  <2>2. Taking.target \in Queues
    BY <1>3, <2>1, RequestTypes DEF Taking, TakePublish, Takes
  <2>3. Registry!PrepareDelivery(Taking.target)
    BY <1>3 DEF TakePublish
  <2> QED BY <2>2, <2>3 DEF Registry!PrepareDelivery, Registry!Shared,
     Registry!Counted, Registry!SaturatingAdd, Reg!Next, Reg!PrepareDelivery,
     Reg!Shared, Reg!Counted, Reg!SaturatingAdd
<1>4. ~Startup /\ ~TakePublish => UNCHANGED registryVars
  <2>1. CASE Submit \/ UNCHANGED vars
    BY <2>1 DEF Submit, vars
  <2>2. CASE ServerStep
    BY <2>2 DEF ServerStep, TakeLocal, TakeToggle, TakeProxy, ProxyReturns,
       ProxyBodyFails, ProxyBreaks, RejectPublish, DeliverNext, DeliveryReturns,
       FinishPublish, TakeRun, RunReturns, RunTimesOut, RunRecords
  <2>3. ASSUME NEW s \in Schedules, ThreadStep(s)
        PROVE  UNCHANGED registryVars
    BY <2>3 DEF ThreadStep, ThreadWakes, ThreadCalls, ThreadReturns, ThreadTimesOut
  <2>4. ASSUME NEW c \in DOMAIN calls, ServiceStep(c)
        PROVE  UNCHANGED registryVars
    BY <2>4 DEF ServiceStep, HandlerProgress, HandlerPublishes, HandlerResumes,
       HandlerReplies, PublishFails, HandlerFails, HandlerDropped, serviceFrame
  <2> QED BY <2>1, <2>2, <2>3, <2>4 DEF Next, Rest
<1> QED BY <1>1, <1>2, <1>3, <1>4

(* Composed with the server thread, the registry implements its own        *)
(* specification, so that what is proved of it holds in the runner.        *)
THEOREM RegistryRefined == Spec => Reg!Spec
<1> DEFINE IInv == Base /\ Handlers
<1>1. Init => IInv /\ Reg!Init
  BY InitBase, EmptySeq DEF Init, Handlers, Registry!Init, Registry!NewQueue,
     Reg!Init, Reg!NewQueue
<1>2. IInv /\ [Next]_vars => IInv'
  BY NextBase, NextHandlers
<1>3. IInv /\ [Next]_vars => [Reg!Next]_(Reg!registryVars)
  BY NextRegistry
<1> QED BY <1>1, <1>2, <1>3, PTL DEF Spec, Reg!Spec

(* Once the registry is complete, a queue has as many subscribers as the   *)
(* configurations declare distinct listeners for it.                       *)
LEMMA FanoutIsSubscribers ==
  ASSUME Base, Reg!EachListenerOnce, Registry!Shared, NEW q \in Queues
  PROVE  Fanout[q] = Len(SubscribersOf(q))
<1> DEFINE subs == SubscribersOf(q)
           declared == Registry!Declared(q, Len(Listeners))
<1>1. subs \in Seq(Endpoints) /\ DOMAIN subs = 1 .. Len(subs) /\ Len(subs) \in Nat
  BY LenProperties DEF Base, Registry!TypeOK, Registry!QueueInfo, SubscribersOf
<1>2. declared = {subs[i] : i \in 1 .. Len(subs)}
  <2>1. Reg!Elements(queues[q].subscribers) = Reg!Declared(q, registered)
    BY DEF Reg!EachListenerOnce
  <2> QED BY <1>1, <2>1 DEF Reg!Elements, Reg!Declared, Registry!Declared,
             Registry!Shared, SubscribersOf
<1>3. \A i, j \in 1 .. Len(subs) : subs[i] = subs[j] => i = j
  BY <1>1 DEF Reg!EachListenerOnce, Reg!NoneTwice, SubscribersOf
<1> HIDE DEF subs, declared
<1>4. subs \in Bijection(1 .. Len(subs), declared)
  <2>1. subs \in [1 .. Len(subs) -> declared]
    BY <1>1, <1>2
  <2> QED BY <1>2, <1>3, <2>1 DEF Bijection, Injection, Surjection, IsInjective
<1>5. ExistsBijection(1 .. Len(subs), declared)
  BY <1>4 DEF ExistsBijection
<1>6. Cardinality(declared) = Len(subs)
  BY <1>1, <1>5, FS_CountingElements
<1> QED BY <1>6 DEF Fanout, subs, declared

-----------------------------------------------------------------------------
(* The k-th of a set of numbers.                                           *)

Ranked(S) == \A k \in 1 .. Cardinality(S) : Place(S, k) # {}

(* The greatest of a finite set of numbers is the last.                    *)
LEMMA LastPlace ==
  ASSUME NEW S, IsFiniteSet(S), S \subseteq Nat,
         NEW n \in S, \A i \in S : i <= n
  PROVE  Place(S, Cardinality(S)) = {n} /\ Cardinality(S) \in Nat \ {0}
<1>1. Cardinality(S) \in Nat \ {0}
  BY FS_CardinalityType, FS_EmptySet
<1>2. {j \in S : j <= n} = S
  OBVIOUS
<1>3. ASSUME NEW i \in S, i # n
      PROVE  Cardinality({j \in S : j <= i}) # Cardinality(S)
  <2>1. {j \in S : j <= i} \in SUBSET S /\ n \notin {j \in S : j <= i}
    BY <1>3
  <2> QED BY <2>1, FS_Subset
<1> QED BY <1>1, <1>2, <1>3 DEF Place

(* A number greater than all others comes last, and the others stay where  *)
(* they are.                                                               *)
LEMMA PlacesGrow ==
  ASSUME NEW S, IsFiniteSet(S), S \subseteq Nat, Ranked(S),
         NEW n \in Nat, \A i \in S : i < n
  PROVE  LET T == S \cup {n} IN
         /\ Ranked(T)
         /\ Cardinality(T) = Cardinality(S) + 1
         /\ Place(T, Cardinality(T)) = {n}
         /\ \A k \in 1 .. Cardinality(S) : Place(T, k) = Place(S, k)
<1> DEFINE T == S \cup {n}
<1>1. Cardinality(S) \in Nat
  BY FS_CardinalityType
<1>2. n \notin S
  OBVIOUS
<1>3. IsFiniteSet(T) /\ Cardinality(T) = Cardinality(S) + 1
  BY <1>2, FS_AddElement
<1>4. Place(T, Cardinality(T)) = {n}
  <2>1. n \in T /\ T \subseteq Nat /\ \A i \in T : i <= n
    OBVIOUS
  <2> HIDE DEF T
  <2> QED BY <1>3, <2>1, LastPlace
<1>5. ASSUME NEW k \in 1 .. Cardinality(S)
      PROVE  Place(T, k) = Place(S, k)
  <2>1. \A i \in S : {j \in T : j <= i} = {j \in S : j <= i}
    OBVIOUS
  <2>2. \A j \in T : j <= n
    OBVIOUS
  <2>3. {j \in T : j <= n} = T
    BY <2>2
  <2>4. Cardinality({j \in T : j <= n}) # k
    BY <1>1, <1>3, <2>3
  <2>5. \A i : i \in Place(T, k) <=> i \in Place(S, k)
    BY <2>1, <2>4 DEF Place
  <2> QED BY <2>5
<1>6. Ranked(T)
  <2> SUFFICES ASSUME NEW k \in 1 .. Cardinality(T)
               PROVE  Place(T, k) # {}
    BY DEF Ranked
  <2>1. k \in 1 .. Cardinality(S) \/ k = Cardinality(T)
    BY <1>1, <1>3
  <2> QED BY <1>4, <1>5, <2>1 DEF Ranked
<1> QED BY <1>3, <1>4, <1>5, <1>6

-----------------------------------------------------------------------------
(* The queue endpoint implements the abstract broker.                      *)

(* Accepted messages are publications the server thread has taken up.      *)
LEMMA AcceptedType ==
  ASSUME Base
  PROVE  /\ IsFiniteSet(AcceptedIds) /\ Cardinality(AcceptedIds) \in Nat
         /\ AcceptedIds \subseteq Nat
         /\ AcceptedIds = UNION {AcceptedFor(q) : q \in Queues}
         /\ \A i \in AcceptedIds :
              /\ i \in 1 .. taken /\ i \in 1 .. Len(requests)
              /\ requests[i].target \in Queues
<1>1. taken \in Nat /\ taken <= Len(requests) /\ Len(requests) \in Nat
  BY LenProperties DEF Base, TypeOK
<1>2. IsFiniteSet(AcceptedIds)
  <2>1. IsFiniteSet(1 .. taken)
    BY <1>1, FS_Interval
  <2> QED BY <2>1, FS_Subset DEF AcceptedIds
<1>3. ASSUME NEW i \in AcceptedIds
      PROVE  /\ i \in 1 .. taken /\ i \in 1 .. Len(requests)
             /\ requests[i].target \in Queues
  <2>1. i \in 1 .. taken /\ requests[i].kind = "publish"
    BY DEF AcceptedIds, Accepted
  <2>2. i \in 1 .. Len(requests)
    BY <1>1, <2>1
  <2> QED BY <2>1, <2>2, RequestTypes
<1>4. AcceptedIds = UNION {AcceptedFor(q) : q \in Queues}
  BY <1>3 DEF AcceptedIds, AcceptedFor
<1>5. AcceptedIds \subseteq Nat
  BY <1>1 DEF AcceptedIds
<1> QED BY <1>2, <1>3, <1>4, <1>5, FS_CardinalityType

(* The abstract broker's messages are the queues of the accepted ones.     *)
LEMMA AcceptedQueuesType ==
  ASSUME Base, Ranked(AcceptedIds)
  PROVE  /\ AcceptedQueues \in Seq(Queues)
         /\ Len(AcceptedQueues) = Cardinality(AcceptedIds)
         /\ \A k \in 1 .. Cardinality(AcceptedIds) :
              /\ Nth(AcceptedIds, k) \in AcceptedIds
              /\ AcceptedQueues[k] = requests[Nth(AcceptedIds, k)].target
<1> DEFINE n == Cardinality(AcceptedIds)
<1>1. n \in Nat
  BY AcceptedType
<1>2. ASSUME NEW k \in 1 .. n
      PROVE  Nth(AcceptedIds, k) \in AcceptedIds
  <2>1. Place(AcceptedIds, k) # {}
    BY DEF Ranked
  <2>2. Nth(AcceptedIds, k) \in Place(AcceptedIds, k)
    BY <2>1 DEF Nth
  <2> QED BY <2>2 DEF Place
<1>3. AcceptedQueues \in [1 .. n -> Queues]
  BY <1>2, AcceptedType DEF AcceptedQueues
<1>4. \A k \in 1 .. n : AcceptedQueues[k] = requests[Nth(AcceptedIds, k)].target
  BY DEF AcceptedQueues
<1> HIDE DEF n
<1>5. AcceptedQueues \in Seq(Queues) /\ Len(AcceptedQueues) = n
  BY <1>1, <1>3
<1> QED BY <1>2, <1>4, <1>5 DEF n

(* The messages that are not acknowledged: at most the one in delivery.    *)
LEMMA AckedCount ==
  ASSUME Base, InOrder, Published
  PROVE  /\ server.pc = "deliver" => taken \in AcceptedIds
         /\ Cardinality({i \in AcceptedIds : answers[i] = 202}) =
              IF server.pc = "deliver" THEN Cardinality(AcceptedIds) - 1
                                       ELSE Cardinality(AcceptedIds)
<1>1. /\ taken \in 0 .. Len(requests) /\ Len(requests) \in Nat
      /\ DOMAIN requests = 1 .. Len(requests)
  BY LenProperties DEF Base, TypeOK
<1>2. None # 500
  BY StatusAssumption
<1>3. ASSUME NEW i \in AcceptedIds
      PROVE  answers[i] = 202 <=> i < taken \/ (i = taken /\ server = Idle)
  <2>1. /\ i \in 1 .. Len(requests) /\ requests[i].kind = "publish"
        /\ answers[i] # 500
    BY AcceptedType DEF AcceptedIds, Accepted
  <2>2. answers[i] \in {None, 202}
    BY <2>1 DEF Published
  <2>3. answers[i] # None <=> i < taken \/ (i = taken /\ server = Idle)
    BY <1>1, <2>1 DEF InOrder
  <2>4. None # 202
    BY StatusAssumption
  <2> QED BY <2>2, <2>3, <2>4
<1>4. CASE server.pc = "deliver"
  <2>1. /\ taken \in 1 .. Len(requests) /\ requests[taken].kind = "publish"
        /\ server # Idle
    BY <1>1, <1>4 DEF Base, Shape, KindAt, Idle
  <2>2. answers[taken] = None
    BY <1>1, <2>1 DEF InOrder
  <2>3. taken \in AcceptedIds
    BY <1>1, <1>2, <2>1, <2>2 DEF AcceptedIds, Accepted
  <2>4. {i \in AcceptedIds : answers[i] = 202} = AcceptedIds \ {taken}
    <3>1. \A i \in AcceptedIds : answers[i] = 202 <=> i # taken
      BY <1>1, <1>3, <2>1, AcceptedType
    <3> QED BY <3>1
  <2> QED BY <1>4, <2>3, <2>4, AcceptedType, FS_RemoveElement
<1>5. CASE server.pc # "deliver"
  <2>1. ASSUME NEW i \in AcceptedIds, i = taken
        PROVE  server = Idle
    <3>1. requests[taken].kind = "publish"
      BY <2>1 DEF AcceptedIds, Accepted
    <3> QED BY <1>5, <3>1 DEF Base, TypeOK, ServerType, Shape, KindAt
  <2>2. \A i \in AcceptedIds : answers[i] = 202
    BY <1>1, <1>3, <2>1, AcceptedType
  <2>3. {i \in AcceptedIds : answers[i] = 202} = AcceptedIds
    BY <2>2
  <2> QED BY <1>5, <2>3
<1> QED BY <1>4, <1>5

(* The same of the next state.                                             *)
LEMMA AcceptedUnion ==
  Base' => (AcceptedIds = UNION {AcceptedFor(q) : q \in Queues})'
<1>1. Base => AcceptedIds = UNION {AcceptedFor(q) : q \in Queues}
  BY AcceptedType
<1> QED BY <1>1, PTL

(* TakePublish accepts one message more, the last one.                     *)
LEMMA TakePublishAccepts ==
  ASSUME Base, Base', InOrder, Ranked(AcceptedIds), TakePublish
  PROVE  LET q == requests[taken + 1].target IN
         /\ q \in Queues
         /\ AcceptedQueues' = Append(AcceptedQueues, q)
         /\ Cardinality(AcceptedIds)' = Cardinality(AcceptedIds) + 1
         /\ Ranked(AcceptedIds)'
<1> DEFINE n == taken + 1
           q == requests[n].target
           c == Cardinality(AcceptedIds)
<1>1. /\ taken \in 0 .. Len(requests) /\ Len(requests) \in Nat
      /\ DOMAIN requests = 1 .. Len(requests)
  BY LenProperties DEF Base, TypeOK
<1>2. /\ n \in 1 .. Len(requests) /\ taken' = n /\ server = Idle
      /\ requests' = requests /\ answers' = answers
      /\ requests[n].kind = "publish"
  BY <1>1 DEF TakePublish, Takes, netVars
<1>3. q \in Queues
  BY <1>2, RequestTypes
<1>4. AcceptedIds' = AcceptedIds \cup {n}
  <2>1. answers[n] = None /\ None # 500
    BY <1>1, <1>2, StatusAssumption DEF InOrder
  <2>2. \A i \in 1 .. n : Accepted(i)' <=> Accepted(i) \/ i = n
    BY <1>1, <1>2, <2>1 DEF Accepted
  <2> QED BY <1>1, <1>2, <2>2 DEF AcceptedIds
<1>5. /\ IsFiniteSet(AcceptedIds) /\ AcceptedIds \subseteq Nat /\ n \in Nat
      /\ \A i \in AcceptedIds : i < n
  BY <1>1, AcceptedType
<1>6. /\ Ranked(AcceptedIds')
      /\ Cardinality(AcceptedIds') = c + 1
      /\ Place(AcceptedIds', c + 1) = {n}
      /\ \A k \in 1 .. c : Place(AcceptedIds', k) = Place(AcceptedIds, k)
  BY <1>4, <1>5, PlacesGrow
<1>7. Ranked(AcceptedIds)' /\ Cardinality(AcceptedIds)' = c + 1
  BY <1>6 DEF Ranked, Place
<1>8. /\ AcceptedQueues \in Seq(Queues) /\ Len(AcceptedQueues) = c
      /\ \A k \in 1 .. c : AcceptedQueues[k] = requests[Nth(AcceptedIds, k)].target
  BY AcceptedQueuesType
<1>9. AcceptedQueues' = [k \in 1 .. c + 1 |-> requests[Nth(AcceptedIds', k)].target]
  BY <1>2, <1>6 DEF AcceptedQueues, Nth, Place
<1>10. ASSUME NEW k \in 1 .. c + 1
       PROVE  requests[Nth(AcceptedIds', k)].target = Append(AcceptedQueues, q)[k]
  <2>1. c \in Nat
    BY AcceptedType
  <2> HIDE DEF c
  <2>2. CASE k \in 1 .. c
    <3>1. Nth(AcceptedIds', k) = Nth(AcceptedIds, k)
      BY <1>6, <2>2 DEF Nth
    <3>2. Append(AcceptedQueues, q)[k] = AcceptedQueues[k]
      BY <1>3, <1>8, <2>2, AppendProperties
    <3> QED BY <1>8, <2>2, <3>1, <3>2
  <2>3. CASE k = c + 1
    <3>1. Nth(AcceptedIds', k) = n
      BY <1>6, <2>3 DEF Nth
    <3>2. Append(AcceptedQueues, q)[k] = q
      BY <1>3, <1>8, <2>3, AppendProperties
    <3> QED BY <3>1, <3>2
  <2>4. k \in 1 .. c \/ k = c + 1
    BY <2>1 DEF c
  <2> QED BY <2>2, <2>3, <2>4
<1>11. AcceptedQueues' = Append(AcceptedQueues, q)
  <2> DEFINE new == Append(AcceptedQueues, q)
  <2>1. c \in Nat
    BY AcceptedType
  <2>2. new \in Seq(Queues) /\ Len(new) = c + 1
    BY <1>3, <1>8, AppendProperties
  <2>3. new = [k \in 1 .. c + 1 |-> new[k]]
    BY <2>1, <2>2
  <2> HIDE DEF new
  <2>4. \A k \in 1 .. c + 1 : requests[Nth(AcceptedIds', k)].target = new[k]
    BY <1>10 DEF new
  <2>5. AcceptedQueues' = new
    BY <1>9, <2>3, <2>4
  <2> QED BY <2>5 DEF new
<1> QED BY <1>3, <1>7, <1>11

(* No other step changes what was accepted.                                *)
LEMMA OthersAcceptNothing ==
  ASSUME Base, Base', Handlers, InOrder, Ranked(AcceptedIds), [Next]_vars,
         ~TakePublish
  PROVE  /\ AcceptedIds' = AcceptedIds
         /\ AcceptedQueues' = AcceptedQueues
         /\ Ranked(AcceptedIds)'
<1>1. \A q \in Queues : AcceptedFor(q)' = AcceptedFor(q)
  BY AcceptedStep
<1>2. AcceptedIds = UNION {AcceptedFor(q) : q \in Queues}
  BY AcceptedType
<1>3. AcceptedIds' = UNION {AcceptedFor(q)' : q \in Queues}
  BY AcceptedUnion
<1>4. AcceptedIds' = AcceptedIds
  BY <1>1, <1>2, <1>3
<1>5. Ranked(AcceptedIds)'
  BY <1>4 DEF Ranked, Place
<1>6. AcceptedQueues' = AcceptedQueues
  <2>1. \A k \in 1 .. Cardinality(AcceptedIds) :
          requests'[Nth(AcceptedIds, k)] = requests[Nth(AcceptedIds, k)]
    BY AcceptedQueuesType, AcceptedType, RequestsKept
  <2>2. AcceptedQueues' = [k \in 1 .. Cardinality(AcceptedIds') |->
                             requests'[Nth(AcceptedIds', k)].target]
    BY DEF AcceptedQueues, Nth, Place
  <2> QED BY <1>4, <2>1, <2>2 DEF AcceptedQueues
<1> QED BY <1>4, <1>5, <1>6

(* The same of the next state.                                             *)
LEMMA AckedNext ==
  Base' /\ InOrder' /\ Published' =>
    (Cardinality({i \in AcceptedIds : answers[i] = 202}) =
       IF server.pc = "deliver" THEN Cardinality(AcceptedIds) - 1
                                ELSE Cardinality(AcceptedIds))'
<1>1. Base /\ InOrder /\ Published =>
        Cardinality({i \in AcceptedIds : answers[i] = 202}) =
          IF server.pc = "deliver" THEN Cardinality(AcceptedIds) - 1
                                   ELSE Cardinality(AcceptedIds)
  BY AckedCount
<1> QED BY <1>1, PTL

(* The loop of a message ends with its acknowledgement only.               *)
LEMMA LoopEnds ==
  ASSUME Base, Handlers, [Next]_vars, server.pc = "deliver", server'.pc # "deliver"
  PROVE  FinishPublish
<1>1. CASE UNCHANGED server
  BY <1>1
<1>2. CASE ServerStep
  <2>1. server \in ServerType /\ server # Idle
    BY DEF Base, TypeOK, Idle
  <2>2. ~\E kind : Takes(kind)
    BY <2>1 DEF Takes
  <2>3. ~(TakeLocal \/ TakeToggle \/ TakeProxy \/ TakePublish \/ RejectPublish \/ TakeRun)
    BY <2>2 DEF TakeLocal, TakeToggle, TakeProxy, TakePublish, RejectPublish, TakeRun
  <2>4. ~(ProxyReturns \/ ProxyBodyFails \/ ProxyBreaks \/ RunReturns \/ RunTimesOut
          \/ RunRecords)
    BY DEF ProxyReturns, ProxyBodyFails, ProxyBreaks, RunReturns, RunTimesOut, RunRecords
  <2>5. ~DeliverNext /\ ~DeliveryReturns
    BY <2>1 DEF DeliverNext, ServerCalls, DeliveryReturns, ServerType
  <2> QED BY <1>2, <2>3, <2>4, <2>5 DEF ServerStep
<1> QED BY <1>1, <1>2, NextServer

(* What the refinement rests on.                                           *)
BrokerInv ==
  /\ Base /\ Handlers /\ InOrder /\ Published
  /\ Registered /\ Reg!EachListenerOnce
  /\ Ranked(AcceptedIds)

(* A message in delivery is the last one accepted, and its subscribers are *)
(* those that the abstract broker counts.                                  *)
LEMMA InDeliveryOf ==
  ASSUME BrokerInv, server.pc = "deliver"
  PROVE  /\ Cardinality(AcceptedIds) \in Nat \ {0}
         /\ Fanout[AcceptedQueues[Len(AcceptedQueues)]] =
              Len(SubscribersOf(Current.target))
<1> DEFINE c == Cardinality(AcceptedIds)
<1>1. /\ taken \in AcceptedIds /\ IsFiniteSet(AcceptedIds) /\ AcceptedIds \subseteq Nat
      /\ taken \in Nat /\ \A i \in AcceptedIds : i <= taken
      /\ requests[taken].target \in Queues /\ taken \in 1 .. Len(requests)
  BY AckedCount, AcceptedType DEF BrokerInv, Base, TypeOK
<1>2. Place(AcceptedIds, c) = {taken} /\ c \in Nat \ {0}
  BY <1>1, LastPlace
<1>3. Nth(AcceptedIds, c) = taken
  BY <1>2 DEF Nth
<1>4. AcceptedQueues[Len(AcceptedQueues)] = Current.target
  BY <1>2, <1>3, AcceptedQueuesType DEF BrokerInv, Current
<1>5. Registry!Shared
  BY <1>1 DEF BrokerInv, Registered
<1> QED BY <1>1, <1>2, <1>4, <1>5, FanoutIsSubscribers DEF BrokerInv, Current

(* TakePublish accepts, DeliverNext offers, FinishPublish acknowledges, and*)
(* the abstract broker sees nothing of any other step.                     *)
LEMMA NextBroker ==
  ASSUME BrokerInv, BrokerInv', [Next]_vars
  PROVE  [Broker!Next]_(Broker!brokerVars)
<1> DEFINE c == Cardinality(AcceptedIds)
           acked == Cardinality({i \in AcceptedIds : answers[i] = 202})
           last == Fanout[AcceptedQueues[Len(AcceptedQueues)]]
           offered == IF server.pc = "deliver" THEN server.delivered
                      ELSE IF AcceptedIds = {} THEN 0 ELSE last
<1> USE DEF BrokerInv
<1>1. /\ c \in Nat /\ Len(AcceptedQueues) = c
      /\ acked = IF server.pc = "deliver" THEN c - 1 ELSE c
  BY AcceptedType, AcceptedQueuesType, AckedCount
<1>2. acked' = IF server'.pc = "deliver" THEN c' - 1 ELSE c'
  BY AckedNext
<1>3. CASE TakePublish
  <2> DEFINE q == requests[taken + 1].target
  <2>1. /\ q \in Queues /\ AcceptedQueues' = Append(AcceptedQueues, q)
        /\ c' = c + 1
    BY <1>3, TakePublishAccepts
  <2>2. server.pc = "idle" /\ server'.pc = "deliver" /\ server'.delivered = 0
    BY <1>3 DEF TakePublish, Takes, Idle
  <2>3. acked' = acked /\ acked = Len(AcceptedQueues) /\ offered' = 0
    BY <1>1, <1>2, <2>1, <2>2
  <2> HIDE DEF acked, offered, q
  <2>4. Broker!Accept(q)
    BY <1>1, <2>1, <2>3 DEF Broker!Accept, Broker!InDelivery, acked, offered, last
  <2> QED BY <2>1, <2>4 DEF Broker!Next
<1>4. CASE ~TakePublish
  <2>1. AcceptedIds' = AcceptedIds /\ AcceptedQueues' = AcceptedQueues /\ c' = c
    BY <1>4, OthersAcceptNothing
  <2>2. CASE DeliverNext
    <3>1. /\ server.pc = "deliver" /\ server'.pc = "deliver"
          /\ server'.delivered = server.delivered + 1
          /\ server.delivered < Len(SubscribersOf(Current.target))
      BY <2>2 DEF DeliverNext, ServerCalls
    <3>2. c \in Nat \ {0} /\ last = Len(SubscribersOf(Current.target))
      BY <3>1, InDeliveryOf
    <3>3. /\ acked' = acked /\ acked < Len(AcceptedQueues)
          /\ offered' = offered + 1 /\ offered < last
      BY <1>1, <1>2, <2>1, <3>1, <3>2
    <3> HIDE DEF acked, offered, c
    <3>4. Broker!Offer
      BY <2>1, <3>3 DEF Broker!Offer, Broker!InDelivery, acked, offered, last
    <3> QED BY <3>4 DEF Broker!Next
  <2>3. CASE FinishPublish
    <3>1. /\ server.pc = "deliver" /\ server'.pc = "idle"
          /\ server.delivered = Len(SubscribersOf(Current.target))
      BY <2>3 DEF FinishPublish, Idle
    <3>2. c \in Nat \ {0} /\ last = Len(SubscribersOf(Current.target))
      BY <3>1, InDeliveryOf
    <3>3. AcceptedIds # {}
      BY <3>2, FS_EmptySet
    <3>4. last' = last
      BY <2>1 DEF Fanout
    <3>5. /\ acked' = acked + 1 /\ acked < Len(AcceptedQueues)
          /\ offered' = offered /\ offered = last
      BY <1>1, <1>2, <2>1, <3>1, <3>2, <3>3, <3>4
    <3> HIDE DEF acked, offered, c
    <3>6. Broker!Acknowledge
      BY <2>1, <3>5 DEF Broker!Acknowledge, Broker!InDelivery, acked, offered, last
    <3> QED BY <3>6 DEF Broker!Next
  <2>4. CASE ~DeliverNext /\ ~FinishPublish
    <3>1. SamePlace
      BY <1>4, <2>4, PlaceStep
    <3>2. server'.pc = "deliver" <=> server.pc = "deliver"
      BY <2>4, <3>1, LoopEnds DEF SamePlace
    <3>3. last' = last
      BY <2>1 DEF Fanout
    <3>4. acked' = acked /\ offered' = offered
      BY <1>1, <1>2, <2>1, <3>1, <3>2, <3>3 DEF SamePlace
    <3> HIDE DEF acked, offered, c
    <3> QED BY <2>1, <3>4 DEF Broker!brokerVars, acked, offered, last
  <2> QED BY <2>2, <2>3, <2>4
<1> QED BY <1>3, <1>4

(* The queue endpoint implements the abstract broker, for any listeners,   *)
(* queues, services and interleaving.                                      *)
THEOREM BrokerRefined == Spec => BrokerSpec
<1>1. Init => BrokerInv /\ Broker!Init
  <2> SUFFICES ASSUME Init PROVE BrokerInv /\ Broker!Init
    OBVIOUS
  <2>1. /\ Base /\ Handlers /\ InOrder /\ Published /\ Registered
        /\ taken = 0 /\ server = Idle
    BY InitBase, EmptySeq DEF Init, Handlers, InOrder, Published, Registered
  <2>2. Reg!EachListenerOnce
    <3>1. Reg!Init
      BY DEF Init, Registry!Init, Registry!NewQueue, Reg!Init, Reg!NewQueue
    <3> QED BY <3>1, RegistryConstants, Reg!InitInv DEF Reg!Inv
  <2>3. AcceptedIds = {} /\ Cardinality(AcceptedIds) = 0
    BY <2>1, FS_EmptySet DEF AcceptedIds
  <2>4. Ranked(AcceptedIds)
    BY <2>3 DEF Ranked
  <2>5. AcceptedQueues = <<>>
    BY <2>3 DEF AcceptedQueues
  <2>6. {i \in AcceptedIds : answers[i] = 202} = {}
    BY <2>3
  <2>7. Broker!Init
    BY <2>1, <2>3, <2>5, <2>6, FS_EmptySet DEF Broker!Init, Idle
  <2> QED BY <2>1, <2>2, <2>4, <2>7 DEF BrokerInv
<1>2. BrokerInv /\ Reg!EachListenerOnce' /\ [Next]_vars => BrokerInv'
  <2> SUFFICES ASSUME BrokerInv, Reg!EachListenerOnce', [Next]_vars PROVE BrokerInv'
    OBVIOUS
  <2>1. Base' /\ Handlers' /\ InOrder' /\ Published' /\ Registered'
    BY NextBase, NextHandlers, NextInOrder, NextPublished, NextRegistered
       DEF BrokerInv
  <2>2. Ranked(AcceptedIds)'
    BY <2>1, TakePublishAccepts, OthersAcceptNothing DEF BrokerInv
  <2> QED BY <2>1, <2>2 DEF BrokerInv
<1>3. Spec => []Reg!EachListenerOnce
  BY RegistryRefined, RegistryConstants, Reg!ListenersOnce
<1>4. BrokerInv /\ BrokerInv' /\ [Next]_vars => [Broker!Next]_(Broker!brokerVars)
  BY NextBroker
<1> QED BY <1>1, <1>2, <1>3, <1>4, PTL DEF Spec, BrokerSpec, Broker!Spec
=============================================================================
