------------------------------- MODULE Runner -------------------------------
(***************************************************************************)
(* The running system: the entry server of wasmrunner (run_server and      *)
(* handle_request in src/src/server.rs), its queue registry, its router,   *)
(* its schedule threads, and the service instances they call.              *)
(*                                                                         *)
(* One thread serves all requests, one after the other, from the unbounded *)
(* FIFO queue that tiny_http fills.  While it waits for a service it does  *)
(* nothing else, and only its manual runs have a timeout: ureq sets none   *)
(* for a proxied request or the delivery of a queue message.  Services     *)
(* serve any number of calls at once, and the webhooks of two of them      *)
(* publish messages to the runner, awaiting its answer, before they answer *)
(* themselves.  What the dashboard, /health, logs, statistics and OpenAPI  *)
(* requests and the rejections of handle_request have in common is that    *)
(* they are answered without a call: they are the "local" requests here.   *)
(***************************************************************************)
EXTENDS Naturals, Sequences, FiniteSets

CONSTANTS
  Services, Runners, Modulus,        \* see RoundRobinRouter
  Queues, Endpoints, Listeners, MaxCount,   \* see QueueRegistry
  Schedules, Interval, None, Error, MaxRuns, MaxTriggers,  \* see Scheduler
  ServiceOf,    \* the service that each endpoint belongs to
  Hook,         \* the endpoint that each schedule calls
  Proxied,      \* endpoints that clients may ask for: supports() holds
  Events,       \* the queues an endpoint publishes to before it answers
  Replies,      \* the statuses an endpoint that publishes nothing answers with
  MaxClients,   \* bound: requests from outside
  Healthy       \* TRUE: services neither fail nor take five seconds to answer

ASSUME EndpointsAssumption ==
  /\ ServiceOf \in [Endpoints -> Services]
  /\ Hook \in [Schedules -> Endpoints]
  /\ Proxied \subseteq Endpoints
  /\ Events \in [Endpoints -> Seq(Queues)]
  /\ Listeners \in Seq([queue : Queues, subscriber : Endpoints])
  /\ Runners \in [Services -> Nat \ {0}] /\ Modulus \in Nat \ {0}
  /\ MaxCount \in Nat \ {0}
ASSUME StatusAssumption ==
  /\ Replies \subseteq Nat
  /\ None \notin Nat
  /\ Healthy \in BOOLEAN

VARIABLES
  requests,    \* every request that reached the runner, in order of arrival
  taken,       \* how many of them the server thread has taken up
  answers,     \* the status each request was answered with, None before
  recorded,    \* the status record_http_status was given for each request
  server,      \* the server thread inside handle_request
  calls,       \* every call that the runner made to a service
  threadCall,  \* the call that each schedule thread waits for, 0 if none
  \* the state of the components
  queues, registered,
  counters, waits,
  schedules, thread, remaining, trigger, clock, reported, runs, triggers,
  wakes, lateStarts

Registry == INSTANCE QueueRegistry WITH Subscribers <- Endpoints

Router == INSTANCE RoundRobinRouter

Statuses == Replies \cup {202, 500}

Sched == INSTANCE Scheduler

netVars == <<requests, answers, recorded>>
serverVars == <<taken, server>>
callVars == <<calls, threadCall>>
registryVars == <<queues, registered>>
routerVars == <<counters, waits>>
schedVars == <<schedules, thread, remaining, trigger, clock, reported, runs,
               triggers, wakes, lateStarts>>
vars == <<netVars, serverVars, callVars, registryVars, routerVars, schedVars>>

-----------------------------------------------------------------------------
(* Requests, calls and the server thread.                                  *)

(* A request and its sender: 0 a client, else the call whose handler sent   *)
(* it.                                                                      *)
Request(kind, target, from) ==
  [kind |-> kind, target |-> target, from |-> from]

ClientRequests ==
  {Request("local", None, 0)} \cup
  {Request("proxy", e, 0) : e \in Proxied} \cup
  {Request("publish", q, 0) : q \in Queues} \cup
  {Request(kind, s, 0) : kind \in {"toggle", "run"}, s \in Schedules}

(* A call and the state of its handler in the service: running, awaiting    *)
(* the runner's answer to request pub, or over.  left events are still to   *)
(* be published, ok of them were.  msg is the request whose message a       *)
(* delivery carries and pos the position of the subscriber it goes to; both *)
(* are 0 for other calls.                                                   *)
NewCall(e, runner, msg, pos) ==
  [endpoint |-> e, runner |-> runner, msg |-> msg, pos |-> pos,
   state |-> "running", left |-> Len(Events[e]), ok |-> 0, pub |-> 0,
   status |-> None]

Idle == [pc |-> "idle", call |-> 0, delivered |-> 0]

Running(c) == calls[c].state \in {"running", "awaiting"}

(* The runner still waits for call c: its connection is open.               *)
Open(c) == server.call = c \/ \E s \in Schedules : threadCall[s] = c

(* ureq::Error::Status and Ok are both an answer to the runner.             *)
Replied(c) == calls[c].state = "replied"
Broken(c) == calls[c].state = "failed"

(* A call with a timeout may run into it while its handler is not done; in  *)
(* a healthy system only if the handler waits for the runner itself.        *)
TimesOut(c) ==
  /\ Running(c)
  /\ Healthy => calls[c].state = "awaiting"

(* execute_webhook's result for a call that is over.                        *)
Outcome(c) == IF Replied(c) THEN Sched!Ok(calls[c].status) ELSE Sched!Failed

Current == requests[taken]

SubscribersOf(q) == queues[q].subscribers

-----------------------------------------------------------------------------
Init ==
  /\ requests = <<>> /\ taken = 0 /\ answers = <<>> /\ recorded = <<>>
  /\ server = Idle
  /\ calls = <<>>
  /\ threadCall = [s \in Schedules |-> 0]
  /\ Registry!Init
  /\ Router!RouterInit
  /\ Sched!Init

\* The registry is filled before run_server binds the port.
Startup ==
  /\ Registry!RegisterListener
  /\ UNCHANGED <<netVars, serverVars, callVars, routerVars, schedVars>>

Arrives(request) ==
  /\ requests' = Append(requests, request)
  /\ answers' = Append(answers, None)
  /\ recorded' = Append(recorded, None)

\* A client connects; tiny_http queues its request.
Submit ==
  /\ Registry!Shared
  /\ Cardinality({i \in DOMAIN requests : requests[i].from = 0}) < MaxClients
  /\ \E r \in ClientRequests : Arrives(r)
  /\ UNCHANGED <<serverVars, callVars, registryVars, routerVars, schedVars>>

-----------------------------------------------------------------------------
(* The server thread takes a request up.                                   *)

\* Fault: a request is skipped for each one that is taken up.
TakesTwo(kind) ==
  /\ server = Idle
  /\ taken < Len(requests)
  /\ requests[taken + 1].kind = kind
  /\ taken' = taken + 2

\* The next request is of this kind, and the server thread is free for it.
Takes(kind) ==
  /\ server = Idle
  /\ taken < Len(requests)
  /\ requests[taken + 1].kind = kind
  /\ taken' = taken + 1

\* The request that is being taken up.
Taking == requests[taken + 1]

Answer(i, status) == answers' = [answers EXCEPT ![i] = status]

TakeLocal ==
  /\ Takes("local")
  /\ Answer(taken + 1, 200)
  /\ UNCHANGED <<requests, recorded, server, callVars, registryVars,
                 routerVars, schedVars>>

\* handle_schedule_request, "toggle".
TakeToggle ==
  /\ Takes("toggle")
  /\ Sched!Toggle(Taking.target)
  /\ Answer(taken + 1, 200)
  /\ UNCHANGED <<requests, recorded, server, callVars, registryVars, routerVars>>

\* The server thread calls a service and waits.
ServerCalls(pc, delivered, call) ==
  /\ calls' = Append(calls, call)
  /\ server' = [pc |-> pc, call |-> Len(calls) + 1, delivered |-> delivered]

\* handle_request: the request goes on to the runner whose turn it is.
TakeProxy ==
  /\ Takes("proxy")
  /\ LET e == Taking.target
         s == ServiceOf[e]
     IN  /\ Router!NextBaseUrl(s)
         /\ ServerCalls("proxy", 0, NewCall(e, Router!Position(s), 0, 0))
  /\ UNCHANGED <<netVars, threadCall, registryVars, schedVars>>

\* The answer is recorded in the statistics and passed on.
ProxyReturns ==
  /\ server.pc = "proxy"
  /\ Replied(server.call)
  /\ recorded' = [recorded EXCEPT ![taken] = calls[server.call].status]
  /\ Answer(taken, calls[server.call].status)
  /\ server' = Idle
  /\ UNCHANGED <<requests, taken, callVars, registryVars, routerVars, schedVars>>

\* Fault: the status is recorded only once the body has been read.
BodyFailsUnrecorded ==
  /\ server.pc = "proxy"
  /\ Replied(server.call)
  /\ ~Healthy
  /\ Answer(taken, 500)
  /\ server' = Idle
  /\ UNCHANGED <<requests, taken, recorded, callVars, registryVars, routerVars,
                 schedVars>>

\* build_response cannot read the body: the status has been recorded, the
\* request is dropped, and tiny_http answers a dropped request with 500.
ProxyBodyFails ==
  /\ server.pc = "proxy"
  /\ Replied(server.call)
  /\ ~Healthy
  /\ recorded' = [recorded EXCEPT ![taken] = calls[server.call].status]
  /\ Answer(taken, 500)
  /\ server' = Idle
  /\ UNCHANGED <<requests, taken, callVars, registryVars, routerVars, schedVars>>

\* Fault: a service that cannot be reached leaves the client unanswered.
BreaksSilently ==
  /\ server.pc = "proxy"
  /\ Broken(server.call)
  /\ recorded' = [recorded EXCEPT ![taken] = 502]
  /\ server' = Idle
  /\ UNCHANGED <<requests, answers, taken, callVars, registryVars, routerVars,
                 schedVars>>

ProxyBreaks ==
  /\ server.pc = "proxy"
  /\ Broken(server.call)
  /\ recorded' = [recorded EXCEPT ![taken] = 502]
  /\ Answer(taken, 502)
  /\ server' = Idle
  /\ UNCHANGED <<requests, taken, callVars, registryVars, routerVars, schedVars>>

-----------------------------------------------------------------------------
(* handle_queue_publish.                                                   *)

\* The payload is read and the message counted; delivery comes next.
TakePublish ==
  /\ Takes("publish")
  /\ Registry!PrepareDelivery(Taking.target)
  /\ server' = [pc |-> "deliver", call |-> 0, delivered |-> 0]
  /\ UNCHANGED <<netVars, callVars, routerVars, schedVars>>

\* Fault: the message is counted before its body has been read.
RejectCounts ==
  /\ Takes("publish")
  /\ ~Healthy
  /\ Registry!PrepareDelivery(Taking.target)
  /\ Answer(taken + 1, 500)
  /\ UNCHANGED <<requests, recorded, server, callVars, routerVars, schedVars>>

\* The body of the request cannot be read: nothing is counted.
RejectPublish ==
  /\ Takes("publish")
  /\ ~Healthy
  /\ Answer(taken + 1, 500)
  /\ UNCHANGED <<requests, recorded, server, callVars, registryVars,
                 routerVars, schedVars>>

\* The next subscriber is called, at its service's base URL.
DeliverNext ==
  /\ server.pc = "deliver" /\ server.call = 0
  /\ server.delivered < Len(SubscribersOf(Current.target))
  /\ LET e == SubscribersOf(Current.target)[server.delivered + 1]
         k == server.delivered + 1
     IN  ServerCalls("deliver", k, NewCall(e, 0, taken, k))
  /\ UNCHANGED <<netVars, taken, threadCall, registryVars, routerVars, schedVars>>

\* Fault: the first delivery that fails ends the loop.
StopsAtFailure ==
  /\ server.pc = "deliver" /\ server.call # 0
  /\ ~Running(server.call)
  /\ IF Broken(server.call)
     THEN server' = Idle /\ Answer(taken, 202)
     ELSE server' = [server EXCEPT !.call = 0] /\ UNCHANGED answers
  /\ UNCHANGED <<requests, recorded, taken, callVars, registryVars,
                 routerVars, schedVars>>

\* Fault: a delivery that fails is made again.
RetriesFailure ==
  /\ server.pc = "deliver" /\ server.call # 0
  /\ ~Running(server.call)
  /\ server' = [server EXCEPT !.call = 0,
                              !.delivered = IF Broken(server.call) THEN @ - 1 ELSE @]
  /\ UNCHANGED <<netVars, taken, callVars, registryVars, routerVars, schedVars>>

\* The call is over; a failure is only logged.
DeliveryReturns ==
  /\ server.pc = "deliver" /\ server.call # 0
  /\ ~Running(server.call)
  /\ server' = [server EXCEPT !.call = 0]
  /\ UNCHANGED <<netVars, taken, callVars, registryVars, routerVars, schedVars>>

\* Fault: the publisher is left without an answer.
FinishesSilently ==
  /\ server.pc = "deliver" /\ server.call = 0
  /\ server.delivered = Len(SubscribersOf(Current.target))
  /\ server' = Idle
  /\ UNCHANGED <<netVars, taken, callVars, registryVars, routerVars, schedVars>>

\* Every subscriber was called: the publisher gets its answer.
FinishPublish ==
  /\ server.pc = "deliver" /\ server.call = 0
  /\ server.delivered = Len(SubscribersOf(Current.target))
  /\ Answer(taken, 202)
  /\ server' = Idle
  /\ UNCHANGED <<requests, recorded, taken, callVars, registryVars,
                 routerVars, schedVars>>

-----------------------------------------------------------------------------
(* handle_schedule_request, "run": trigger_schedule_now on this thread.    *)

TakeRun ==
  /\ Takes("run")
  /\ Sched!TriggerStart(Taking.target)
  /\ ServerCalls("run", 0, NewCall(Hook[Taking.target], 0, 0, 0))
  /\ UNCHANGED <<netVars, threadCall, registryVars, routerVars>>

RunReturns ==
  /\ server.pc = "run"
  /\ ~Running(server.call)
  /\ Sched!TriggerReturn(Outcome(server.call))
  /\ server' = [server EXCEPT !.pc = "record", !.call = 0]
  /\ UNCHANGED <<netVars, taken, callVars, registryVars, routerVars>>

RunTimesOut ==
  /\ server.pc = "run"
  /\ TimesOut(server.call)
  /\ Sched!TriggerReturn(Sched!Failed)
  /\ server' = [server EXCEPT !.pc = "record", !.call = 0]
  /\ UNCHANGED <<netVars, taken, callVars, registryVars, routerVars>>

\* The result is written and described in the answer, which is 200 even
\* for a run that failed.
RunRecords ==
  /\ server.pc = "record"
  /\ Sched!TriggerRecord
  /\ Answer(taken, 200)
  /\ server' = Idle
  /\ UNCHANGED <<requests, recorded, taken, callVars, registryVars, routerVars>>

-----------------------------------------------------------------------------
(* The schedule threads.                                                   *)

ThreadWakes(s) ==
  /\ Sched!Wake(s)
  /\ UNCHANGED <<netVars, serverVars, callVars, registryVars, routerVars>>

ThreadCalls(s) ==
  /\ Sched!Execute(s)
  /\ calls' = Append(calls, NewCall(Hook[s], 0, 0, 0))
  /\ threadCall' = [threadCall EXCEPT ![s] = Len(calls) + 1]
  /\ UNCHANGED <<netVars, serverVars, registryVars, routerVars>>

ThreadReturns(s) ==
  /\ threadCall[s] # 0
  /\ ~Running(threadCall[s])
  /\ Sched!Record(s, Outcome(threadCall[s]))
  /\ threadCall' = [threadCall EXCEPT ![s] = 0]
  /\ UNCHANGED <<netVars, serverVars, calls, registryVars, routerVars>>

\* Fault: only a broken connection ends the call early, no timeout does.
WaitsForBreak(s) ==
  /\ threadCall[s] # 0
  /\ Broken(threadCall[s])
  /\ Sched!Record(s, Sched!Failed)
  /\ threadCall' = [threadCall EXCEPT ![s] = 0]
  /\ UNCHANGED <<netVars, serverVars, calls, registryVars, routerVars>>

\* Fault: a timeout ends the call but is not recorded.
ForgetsTimeout(s) ==
  /\ threadCall[s] # 0
  /\ TimesOut(threadCall[s])
  /\ thread' = [thread EXCEPT ![s] = "sleep"]
  /\ threadCall' = [threadCall EXCEPT ![s] = 0]
  /\ UNCHANGED <<netVars, serverVars, calls, registryVars, routerVars, schedules,
                 remaining, trigger, clock, reported, runs, triggers, wakes,
                 lateStarts>>

ThreadTimesOut(s) ==
  /\ threadCall[s] # 0
  /\ TimesOut(threadCall[s])
  /\ Sched!Record(s, Sched!Failed)
  /\ threadCall' = [threadCall EXCEPT ![s] = 0]
  /\ UNCHANGED <<netVars, serverVars, calls, registryVars, routerVars>>

-----------------------------------------------------------------------------
(* The services.  A handler that publishes awaits the answer to one event  *)
(* before it sends the next; it answers 202 if one of them was accepted.   *)

serviceFrame == <<serverVars, threadCall, registryVars, routerVars, schedVars>>

Handler(c, changes) ==
  /\ calls' = [calls EXCEPT ![c] = changes]

\* Fault: the handler does not wait for the runner's answer.
PublishesWithoutAwait(c) ==
  /\ calls[c].state = "running" /\ calls[c].left > 0
  /\ Registry!Shared
  /\ LET events == Events[calls[c].endpoint]
         q == events[Len(events) - calls[c].left + 1]
     IN  Arrives(Request("publish", q, c))
  /\ Handler(c, [calls[c] EXCEPT !.ok = @ + 1, !.left = @ - 1])
  /\ UNCHANGED serviceFrame

\* One event is sent, and the handler awaits the runner's answer to it.
HandlerPublishes(c) ==
  /\ calls[c].state = "running" /\ calls[c].left > 0
  /\ Registry!Shared
  /\ LET events == Events[calls[c].endpoint]
         q == events[Len(events) - calls[c].left + 1]
     IN  Arrives(Request("publish", q, c))
  /\ Handler(c, [calls[c] EXCEPT !.state = "awaiting", !.left = @ - 1,
                                 !.pub = Len(requests) + 1])
  /\ UNCHANGED serviceFrame

\* The runner cannot be reached.
PublishFails(c) ==
  /\ calls[c].state = "running" /\ calls[c].left > 0
  /\ Healthy => ~Registry!Shared
  /\ Handler(c, [calls[c] EXCEPT !.left = @ - 1])
  /\ UNCHANGED <<netVars, serviceFrame>>

\* Fault: any answer of the runner counts as success.
ResumesUnchecked(c) ==
  /\ calls[c].state = "awaiting"
  /\ answers[calls[c].pub] # None
  /\ Handler(c, [calls[c] EXCEPT !.state = "running", !.ok = @ + 1])
  /\ UNCHANGED <<netVars, serviceFrame>>

HandlerResumes(c) ==
  /\ calls[c].state = "awaiting"
  /\ answers[calls[c].pub] # None
  /\ LET accepted == answers[calls[c].pub] \in 200 .. 299
     IN  Handler(c, [calls[c] EXCEPT !.state = "running",
                                     !.ok = IF accepted THEN @ + 1 ELSE @])
  /\ UNCHANGED <<netVars, serviceFrame>>

HandlerReplies(c) ==
  /\ calls[c].state = "running" /\ calls[c].left = 0
  /\ \E status \in Statuses :
       /\ IF Events[calls[c].endpoint] = <<>>
          THEN status \in Replies
          ELSE status = IF calls[c].ok > 0 THEN 202 ELSE 500
       /\ Handler(c, [calls[c] EXCEPT !.state = "replied", !.status = status])
  /\ UNCHANGED <<netVars, serviceFrame>>

\* The service is not there, or its instance ends in the middle of the call.
HandlerFails(c) ==
  /\ Running(c)
  /\ ~Healthy
  /\ Handler(c, [calls[c] EXCEPT !.state = "failed"])
  /\ UNCHANGED <<netVars, serviceFrame>>

\* hyper drops the handler of a connection the runner has given up.  What
\* it has published stays in the runner's queue.
HandlerDropped(c) ==
  /\ Running(c)
  /\ ~Open(c)
  /\ Handler(c, [calls[c] EXCEPT !.state = "failed"])
  /\ UNCHANGED <<netVars, serviceFrame>>

-----------------------------------------------------------------------------
ServerStep ==
  \/ TakeLocal \/ TakeToggle
  \/ TakeProxy \/ ProxyReturns \/ ProxyBodyFails \/ ProxyBreaks
  \/ TakePublish \/ RejectPublish \/ DeliverNext \/ DeliveryReturns
  \/ FinishPublish
  \/ TakeRun \/ RunReturns \/ RunTimesOut \/ RunRecords

ThreadStep(s) ==
  ThreadWakes(s) \/ ThreadCalls(s) \/ ThreadReturns(s) \/ ThreadTimesOut(s)

HandlerProgress(c) ==
  HandlerPublishes(c) \/ HandlerResumes(c) \/ HandlerReplies(c)

ServiceStep(c) ==
  \/ HandlerProgress(c)
  \/ PublishFails(c) \/ HandlerFails(c) \/ HandlerDropped(c)

(* With the bounds used up and every call over the system may rest; in any  *)
(* other state in which no step is possible it is deadlocked.               *)
Rest ==
  /\ server = Idle /\ taken = Len(requests)
  /\ \A c \in DOMAIN calls : ~Running(c)
  /\ \A s \in Schedules : thread[s] = "sleep"
  /\ UNCHANGED vars

Next ==
  \/ Startup \/ Submit \/ ServerStep \/ Rest
  \/ \E s \in Schedules : ThreadStep(s)
  \/ \E c \in DOMAIN calls : ServiceStep(c)

(* The server thread and the schedule threads run when they can, a call     *)
(* with a timeout ends, and a service goes on with the calls it has begun.  *)
(* Nothing makes a client send a request or a service fail.                 *)
Fairness ==
  /\ WF_vars(Startup)
  /\ WF_vars(ServerStep)
  /\ \A s \in Schedules : WF_vars(ThreadStep(s))
  /\ WF_vars(\E c \in DOMAIN calls : HandlerProgress(c))

Spec == Init /\ [][Next]_vars
FairSpec == Spec /\ Fairness

-----------------------------------------------------------------------------
(* Types.                                                                  *)

Answers == Nat \cup {None}

CallType(states, statuses) ==
  [endpoint : Endpoints, runner : Nat, msg : Nat, pos : Nat, state : states,
   left : Nat, ok : Nat, pub : Nat, status : statuses]

ServiceCall ==
  CallType({"running", "awaiting", "failed"}, {None}) \cup
  CallType({"replied"}, Statuses)

RequestType ==
  [kind : {"local"}, target : {None}, from : {0}] \cup
  [kind : {"proxy"}, target : Proxied, from : {0}] \cup
  [kind : {"publish"}, target : Queues, from : Nat] \cup
  [kind : {"toggle", "run"}, target : Schedules, from : {0}]

ServerType ==
  [pc : {"idle", "proxy", "deliver", "run", "record"}, call : Nat,
   delivered : Nat]

TypeOK ==
  /\ requests \in Seq(RequestType)
  /\ answers \in Seq(Answers) /\ Len(answers) = Len(requests)
  /\ recorded \in Seq(Answers) /\ Len(recorded) = Len(requests)
  /\ taken \in 0 .. Len(requests)
  /\ server \in ServerType
  /\ calls \in Seq(ServiceCall)
  /\ threadCall \in [Schedules -> Nat]

-----------------------------------------------------------------------------
(* Safety.                                                                 *)

(* The server thread answers every request before it takes the next, and    *)
(* leaves none behind: whatever fails in handle_request, exactly the        *)
(* requests it has finished are answered.                                   *)
InOrder ==
  \A i \in DOMAIN requests :
    answers[i] # None <=> i < taken \/ (i = taken /\ server = Idle)

(* The loop of handle_queue_publish: a message is offered to subscribers of *)
(* its queue one after the other, in their order and never twice, and all   *)
(* offers of one message come before those of the next, so no two           *)
(* subscribers see two messages in different orders.                        *)
DeliveryOrder ==
  /\ \A c \in DOMAIN calls :
       calls[c].msg # 0 =>
         LET subscribers == SubscribersOf(requests[calls[c].msg].target) IN
         /\ calls[c].pos \in DOMAIN subscribers
         /\ calls[c].endpoint = subscribers[calls[c].pos]
  /\ \A c, d \in DOMAIN calls :
       c < d /\ calls[c].msg # 0 /\ calls[d].msg # 0 =>
         \/ calls[c].msg < calls[d].msg
         \/ calls[c].msg = calls[d].msg /\ calls[c].pos < calls[d].pos

(* Answering 202 to a publisher means that every subscriber of the queue    *)
(* was called with the message: a subscriber that fails keeps none of the   *)
(* others from theirs.                                                      *)
AckMeansOffered ==
  \A i \in DOMAIN requests :
    requests[i].kind = "publish" /\ answers[i] = 202 =>
      \A k \in DOMAIN SubscribersOf(requests[i].target) :
        \E c \in DOMAIN calls : calls[c].msg = i /\ calls[c].pos = k

Accepted(i) ==
  requests[i].kind = "publish" /\ i <= taken /\ answers[i] # 500

AcceptedBy(q) ==
  Cardinality({i \in 1 .. taken : Accepted(i) /\ requests[i].target = q})

(* The dashboard's "Mensajes procesados" of a queue is the number of        *)
(* messages accepted for it, up to the limit of the counter: a rejected     *)
(* publication does not count, a delivery that fails does not uncount.      *)
CountIsAccepted ==
  \A q \in Queues :
    queues[q].message_count =
      IF AcceptedBy(q) < MaxCount THEN AcceptedBy(q) ELSE MaxCount

(* Every proxied request that was answered is in the statistics, also when  *)
(* the service could not be reached or its body could not be read.          *)
ProxiedIsRecorded ==
  \A i \in DOMAIN requests :
    requests[i].kind = "proxy" /\ answers[i] # None =>
      \/ recorded[i] = answers[i]
      \/ answers[i] = 500 /\ recorded[i] \in Statuses

(* While the server thread waits for a call, no event that the handler of   *)
(* the call publishes can have been accepted: the one it sent is still in   *)
(* the queue behind the server thread.                                      *)
OwnEventsWait ==
  server.call # 0 =>
    LET call == calls[server.call] IN
    /\ call.ok = 0
    /\ call.state = "awaiting" => call.pub > taken

(* A webhook that publishes answers 202 only if the runner accepted one of  *)
(* its events, and so offered it to every subscriber, however the call that *)
(* started it ended for the runner.                                         *)
SuccessMeansAccepted ==
  \A c \in DOMAIN calls :
    calls[c].status = 202 /\ Events[calls[c].endpoint] # <<>> =>
      \E i \in DOMAIN requests :
        requests[i].from = c /\ answers[i] = 202

-----------------------------------------------------------------------------
(* Refinement.                                                             *)

AcceptedIds == {i \in 1 .. taken : Accepted(i)}

(* The k-th of a set of numbers, of which at most one is in its place.      *)
Place(S, k) == {i \in S : Cardinality({j \in S : j <= i}) = k}

Nth(S, k) == CHOOSE i \in Place(S, k) : TRUE

AcceptedQueues ==
  [k \in 1 .. Cardinality(AcceptedIds) |-> requests[Nth(AcceptedIds, k)].target]

(* The distinct listeners that the configurations declare for a queue.      *)
Fanout ==
  [q \in Queues |-> Cardinality(Registry!Declared(q, Len(Listeners)))]

Broker == INSTANCE QueueBroker WITH
  accepted <- AcceptedQueues,
  offered <- IF server.pc = "deliver" THEN server.delivered
             ELSE IF AcceptedIds = {} THEN 0
             ELSE Fanout[AcceptedQueues[Len(AcceptedQueues)]],
  acked <- Cardinality({i \in AcceptedIds : answers[i] = 202})

(* The queue endpoint implements the broker: messages are the accepted      *)
(* publications, offers the deliveries begun, acknowledgements the answers  *)
(* 202, and every listener that a configuration declares gets its offer.    *)
BrokerSpec == Broker!Spec

(* Composed with the server thread and the services, the schedules behave   *)
(* as Scheduler.tla says, with the outcomes that the calls really have.     *)
SchedulerSpec == Sched!Spec

-----------------------------------------------------------------------------
(* Liveness.                                                               *)

\* The server thread waits, without a timeout, for a handler that publishes.
AwaitsPublisher ==
  server.pc \in {"proxy", "deliver"} /\ server.call # 0
  /\ Events[calls[server.call].endpoint] # <<>>

(* Every request is answered, unless in the end the server thread waits for *)
(* an endpoint that publishes: nothing else, no timeout of a manual run, no *)
(* slow subscriber and no event that a webhook left behind, ever stops it.  *)
AllAnswered ==
  \/ []<>(\A i \in DOMAIN requests : answers[i] # None)
  \/ <>[]AwaitsPublisher

(* Every schedule keeps calling its webhook, whatever the server thread     *)
(* waits for, be it for ever: the calls of the threads have a timeout.      *)
SchedulesKeepRunning == Sched!KeepsRunning

(* The runner answers 200 OK on /health, one of the local requests.  It     *)
(* does not hold: a client that asks for a webhook that publishes blocks    *)
(* the server thread for ever, which waits for the service without a        *)
(* timeout while the service awaits the server thread.                      *)
HealthAnswered ==
  []<>(\A i \in DOMAIN requests :
         requests[i].kind = "local" => answers[i] # None)

(* A manual run of a webhook of a healthy service ends with the status of   *)
(* its answer.  It does not hold: the server thread that makes the call is  *)
(* the one that would have to answer the events the webhook publishes.      *)
ManualRunAnswers == trigger.pc = "record" => trigger.outcome # Sched!Failed
=============================================================================
