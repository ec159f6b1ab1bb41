------------------------------- MODULE Gateway -------------------------------
(***************************************************************************)
(* What one request or one call does once the services are loaded: the     *)
(* dispatch of handle_request in src/src/server.rs, the addresses that the *)
(* runner calls for it, for a schedule and for a health poll, and which    *)
(* program answers there with which of its handlers.                       *)
(*                                                                         *)
(* An exchange is one step here.  What happens during one, while others    *)
(* wait, is the subject of Runner.tla.                                     *)
(***************************************************************************)
EXTENDS ServiceConfig

CONSTANTS
  Requests,        \* the requests of clients and services: method and url
  DirectoryName,   \* the name of each directory, as a chunk
  IndexOf,         \* the segments that parse as a usize, and their values
  Parameters       \* the chunks that are parameters in OpenAPI paths

ASSUME IndexAssumption == \A segment \in DOMAIN IndexOf : IndexOf[segment] \in Nat

\* A request line has no blank within its URL.
ASSUME RequestsAssumption ==
  \A request \in Requests : request.url \in Seq(ToSet(request.url) \ {Blank})

VARIABLES
  owner,       \* the service whose process listens on each port
  exchange     \* what has just been done: a request, its calls, its answer

gatewayVars == <<owner, exchange>>

-----------------------------------------------------------------------------
(* The programs of the services in src/services, each with the paths that  *)
(* its dispatch_endpoint knows.                                            *)

Segments(path) ==
  SelectSeq(
    FoldLeft(LAMBDA done, chunk :
               IF chunk = Slash THEN Append(done, <<>>)
               ELSE Append(Front(done), Append(Last(done), chunk)),
             <<<<>>>>, path),
    LAMBDA segment : segment # <<>>)

AnySegment == <<"*">>

IsInstance(pattern, segments) ==
  /\ DOMAIN pattern = DOMAIN segments
  /\ \A k \in DOMAIN pattern : pattern[k] \in {AnySegment, segments[k]}

HealthRoute == <<<<"health">>>>
BelowClient(topic) == <<<<"clients">>, AnySegment, <<topic>>>>
BelowAccount(topic) == <<<<"accounts">>, AnySegment, <<topic>>>>
BelowCustomer(topic) == <<<<"sap">>, <<"customers">>, AnySegment, <<topic>>>>
CustomerUpdate == <<<<"webhooks">>, <<"customer-update">>>>
OrdersPull == <<<<"webhooks">>, <<"orders">>, <<"pull">>>>
OrderRoute == <<<<"shopify">>, <<"orders">>, AnySegment>>

BffRoutes ==
  {HealthRoute} \cup
  {BelowClient(topic) : topic \in {"summary", "products", "alerts", "contact"}}
AccountRoutes ==
  {HealthRoute, <<<<"accounts">>, AnySegment>>, CustomerUpdate} \cup
  {BelowAccount(topic) : topic \in {"holders", "limits", "movements"}}
SapRoutes ==
  {HealthRoute} \cup
  {BelowCustomer(topic) : topic \in {"debt", "invoices", "status", "contacts"}}
ShopifyRoutes ==
  {HealthRoute, <<<<"shopify">>, <<"orders">>>>, OrderRoute, OrdersPull}

Routes == [bff |-> BffRoutes, account |-> AccountRoutes, sap |-> SapRoutes,
           shopify |-> ShopifyRoutes]

QueueEndpoint == <<"queues", Slash, "cliente-actualizado">>

(* The program has a handler for the request.  Nothing is known of what is *)
(* not a program of the repository.                                        *)
Handles(program, method, path) ==
  \/ program = "other"
  \/ /\ method = "GET"
     /\ \E route \in Routes[program] : IsInstance(route, Segments(path))
  \/ /\ method = "POST" /\ program = "sap"
     /\ TrimStart(path, Slash) = QueueEndpoint

(* find_order, of the orders that have a name without slashes.              *)
Orders == {<<"1001">>, <<"1002">>, <<"0998">>}

(* The statuses with which the program may answer.  A webhook answers 202   *)
(* if one of its events was accepted, and 500 otherwise.                    *)
StatusesOf(program, method, path) ==
  LET segments == Segments(path) IN
  CASE ~Handles(program, method, path) ->
         {IF method = "GET" \/ (method = "POST" /\ program = "sap") THEN 404 ELSE 405}
    [] program = "sap" /\ method = "POST" -> {202}
    [] program = "account" /\ segments = CustomerUpdate -> {202, 500}
    [] program = "shopify" /\ segments = OrdersPull -> {202, 500}
    [] program = "shopify" /\ IsInstance(OrderRoute, segments) ->
         {IF segments[3] \in Orders THEN 200 ELSE 404}
    [] OTHER -> {200}

-----------------------------------------------------------------------------
(* Calls.  Every instance is told its port and binds it; of two that claim *)
(* the same, the first has it, and the other ends.                         *)

Claimants(port) ==
  {services[n].name : n \in {m \in DOMAIN services :
     \E k \in DOMAIN services[m].runner_urls :
       services[m].runner_urls[k].port = port}}

Ports == {port \in 0 .. MaxPort : Claimants(port) # {}}

Listening(url) == IF url.port \in DOMAIN owner THEN owner[url.port] ELSE None

(* All that a call may come to; its status is None if it breaks off.        *)
Calls(service, url, method, path) ==
  LET there == Listening(url)
      Call(status) == [service |-> service.name, reached |-> there,
                       method |-> method, path |-> path, status |-> status]
  IN  {Call(None)} \cup
      IF there = None THEN {}
      ELSE {Call(status) :
              status \in StatusesOf(files[there].program, method, path)}

BaseUrl(service) == service.runner_urls[1]

-----------------------------------------------------------------------------
(* Requests.                                                               *)

PathOf(request) ==
  LET marks == {i \in DOMAIN request.url : request.url[i] = "?"} IN
  TrimStart(IF marks = {} THEN request.url
            ELSE SubSeq(request.url, 1, Min(marks) - 1), Slash)

Below(prefix, path) == SubSeq(path, Len(prefix) + 1, Len(path))

StatsPath == <<"__runner__", Slash, "stats">>
QueuesPrefix == <<"__runner__", Slash, "queues", Slash>>
ServicesPrefix == <<"__runner__", Slash, "services", Slash>>

OwnPages == {<<>>, <<"health">>, StatsPath}

ServiceNamed(segment) ==
  {n \in DOMAIN services : <<DirectoryName[services[n].name]>> = segment}

Answered(request, status, calls) ==
  exchange' = [by |-> "client", request |-> request, status |-> status,
               calls |-> calls]

Arrives(request, method) ==
  /\ outcome = "loaded" /\ owner # None
  /\ exchange = None
  /\ request.method = method
  /\ UNCHANGED <<vars, owner>>

\* run_server takes the next request.
Ready ==
  /\ exchange # None
  /\ exchange' = None
  /\ UNCHANGED <<vars, owner>>

-----------------------------------------------------------------------------
(* POST.                                                                   *)

Subscribers(queue) ==
  UNION {{[service |-> services[n], path |-> services[n].queue_listeners[k].path] :
            k \in {j \in DOMAIN services[n].queue_listeners :
                     services[n].queue_listeners[j].queue = queue}} :
         n \in DOMAIN services}

\* Fault: the prefix of the service is part of the target.
CallsBelowPrefix(subscriber) ==
  Calls(subscriber.service, BaseUrl(subscriber.service), "POST",
        subscriber.service.prefix \o subscriber.path)

\* register_service_listeners builds the target from the first base URL.
CallsTo(subscriber) ==
  Calls(subscriber.service, BaseUrl(subscriber.service), "POST",
        TrimStart(subscriber.path, Slash))

\* One call to each subscriber; Runner.tla has their order.
Deliveries(subscribers) ==
  {Range(made) : made \in
     {f \in [subscribers -> UNION {CallsTo(s) : s \in subscribers}] :
        \A s \in subscribers : f[s] \in CallsTo(s)}}

\* handle_queue_publish: the name is the rest of the path as it was sent, so a
\* blank that the client encoded stays encoded.  The payload may turn out
\* unreadable.
Publish(request) ==
  LET path == PathOf(request)
      queue == Trim(Below(QueuesPrefix, path), Blank)
  IN  /\ Arrives(request, "POST")
      /\ IsPrefix(QueuesPrefix, path)
      /\ \/ queue = <<>> /\ Answered(request, 400, {})
         \/ queue # <<>> /\ Answered(request, 500, {})
         \/ /\ queue # <<>>
            /\ \E calls \in Deliveries(Subscribers(queue)) :
                 Answered(request, 202, calls)

\* handle_internal_service_control and handle_schedule_request.
Control(request) ==
  LET path == PathOf(request)
      parts == Segments(Below(ServicesPrefix, path))
      known == Len(parts) = 4 /\ parts[2] = <<"schedules">>
                              /\ ServiceNamed(parts[1]) # {}
      service == services[Min(ServiceNamed(parts[1]))]
      found == known /\ parts[3] \in DOMAIN IndexOf
                     /\ IndexOf[parts[3]] < Len(service.schedules)
  IN  /\ Arrives(request, "POST")
      /\ IsPrefix(ServicesPrefix, path)
      /\ \/ /\ known /\ parts[3] \notin DOMAIN IndexOf
            /\ Answered(request, 400, {})
         \/ /\ ~known \/ (parts[3] \in DOMAIN IndexOf /\ ~found)
                      \/ (found /\ parts[4] \notin {<<"toggle">>, <<"run">>})
            /\ Answered(request, 404, {})
         \/ /\ found /\ parts[4] = <<"toggle">>
            /\ Answered(request, 200, {})
         \/ /\ found /\ parts[4] = <<"run">>
            /\ \E call \in Calls(service, BaseUrl(service), "GET",
                                 service.schedules[IndexOf[parts[3]] + 1].endpoint) :
                 Answered(request, 200, {call})

PostElsewhere(request) ==
  /\ Arrives(request, "POST")
  /\ ~IsPrefix(QueuesPrefix, PathOf(request))
  /\ ~IsPrefix(ServicesPrefix, PathOf(request))
  /\ Answered(request, 404, {})

-----------------------------------------------------------------------------
(* GET.                                                                    *)

OwnPage(request) ==
  /\ Arrives(request, "GET")
  /\ PathOf(request) \in OwnPages
  /\ Answered(request, 200, {})

\* handle_internal_service_request.
ServicePage(request) ==
  LET path == PathOf(request)
      parts == Segments(Below(ServicesPrefix, path))
      known == Len(parts) > 1 /\ ServiceNamed(parts[1]) # {}
      shown == known /\ Len(parts) = 2 /\ parts[2] \in {<<"logs">>, <<"openapi">>}
      schedule == known /\ parts[2] = <<"schedules">>
  IN  /\ Arrives(request, "GET")
      /\ IsPrefix(ServicesPrefix, path)
      /\ \/ shown /\ Answered(request, 200, {})
         \/ shown /\ parts[2] = <<"openapi">> /\ Answered(request, 500, {})
         \/ schedule /\ Answered(request, 405, {})
         \/ ~shown /\ ~schedule /\ Answered(request, 404, {})

\* What is left for the services.
ForServices(request) ==
  /\ Arrives(request, "GET")
  /\ PathOf(request) \notin OwnPages
  /\ ~IsPrefix(ServicesPrefix, PathOf(request))

ServiceOf(route) ==
  services[CHOOSE n \in DOMAIN services : services[n].name = route.name]

Unrouted(request) ==
  /\ ForServices(request)
  /\ Route(PathOf(request)) = None
  /\ Answered(request, 404, {})

Undeclared(request) ==
  LET route == Route(PathOf(request)) IN
  /\ ForServices(request)
  /\ route # None
  /\ ~Supports(ServiceOf(route), route.endpoint)
  /\ Answered(request, 404, {})

\* The call goes to the copy whose turn it is; if its body cannot be read,
\* the request is dropped and answered by tiny_http.
Forward(request) ==
  LET route == Route(PathOf(request))
      service == ServiceOf(route)
  IN  /\ ForServices(request)
      /\ route # None
      /\ Supports(service, route.endpoint)
      /\ \E k \in DOMAIN service.runner_urls :
           \E call \in Calls(service, service.runner_urls[k], "GET", route.endpoint) :
             \/ call.status = None /\ Answered(request, 502, {call})
             \/ call.status # None /\ Answered(request, call.status, {call})
             \/ call.status # None /\ Answered(request, 500, {call})

OtherMethod(request) ==
  /\ request.method \notin {"GET", "POST"}
  /\ Arrives(request, request.method)
  /\ Answered(request, 405, {})

-----------------------------------------------------------------------------
(* What the runner calls by itself.                                        *)

RunnerCalls(by, service, path) ==
  /\ outcome = "loaded" /\ owner # None
  /\ exchange = None
  /\ \E call \in Calls(service, BaseUrl(service), "GET", path) :
       exchange' = [by |-> by, request |-> None, status |-> None, calls |-> {call}]
  /\ UNCHANGED <<vars, owner>>

ScheduleRuns(n) ==
  \E k \in DOMAIN services[n].schedules :
    RunnerCalls("schedule", services[n], services[n].schedules[k].endpoint)

HealthPolls(n) == RunnerCalls("health", services[n], <<"health">>)

-----------------------------------------------------------------------------
GatewayInit == Init /\ owner = None /\ exchange = None

Load == Next /\ UNCHANGED gatewayVars

\* The instances are started; who binds a port that two claim is open.
Boot ==
  /\ outcome = "loaded" /\ owner = None
  /\ owner' \in {bound \in [Ports -> Names] :
                   \A port \in Ports : bound[port] \in Claimants(port)}
  /\ UNCHANGED <<vars, exchange>>

Dispatch(request) ==
  \/ Publish(request) \/ Control(request) \/ PostElsewhere(request)
  \/ OwnPage(request) \/ ServicePage(request)
  \/ Unrouted(request) \/ Undeclared(request) \/ Forward(request)
  \/ OtherMethod(request)

GatewayNext ==
  \/ Load \/ Boot \/ Ready
  \/ \E request \in Requests : Dispatch(request)
  \/ \E n \in DOMAIN services : ScheduleRuns(n) \/ HealthPolls(n)

GatewaySpec == GatewayInit /\ [][GatewayNext]_<<vars, gatewayVars>>

-----------------------------------------------------------------------------
(* Properties.                                                             *)

(* What is written apart for one service, its source, its configuration and *)
(* its OpenAPI document, agrees: there is a handler for health polls, for   *)
(* every path that the document declares with get, and for what is posted   *)
(* to its listeners.                                                        *)
SourcesAgree(file) ==
  /\ Handles(file.program, "GET", <<"health">>)
  /\ \A path \in DOMAIN file.paths :
       "get" \in file.paths[path] /\ Trim(path, Slash) # <<>> =>
         Handles(file.program, "GET", Trim(path, Slash))
  /\ \A k \in DOMAIN file.listeners : \A queue \in DOMAIN file.listeners[k] :
       Handles(file.program, "POST",
               TrimStart(Trim(file.listeners[k][queue], Blank), Slash))

AllSourcesAgree ==
  \A layout \in Layouts : \A name \in DOMAIN layout :
    IsService(layout[name]) /\ Accepted(layout[name]) => SourcesAgree(layout[name])

(* Whatever the runner calls - for a client, a schedule, a health poll or a *)
(* delivery - the service it calls has a handler for: the configuration,    *)
(* the OpenAPI document and the source of each service of the repository    *)
(* agree through all that load_services makes of them.                      *)
CallsAreServed ==
  exchange # None =>
    \A call \in exchange.calls :
      Handles(files[call.service].program, call.method, call.path)

(* The configuration of the service asks for what is published to the queue *)
(* to be posted to this path.                                               *)
Asks(name, path, queue) ==
  \E k \in DOMAIN files[name].listeners :
    \E declared \in DOMAIN files[name].listeners[k] :
      /\ Trim(declared, Blank) = queue
      /\ TrimStart(Trim(files[name].listeners[k][declared], Blank), Slash) = path

(* A publication that is acknowledged was posted to exactly the services    *)
(* whose configurations ask for its queue, at the paths they give, however  *)
(* many blanks they have around names and paths and however the directories *)
(* were read.  The name is compared as the client sent it: what is encoded  *)
(* in a URL is not decoded, so nothing reaches a listener whose name has a  *)
(* blank inside.                                                            *)
PublishedAsAsked ==
  exchange # None /\ exchange.request # None =>
    LET request == exchange.request
        path == PathOf(request)
        queue == Below(QueuesPrefix, path)
        posted == {<<call.service, call.path>> : call \in exchange.calls}
    IN  request.method = "POST" /\ IsPrefix(QueuesPrefix, path)
          /\ exchange.status = 202 =>
            /\ \A to \in posted : Asks(to[1], to[2], queue)
            /\ \A name \in DOMAIN files : IsService(files[name]) =>
                 \A k \in DOMAIN files[name].listeners :
                   \A declared \in DOMAIN files[name].listeners[k] :
                     LET hook == Trim(files[name].listeners[k][declared], Blank) IN
                     Trim(declared, Blank) = queue =>
                       <<name, TrimStart(hook, Slash)>> \in posted

(* A client reaches a service only with a GET, and only at a path that its  *)
(* OpenAPI document declares with get.  The runner's own pages stay its     *)
(* own, whatever prefixes the services have.                                *)
ForwardsDeclaredOnly ==
  exchange # None /\ exchange.request # None =>
    LET request == exchange.request
        path == PathOf(request)
    IN  \A call \in exchange.calls :
          \/ request.method = "POST"
          \/ /\ request.method = "GET"
             /\ \E declared \in DOMAIN files[call.service].paths :
                  /\ "get" \in files[call.service].paths[declared]
                  /\ Trim(declared, Slash) = call.path
             /\ path # StatsPath /\ path # <<"health">>
             /\ ~IsPrefix(ServicesPrefix, path)

(* The request is for a path of the OpenAPI document of the service, with a *)
(* value for each of its parameters.                                        *)
IsFor(request, name) ==
  LET path == PathOf(request)
      Pattern(declared) ==
        [k \in DOMAIN Segments(declared) |->
           IF Segments(declared)[k][1] \in Parameters THEN AnySegment
           ELSE Segments(declared)[k]]
  IN  /\ IsPrefix(files[name].prefix \o <<Slash>>, path)
      /\ \E declared \in DOMAIN files[name].paths :
           /\ "get" \in files[name].paths[declared]
           /\ IsInstance(Pattern(declared),
                         Segments(Below(files[name].prefix, path)))

(* A GET below the prefix of a service for a path that its OpenAPI document *)
(* declares is forwarded to it.  It does not hold: the path is compared     *)
(* with the text of the declared one, so a path with parameters never is.   *)
DeclaredReachable ==
  exchange # None /\ exchange.request # None =>
    \A n \in DOMAIN files :
      exchange.request.method = "GET" /\ IsFor(exchange.request, n) =>
        exchange.calls # {}

(* A call reaches a process of the service that it is meant for.  It does   *)
(* not hold: the ports of the copies of a service may be those of others,   *)
(* and the first process to bind one has it.                                *)
CallsReachTheirService ==
  exchange # None =>
    \A call \in exchange.calls : call.reached \in {call.service, None}
=============================================================================
