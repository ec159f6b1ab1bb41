---------------------------- MODULE ServiceConfig ----------------------------
(***************************************************************************)
(* How the runner loads its services (load_services in src/src/config.rs)  *)
(* and what is read from the result later: the route of a request          *)
(* (resolve_service_route in src/src/server.rs) and the memory limit of a  *)
(* module that is run on its own (run_module in src/src/process.rs).       *)
(*                                                                         *)
(* The directories below services/ come in any order; the first one that   *)
(* is in error ends the load.  A text is a sequence of chunks, of which    *)
(* Slash and Blank are what the code trims.                                *)
(***************************************************************************)
EXTENDS Naturals, Sequences, SequencesExt

CONSTANTS
  Names,      \* directories, numbered in the order of their names
  Layouts,    \* what services/ may hold: a function from directories
  Paths,      \* request paths to route
  MaxPort,    \* u16::MAX
  MaxPages,   \* u32::MAX
  None        \* Option::None, and the result of a parser that fails

ASSUME LimitsAssumption ==
  /\ Names \subseteq Nat /\ \A layout \in Layouts : DOMAIN layout \subseteq Names
  /\ MaxPort \in Nat /\ MaxPages \in Nat /\ None \notin Nat

(* What serde and Url::parse make of a configuration, whatever is in it.    *)
Url == [parses : BOOLEAN, port : 0 .. MaxPort \cup {None}]

ASSUME FilesAssumption ==
  \A layout \in Layouts : \A name \in DOMAIN layout :
    /\ layout[name].runners \in Nat /\ layout[name].url \in Url \cup {None}
    /\ layout[name].schedules \in Seq(ToSet(layout[name].schedules))

VARIABLES
  files,      \* the contents of each directory there is
  todo,       \* the directories that read_dir has not returned yet
  services,   \* the services loaded so far
  outcome     \* what load_services has returned

vars == <<files, todo, services, outcome>>

-----------------------------------------------------------------------------
(* Texts.                                                                  *)

Slash == "/"
Blank == " "

Kept(text, chunk) == {i \in DOMAIN text : text[i] # chunk}

TrimStart(text, chunk) ==
  IF Kept(text, chunk) = {} THEN <<>>
  ELSE SubSeq(text, Min(Kept(text, chunk)), Len(text))

Trim(text, chunk) ==
  IF Kept(text, chunk) = {} THEN <<>>
  ELSE SubSeq(text, Min(Kept(text, chunk)), Max(Kept(text, chunk)))

IsBlank(text) == Trim(text, Blank) = <<>>

-----------------------------------------------------------------------------
(* Ports and memory.  A URL is what Url::parse makes of it: the port is    *)
(* port_or_known_default, None if there is none.                           *)

\* Fault: a port beyond the range is not noticed.
WithoutRangeCheck(file) ==
  file.runners > 1 => file.url.parses /\ file.url.port # None

\* build_runner_urls can give every runner a port of its own.
PortsFit(file) ==
  file.runners > 1 =>
    /\ file.url.parses /\ file.url.port # None
    /\ file.url.port + file.runners - 1 <= MaxPort

\* Fault: the first port is given to every runner.
SamePort(file) == [k \in 1 .. file.runners |-> file.url]

RunnerUrls(file) ==
  IF file.runners = 1 THEN <<file.url>>
  ELSE [k \in 1 .. file.runners |-> [file.url EXCEPT !.port = @ + k - 1]]

\* Fault: the largest limit is off by one.
LimitOffByOne(limit) ==
  limit # None => limit \in 1 .. (MaxPages \div 16) + 1

LimitSupported(limit) == limit # None => limit \in 1 .. MaxPages \div 16

(* memory_page_limit: pages of 64 KiB, None when they do not fit a u32.    *)
MemoryPageLimit(service) ==
  LET limit == service.memory_limit_mb IN
  IF limit = None \/ limit * 16 > MaxPages THEN None ELSE limit * 16

-----------------------------------------------------------------------------
(* Listeners and endpoints.                                                *)

(* parse_queue_listeners: one queue, and a path that begins with a slash.   *)
ListenerFits(entry) ==
  \E queue \in DOMAIN entry :
    LET path == Trim(entry[queue], Blank) IN
    DOMAIN entry = {queue} /\ ~IsBlank(queue) /\ IsPrefix(<<Slash>>, path)

\* Fault: the queue is checked trimmed but kept as it is written.
KeepsBlanks(entry) ==
  LET queue == CHOOSE q \in DOMAIN entry : TRUE IN
  [queue |-> queue, path |-> Trim(entry[queue], Blank)]

Listener(entry) ==
  LET queue == CHOOSE q \in DOMAIN entry : TRUE IN
  [queue |-> Trim(queue, Blank), path |-> Trim(entry[queue], Blank)]

\* Fault: every path counts, whatever its methods are.
AnyMethodEndpoints(file) == {Trim(path, Slash) : path \in DOMAIN file.paths} \ {<<>>}

(* collect_get_endpoints; a path with parameters is kept as it is written.  *)
GetEndpoints(file) ==
  {Trim(path, Slash) : path \in {p \in DOMAIN file.paths : "get" \in file.paths[p]}}
    \ {<<>>}

-----------------------------------------------------------------------------
(* Schedules: a JSON array or object, of which the first present one of    *)
(* several fields counts.                                                  *)

FirstOf(object, keys) ==
  LET present == SelectSeq(keys, LAMBDA key : key \in DOMAIN object) IN
  IF present = <<>> THEN None ELSE object[Head(present)]

EndpointKeys == <<<<"endpoint">>, <<"path">>>>
IntervalKeys == <<<<"interval_secs">>, <<"seconds">>, <<"interval">>, <<"every_secs">>>>

ScheduleOf(endpoint, interval) ==
  IF endpoint = None \/ interval = None THEN None
  ELSE IF endpoint.type # "text" \/ interval.type # "number" THEN None
  ELSE [endpoint |-> endpoint.text, interval_secs |-> interval.number]

Shorthand(object) ==
  \E key \in DOMAIN object :
    DOMAIN object = {key} /\ key \notin ToSet(EndpointKeys \o IntervalKeys)

ParseSchedule(json) ==
  CASE json.type = "array" ->
         IF Len(json.items) # 2 THEN None ELSE ScheduleOf(json.items[1], json.items[2])
    [] json.type = "object" ->
         IF Shorthand(json.fields)
         THEN LET key == CHOOSE k \in DOMAIN json.fields : TRUE IN
              ScheduleOf([type |-> "text", text |-> key], json.fields[key])
         ELSE ScheduleOf(FirstOf(json.fields, EndpointKeys),
                         FirstOf(json.fields, IntervalKeys))
    [] OTHER -> None

NormalEndpoint(endpoint) == Trim(Trim(endpoint, Blank), Slash)

ScheduleFits(file, json) ==
  LET raw == ParseSchedule(json) IN
  /\ raw # None
  /\ raw.interval_secs > 0
  /\ NormalEndpoint(raw.endpoint) \in GetEndpoints(file)

\* Fault: the endpoint is checked without its slashes but kept with them.
KeepsSlashes(json) == ParseSchedule(json)

\* normalize_service_schedules, for an entry that passes its checks.
Schedule(json) ==
  LET raw == ParseSchedule(json) IN
  [endpoint |-> NormalEndpoint(raw.endpoint), interval_secs |-> raw.interval_secs]

-----------------------------------------------------------------------------
(* load_services.                                                          *)

(* What is loaded: a directory with a configuration and a manifest.        *)
IsService(file) == file.found = "service"

(* Everything that load_services demands of it.                            *)
Accepted(file) ==
  /\ file.readable
  /\ ~IsBlank(file.prefix) /\ ~IsBlank(file.domain) /\ file.url # None
  /\ file.runners > 0
  /\ LimitSupported(file.memory_limit_mb)
  /\ GetEndpoints(file) # {}
  /\ \A k \in DOMAIN file.listeners : ListenerFits(file.listeners[k])
  /\ \A k \in DOMAIN file.schedules : ScheduleFits(file, file.schedules[k])
  /\ PortsFit(file)

Loaded(name, file) ==
  [name |-> name,
   prefix |-> file.prefix,
   runner_urls |-> RunnerUrls(file),
   allowed_get_endpoints |-> GetEndpoints(file),
   queue_listeners |->
     [k \in DOMAIN file.listeners |-> Listener(file.listeners[k])],
   schedules |-> [k \in DOMAIN file.schedules |-> Schedule(file.schedules[k])],
   memory_limit_mb |-> file.memory_limit_mb]

Init ==
  /\ files \in Layouts
  /\ todo = DOMAIN files
  /\ services = <<>>
  /\ outcome = "loading"

Reads(name) ==
  /\ outcome = "loading"
  /\ name \in todo
  /\ todo' = todo \ {name}
  /\ UNCHANGED files

Skip(name) ==
  /\ Reads(name)
  /\ ~IsService(files[name])
  /\ UNCHANGED <<services, outcome>>

Push(name) ==
  /\ Reads(name)
  /\ IsService(files[name])
  /\ Accepted(files[name])
  /\ services' = Append(services, Loaded(name, files[name]))
  /\ UNCHANGED outcome

\* Fault: a service in error is skipped like a directory without one.
SkipsRejected(name) ==
  /\ Reads(name)
  /\ IsService(files[name])
  /\ ~Accepted(files[name])
  /\ UNCHANGED <<services, outcome>>

Reject(name) ==
  /\ Reads(name)
  /\ IsService(files[name])
  /\ ~Accepted(files[name])
  /\ outcome' = "rejected"
  /\ UNCHANGED services

\* read_dir or the file type of an entry fails.
ReadFails ==
  /\ outcome = "loading"
  /\ outcome' = "unreadable"
  /\ UNCHANGED <<files, todo, services>>

\* Fault: the services stay in the order of the directory.
FinishUnsorted ==
  /\ outcome = "loading" /\ todo = {}
  /\ outcome' = "loaded"
  /\ UNCHANGED <<files, todo, services>>

(* sort_by the names, which are all different: the k-th service is the one  *)
(* with k - 1 others before it.                                             *)
SortedByName(list) ==
  [k \in DOMAIN list |->
     list[CHOOSE n \in DOMAIN list :
            Cardinality({m \in DOMAIN list : list[m].name < list[n].name}) = k - 1]]

Finish ==
  /\ outcome = "loading" /\ todo = {}
  /\ services' = SortedByName(services)
  /\ outcome' = "loaded"
  /\ UNCHANGED <<files, todo>>

Next == ReadFails \/ Finish \/ \E n \in Names : Skip(n) \/ Push(n) \/ Reject(n)

Spec == Init /\ [][Next]_vars

-----------------------------------------------------------------------------
(* Uses of the loaded services.                                            *)

Supports(service, endpoint) == endpoint \in service.allowed_get_endpoints

EndpointIn(service, path) ==
  TrimStart(SubSeq(path, Len(service.prefix) + 1, Len(path)), Slash)

Matches(service, path) ==
  IsPrefix(service.prefix, path) /\ EndpointIn(service, path) # <<>>

(* handle_request trims the path; the first service that matches has it.   *)
Route(url) ==
  LET path == TrimStart(url, Slash)
      matching == {n \in DOMAIN services : Matches(services[n], path)}
  IN  IF matching = {} THEN None
      ELSE [name |-> services[Min(matching)].name,
            endpoint |-> EndpointIn(services[Min(matching)], path)]

(* lookup_memory_page_limit: a load that fails is a module without limit.  *)
ModulePageLimit(name) ==
  LET found == {n \in DOMAIN services : services[n].name = name} IN
  IF outcome # "loaded" \/ found = {} THEN None
  ELSE MemoryPageLimit(services[Min(found)])

-----------------------------------------------------------------------------
(* Properties.                                                             *)

TypeOK ==
  /\ outcome \in {"loading", "loaded", "rejected", "unreadable"}
  /\ todo \subseteq DOMAIN files
  /\ \A n \in DOMAIN services :
       /\ services[n].name \in Names
       /\ \A k \in DOMAIN services[n].runner_urls :
            services[n].runner_urls[k].port \in (0 .. MaxPort) \cup {None}

(* The runner starts with all of the configured services or not at all: a   *)
(* service in error stops it, whichever directory was read first.           *)
AllOrNothing ==
  outcome = "loaded" =>
    {services[n].name : n \in DOMAIN services} = {n \in DOMAIN files : IsService(files[n])}

(* Which service a path belongs to depends on the configurations only, not  *)
(* on the order in which read_dir lists them: of the services that match    *)
(* it, the one with the least name has it.                                  *)
RoutesByName ==
  outcome = "loaded" =>
    \A path \in Paths :
      LET trimmed == TrimStart(path, Slash)
          matching == {n \in DOMAIN files :
                         /\ IsService(files[n])
                         /\ Matches(Loaded(n, files[n]), trimmed)}
      IN  IF matching = {} THEN Route(path) = None
          ELSE Route(path).name = Min(matching)

(* Every schedule that is loaded, in whichever of its JSON forms it was     *)
(* written, calls an endpoint that the service declares, under the name it  *)
(* declares it by, and waits between two calls.                             *)
SchedulesCanRun ==
  \A n \in DOMAIN services :
    \A k \in DOMAIN services[n].schedules :
      /\ Supports(services[n], services[n].schedules[k].endpoint)
      /\ services[n].schedules[k].interval_secs > 0

(* A service that asks for a memory limit starts with one: no limit that    *)
(* validation lets pass overflows on its way from u64 megabytes to u32      *)
(* pages, which would start the module without any.  When everything could  *)
(* be loaded, a module that is run on its own gets the limit that its own   *)
(* configuration asks for, whichever service was read before it.            *)
LimitsHold ==
  \A n \in DOMAIN services :
    services[n].memory_limit_mb # None =>
      /\ MemoryPageLimit(services[n]) # None
      /\ outcome = "loaded" =>
           ModulePageLimit(services[n].name) = MemoryPageLimit(services[n])

(* The copies of a service listen on ports of their own.                    *)
CopiesApart ==
  \A n \in DOMAIN services :
    LET urls == services[n].runner_urls IN
    /\ Len(urls) = files[services[n].name].runners
    /\ \A i, j \in DOMAIN urls : urls[i] = urls[j] => i = j

(* All HTTP requests below the prefix of a service go to it.  It does not   *)
(* hold: a prefix is compared as a string, so a service whose prefix is the *)
(* beginning of another's takes its requests.                               *)
PrefixReachesService ==
  outcome = "loaded" =>
    \A n \in DOMAIN services :
      (\A m \in DOMAIN services \ {n} : services[m].prefix # services[n].prefix) =>
        \A endpoint \in services[n].allowed_get_endpoints :
          Route(services[n].prefix \o <<Slash>> \o endpoint) =
            [name |-> services[n].name, endpoint |-> endpoint]
=============================================================================
