------------------------------ MODULE Instances ------------------------------
(***************************************************************************)
(* The service instances of the runner: how main starts them               *)
(* (run_high_level_runner in src/src/lib.rs), the thread that runs each    *)
(* wasmedge process, its memory probe (src/src/process.rs), the memory     *)
(* entry that all probes of a service share (src/src/memory.rs), and the   *)
(* thread that polls /health (src/src/health.rs).                          *)
(*                                                                         *)
(* Nothing starts an instance again, and nothing compares the ports of two *)
(* services: whichever process binds a port first answers there.  What the *)
(* probe learns of its process comes from sysinfo, which may go on listing *)
(* a process that is gone.                                                 *)
(***************************************************************************)
EXTENDS Naturals, Sequences

CONSTANTS
  Loads,       \* what load_services may return: the services in the order of
               \* their names, and [service, index, port] of their instances
               \* in the order in which they start
  OtherPorts,  \* the ports that programs other than the instances may use
  None         \* Option::None of usage_bytes

NamesOf(load) == {load.services[n] : n \in DOMAIN load.services}
Known == UNION {NamesOf(load) : load \in Loads}

\* Without services main starts neither instances nor the poller.
ASSUME LoadsAssumption ==
  \A load \in Loads :
    /\ load.services \in Seq(NamesOf(load)) /\ load.services # <<>>
    /\ load.instances \in Seq([service : NamesOf(load), index : Nat, port : Nat])
    /\ \A i, j \in DOMAIN load.instances :
         load.instances[i].service = load.instances[j].service =>
           /\ load.instances[i].index = load.instances[j].index => i = j
           /\ load.instances[i].port = load.instances[j].port => i = j
    /\ \A s \in NamesOf(load) : \E i \in DOMAIN load.instances :
         load.instances[i].service = s /\ load.instances[i].index = 0
ASSUME NoneAssumption == None \notin Nat

VARIABLES
  loaded,     \* what load_services has returned
  main,       \* what run_high_level_runner is doing
  launched,   \* how many instance threads it has spawned
  runner,     \* where each instance thread is in run_module_with_output
  child,      \* the wasmedge process of each instance
  others,     \* the ports that other programs listen on
  stop,       \* the stop flag of each probe
  probe,      \* where each probe is in spawn_memory_probe
  memory,     \* usage_bytes: the instance whose reading a service shows
  poller,     \* the service that the poller is at and what it has found
  health      \* HealthStatus of each service

mainVars == <<loaded, main, launched>>
portVars == <<child, others>>
childVars == <<runner, portVars, stop>>
probeVars == <<probe, memory>>
healthVars == <<poller, health>>
vars == <<mainVars, childVars, probeVars, healthVars>>

Services == loaded.services
Names == NamesOf(loaded)
Instances == loaded.instances
Ids == DOMAIN Instances
ServiceOf(i) == Instances[i].service
Port(i) == Instances[i].port

(* base_url is the first of the runner URLs: the one that /health goes to.  *)
Base(s) == CHOOSE i \in Ids : ServiceOf(i) = s /\ Instances[i].index = 0

(* Some process listens there, of this service or of any other.             *)
Answered(port) ==
  port \in others \/ \E i \in Ids : Port(i) = port /\ child[i] = "listening"

TypeOK ==
  /\ loaded \in Loads
  /\ main \in {"spawning", "running", "exited"}
  /\ launched \in 0 .. Len(Instances)
  /\ runner \in [Ids -> {"none", "starting", "waiting", "joining", "ended"}]
  /\ child \in [Ids -> {"none", "booting", "listening", "gone"}]
  /\ others \subseteq OtherPorts
  /\ stop \in [Ids -> BOOLEAN]
  /\ probe \in [Ids -> {"none", "check", "look", "record", "sleep", "leave", "done"}]
  /\ memory \in [Names -> Ids \cup {None}]
  /\ poller \in [at : DOMAIN Services, found : {"nothing", "Healthy", "Unhealthy"}]
  /\ health \in [Names -> {"Unknown", "Healthy", "Unhealthy"}]

-----------------------------------------------------------------------------
(* run_high_level_runner.                                                  *)

\* An earlier run may have left its instances behind, on the same ports.
Init ==
  /\ loaded \in Loads
  /\ main = "spawning" /\ launched = 0
  /\ runner = [i \in Ids |-> "none"]
  /\ child = [i \in Ids |-> "none"]
  /\ others \in SUBSET OtherPorts
  /\ stop = [i \in Ids |-> FALSE]
  /\ probe = [i \in Ids |-> "none"]
  /\ memory = [s \in Names |-> None]
  /\ poller = [at |-> 1, found |-> "nothing"]
  /\ health = [s \in Names |-> "Unknown"]

\* start_service_modules spawns the next instance thread.
Launch ==
  /\ main = "spawning" /\ launched < Len(Instances)
  /\ launched' = launched + 1
  /\ runner' = [runner EXCEPT ![launched + 1] = "starting"]
  /\ UNCHANGED <<loaded, main, portVars, stop, probeVars, healthVars>>

\* start_health_monitor, once every instance thread was spawned; what main
\* does from then on is to serve.
Monitor ==
  /\ main = "spawning" /\ launched = Len(Instances)
  /\ main' = "running"
  /\ UNCHANGED <<loaded, launched, childVars, probeVars, healthVars>>

\* A thread cannot be spawned, the port of the runner not be bound, or the
\* runner is killed.  Its threads end with it and its instances do not.
Exit ==
  /\ main # "exited"
  /\ main' = "exited"
  /\ UNCHANGED <<loaded, launched, childVars, probeVars, healthVars>>

-----------------------------------------------------------------------------
(* The instance threads and their processes.                               *)

\* The module is found and wasmedge started, with a probe beside it.
Spawn(i) ==
  /\ runner[i] = "starting"
  /\ runner' = [runner EXCEPT ![i] = "waiting"]
  /\ child' = [child EXCEPT ![i] = "booting"]
  /\ probe' = [probe EXCEPT ![i] = "check"]
  /\ UNCHANGED <<mainVars, others, stop, memory, healthVars>>

\* No module, or wasmedge cannot be executed: the thread logs and ends.
SpawnFails(i) ==
  /\ runner[i] = "starting"
  /\ runner' = [runner EXCEPT ![i] = "ended"]
  /\ UNCHANGED <<mainVars, portVars, stop, probeVars, healthVars>>

\* The program binds its port, if nothing else has.
ChildListens(i) ==
  /\ child[i] = "booting"
  /\ ~Answered(Port(i))
  /\ child' = [child EXCEPT ![i] = "listening"]
  /\ UNCHANGED <<mainVars, runner, others, stop, probeVars, healthVars>>

\* The process ends: it cannot bind its port, fails or is killed.
ChildExits(i) ==
  /\ child[i] \in {"booting", "listening"}
  /\ child' = [child EXCEPT ![i] = "gone"]
  /\ UNCHANGED <<mainVars, runner, others, stop, probeVars, healthVars>>

\* A process of no instance binds the port, or gives it up.
OtherListens(port) ==
  /\ ~Answered(port)
  /\ others' = others \cup {port}
  /\ UNCHANGED <<mainVars, runner, child, stop, probeVars, healthVars>>

OtherExits(port) ==
  /\ port \in others
  /\ others' = others \ {port}
  /\ UNCHANGED <<mainVars, runner, child, stop, probeVars, healthVars>>

\* Fault: the probe is joined but never told to stop.
JoinsOnly(i) ==
  /\ runner[i] = "waiting" /\ child[i] = "gone"
  /\ runner' = [runner EXCEPT ![i] = "joining"]
  /\ UNCHANGED <<mainVars, portVars, stop, probeVars, healthVars>>

\* wait() returned: the flag is set, then the probe is joined.
Stop(i) ==
  /\ runner[i] = "waiting" /\ child[i] = "gone"
  /\ stop' = [stop EXCEPT ![i] = TRUE]
  /\ runner' = [runner EXCEPT ![i] = "joining"]
  /\ UNCHANGED <<mainVars, portVars, probeVars, healthVars>>

\* wait() fails: the thread ends with ?, and the probe is never told.
WaitFails(i) ==
  /\ runner[i] = "waiting"
  /\ runner' = [runner EXCEPT ![i] = "ended"]
  /\ UNCHANGED <<mainVars, portVars, stop, probeVars, healthVars>>

Join(i) ==
  /\ runner[i] = "joining" /\ probe[i] = "done"
  /\ runner' = [runner EXCEPT ![i] = "ended"]
  /\ UNCHANGED <<mainVars, portVars, stop, probeVars, healthVars>>

-----------------------------------------------------------------------------
(* The memory probes.                                                      *)

ProbeStep(i, from, to) ==
  /\ probe[i] = from
  /\ probe' = [probe EXCEPT ![i] = to]
  /\ UNCHANGED <<mainVars, childVars, healthVars>>

\* reset_memory_entry: the entry is the service's, not the instance's.
Reset(i) == memory' = [memory EXCEPT ![ServiceOf(i)] = None]

ProbeCheck(i) ==
  /\ ProbeStep(i, "check", IF stop[i] THEN "leave" ELSE "look")
  /\ UNCHANGED memory

\* refresh_process and process(): the process is, or still seems, there.
ProbeFinds(i) ==
  /\ ProbeStep(i, "look", "record")
  /\ UNCHANGED memory

\* The process is gone.
ProbeMisses(i) ==
  /\ child[i] = "gone"
  /\ ProbeStep(i, "look", "leave")
  /\ Reset(i)

\* record_memory_usage.
ProbeRecords(i) ==
  /\ ProbeStep(i, "record", "sleep")
  /\ memory' = [memory EXCEPT ![ServiceOf(i)] = i]

ProbeSleeps(i) ==
  /\ ProbeStep(i, "sleep", "check")
  /\ UNCHANGED memory

\* Fault: only a probe that has missed its process resets the entry.
LeavesReading(i) ==
  /\ ProbeStep(i, "leave", "done")
  /\ UNCHANGED memory

\* The reset after the loop.
ProbeLeaves(i) ==
  /\ ProbeStep(i, "leave", "done")
  /\ Reset(i)

-----------------------------------------------------------------------------
(* The health poller.                                                      *)

Polled == Services[poller.at]

\* Whoever answers 200 at the base URL within two seconds makes the service
\* Healthy; every other outcome is Unhealthy.
Poll ==
  /\ main = "running"
  /\ poller.found = "nothing"
  /\ \E found \in {"Healthy", "Unhealthy"} :
       /\ found = "Healthy" => Answered(Port(Base(Polled)))
       /\ poller' = [poller EXCEPT !.found = found]
  /\ UNCHANGED <<mainVars, childVars, probeVars, health>>

\* Fault: a failed poll leaves the last status as it is.
KeepsLastStatus ==
  /\ poller.found # "nothing"
  /\ health' = IF poller.found = "Healthy"
               THEN [health EXCEPT ![Polled] = poller.found] ELSE health
  /\ poller' = [at |-> (poller.at % Len(Services)) + 1, found |-> "nothing"]
  /\ UNCHANGED <<mainVars, childVars, probeVars>>

\* Fault: the loop over the services does not begin again.
PollsOn ==
  /\ poller.found # "nothing"
  /\ health' = [health EXCEPT ![Polled] = poller.found]
  /\ poller' = [at |-> poller.at + 1, found |-> "nothing"]
  /\ UNCHANGED <<mainVars, childVars, probeVars>>

\* The result is written; the next service, after the last one a sleep.
PollWrites ==
  /\ poller.found # "nothing"
  /\ health' = [health EXCEPT ![Polled] = poller.found]
  /\ poller' = [at |-> (poller.at % Len(Services)) + 1, found |-> "nothing"]
  /\ UNCHANGED <<mainVars, childVars, probeVars>>

-----------------------------------------------------------------------------
MainStep == Launch \/ Monitor

RunnerStep(i) == Spawn(i) \/ SpawnFails(i) \/ Stop(i) \/ Join(i)

Probe(i) ==
  \/ ProbeCheck(i) \/ ProbeFinds(i) \/ ProbeMisses(i) \/ ProbeRecords(i)
  \/ ProbeSleeps(i) \/ ProbeLeaves(i)

PollStep == Poll \/ PollWrites

Next ==
  \/ /\ main # "exited"
     /\ \/ MainStep \/ Exit \/ PollStep
        \/ \E i \in Ids : RunnerStep(i) \/ WaitFails(i) \/ Probe(i)
  \/ \E i \in Ids : ChildListens(i) \/ ChildExits(i)
  \/ \E port \in OtherPorts : OtherListens(port) \/ OtherExits(port)

(* The threads of the runner are scheduled and a poll ends after two        *)
(* seconds.  Nothing makes a process listen or exit, or wait() fail.        *)
Slots == UNION {DOMAIN load.instances : load \in Loads}

Fairness ==
  /\ WF_vars(MainStep)
  /\ WF_vars(main # "exited" /\ PollStep)
  /\ \A i \in Slots : /\ WF_vars(main # "exited" /\ i \in Ids /\ RunnerStep(i))
                      /\ WF_vars(main # "exited" /\ i \in Ids /\ Probe(i))

Spec == Init /\ [][Next]_vars
FairSpec == Spec /\ Fairness

-----------------------------------------------------------------------------
(* Properties.                                                             *)

(* The probes of a service share one entry and reset it as they end, in any *)
(* order: what the dashboard shows was read by a probe that still runs, and *)
(* a service whose instances have all ended shows no usage.                 *)
UsageIsLive ==
  \A s \in Names :
    memory[s] # None =>
      /\ ServiceOf(memory[s]) = s
      /\ probe[memory[s]] \notin {"none", "done"}

(* An instance thread ends after its process, even if sysinfo never notices *)
(* that the process is gone: the stop flag ends the probe it joins.         *)
RunnersEnd ==
  \A i \in Slots :
    i \in Ids /\ child[i] = "gone" ~>
      i \in Ids /\ (runner[i] = "ended" \/ main = "exited")

(* A service at whose base URL nothing listens any more, or ever did, is    *)
(* shown as out of service, and stays so: a poll that was under way when it *)
(* went is corrected by a later one.  As long as anything answers there, if *)
(* only a process of another service whose ports run into this one, the     *)
(* service may be shown as healthy whether it runs or not.                  *)
DownIsShown ==
  \A s \in Known :
    <>[](s \in Names /\ ~Answered(Port(Base(s)))) =>
      <>[](s \in Names /\ (health[s] = "Unhealthy" \/ main = "exited"))

=============================================================================
