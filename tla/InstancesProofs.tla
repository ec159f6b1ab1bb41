--------------------------- MODULE InstancesProofs ---------------------------
(***************************************************************************)
(* Proofs about Instances.tla, for any services and any number of copies.  *)
(***************************************************************************)
EXTENDS Instances, SequenceTheorems, TLAPS

-----------------------------------------------------------------------------
(* The instances and the services of the runner.                           *)

(* Every instance has a number and a service; numbers are not None.         *)
LEMMA InstanceFacts ==
  ASSUME loaded \in Loads
  PROVE  /\ Len(Instances) \in Nat /\ Ids = 1 .. Len(Instances)
         /\ \A i \in Ids : ServiceOf(i) \in Names /\ i # None
<1>1. Instances \in Seq([service : Names, index : Nat, port : Nat])
  BY LoadsAssumption DEF Instances, Names
<1>2. Len(Instances) \in Nat /\ DOMAIN Instances = 1 .. Len(Instances)
  BY <1>1, LenProperties
<1>3. \A i \in DOMAIN Instances :
        Instances[i] \in [service : Names, index : Nat, port : Nat]
  BY <1>1, ElementOfSeq, <1>2
<1> QED BY <1>2, <1>3, NoneAssumption DEF Ids, ServiceOf

(* The poller begins with a service that there is.                          *)
LEMMA ServicesFacts ==
  ASSUME loaded \in Loads
  PROVE  /\ Len(Services) \in Nat /\ DOMAIN Services = 1 .. Len(Services)
         /\ Len(Services) > 0
<1>1. Services \in Seq(Names) /\ Services # <<>>
  BY LoadsAssumption DEF Services, Names
<1>2. Len(Services) \in Nat /\ DOMAIN Services = 1 .. Len(Services)
  BY <1>1, LenProperties
<1> QED BY <1>1, <1>2, EmptySeq

(* The service after one of the list, or the first after the last.          *)
LEMMA NextPolled ==
  ASSUME loaded \in Loads, NEW n \in DOMAIN Services
  PROVE  /\ (n % Len(Services)) + 1 \in DOMAIN Services
         /\ Services[n] \in Names
<1>1. n % Len(Services) \in 0 .. Len(Services) - 1
  BY ServicesFacts
<1> QED BY <1>1, ServicesFacts DEF Names, NamesOf, Services

(* The program starts with the types and with no usage shown.               *)
LEMMA InitUsage == Init => TypeOK /\ UsageIsLive
<1> SUFFICES ASSUME Init PROVE TypeOK /\ UsageIsLive
  OBVIOUS
<1>1. loaded \in Loads
  BY DEF Init
<1>2. 1 \in DOMAIN Services
  BY <1>1, ServicesFacts
<1>3. TypeOK
  BY <1>1, <1>2, InstanceFacts DEF Init, TypeOK
<1>4. UsageIsLive
  BY DEF Init, UsageIsLive
<1> QED BY <1>3, <1>4

(* What was loaded stays as it is, and with it all that is said of it.      *)
LEMMA LoadedStays ==
  ASSUME [Next]_vars
  PROVE  /\ loaded' = loaded
         /\ Services' = Services /\ Instances' = Instances
         /\ Names' = Names /\ Ids' = Ids
         /\ \A i \in Ids : ServiceOf(i)' = ServiceOf(i)
<1>1. loaded' = loaded
  BY DEF Next, vars, mainVars, MainStep, Launch, Monitor, Exit, PollStep, Poll,
         PollWrites, RunnerStep, Spawn, SpawnFails, Stop, WaitFails, Join,
         ChildListens, ChildExits, OtherListens, OtherExits, Probe, ProbeStep,
         ProbeCheck, ProbeFinds, ProbeMisses, ProbeRecords, ProbeSleeps, ProbeLeaves
<1> QED BY <1>1 DEF Services, Instances, Names, Ids, ServiceOf

-----------------------------------------------------------------------------
(* The types.                                                              *)

(* Every step of main and of an instance keeps the types.                   *)
LEMMA InstanceTypes ==
  ASSUME TypeOK,
         [Next]_vars,
         \/ MainStep \/ Exit
         \/ \E i \in Ids :
              RunnerStep(i) \/ WaitFails(i) \/ ChildListens(i) \/ ChildExits(i)
         \/ \E port \in OtherPorts : OtherListens(port) \/ OtherExits(port)
  PROVE  TypeOK'
<1>a. loaded \in Loads
  BY DEF TypeOK
<1> USE <1>a, InstanceFacts, LoadedStays DEF portVars, probeVars, healthVars, mainVars, childVars
<1>1. CASE Launch
  <2>1. launched + 1 \in Ids /\ launched + 1 \in 0 .. Len(Instances)
    BY <1>1 DEF Launch, TypeOK
  <2> QED BY <1>1, <2>1 DEF Launch, TypeOK
<1>2. CASE Monitor
  BY <1>2 DEF Monitor, TypeOK
<1>4. CASE Exit
  BY <1>4 DEF Exit, TypeOK
<1>5. ASSUME NEW i \in Ids, Spawn(i) PROVE TypeOK'
  BY <1>5 DEF Spawn, TypeOK
<1>6. ASSUME NEW i \in Ids, SpawnFails(i) PROVE TypeOK'
  BY <1>6 DEF SpawnFails, TypeOK
<1>7. ASSUME NEW i \in Ids, Stop(i) PROVE TypeOK'
  BY <1>7 DEF Stop, TypeOK
<1>8. ASSUME NEW i \in Ids, Join(i) PROVE TypeOK'
  BY <1>8 DEF Join, TypeOK
<1>9. ASSUME NEW i \in Ids, ChildListens(i) PROVE TypeOK'
  BY <1>9 DEF ChildListens, TypeOK
<1>10. ASSUME NEW i \in Ids, ChildExits(i) PROVE TypeOK'
  BY <1>10 DEF ChildExits, TypeOK
<1>11. ASSUME NEW i \in Ids, WaitFails(i) PROVE TypeOK'
  BY <1>11 DEF WaitFails, TypeOK
<1>12. ASSUME NEW port \in OtherPorts, OtherListens(port) \/ OtherExits(port)
       PROVE TypeOK'
  BY <1>12 DEF OtherListens, OtherExits, TypeOK
<1> QED BY <1>1, <1>2, <1>4, <1>5, <1>6, <1>7, <1>8, <1>9, <1>10, <1>11, <1>12
        DEF MainStep, RunnerStep

(* Every step of a probe and of the poller keeps the types.                 *)
LEMMA WatcherTypes ==
  ASSUME TypeOK, [Next]_vars, PollStep \/ \E i \in Ids : Probe(i)
  PROVE  TypeOK'
<1>a. loaded \in Loads
  BY DEF TypeOK
<1> USE <1>a, InstanceFacts, LoadedStays DEF portVars, probeVars, healthVars, mainVars, childVars
<1>1. ASSUME NEW i \in Ids, Probe(i) PROVE TypeOK'
  <2>1. /\ UNCHANGED <<mainVars, childVars, healthVars>>
        /\ probe' \in [Ids -> {"none", "check", "look", "record", "sleep", "leave", "done"}]
    BY <1>1 DEF Probe, ProbeCheck, ProbeFinds, ProbeMisses, ProbeRecords,
                ProbeSleeps, ProbeLeaves, ProbeStep, TypeOK
  <2>2. memory' \in [Names -> Ids \cup {None}]
    BY <1>1 DEF Probe, ProbeCheck, ProbeFinds, ProbeMisses, ProbeRecords,
                ProbeSleeps, ProbeLeaves, Reset, TypeOK
  <2> QED BY <2>1, <2>2 DEF TypeOK
<1>2. CASE Poll
  <2>1. poller' \in [at : DOMAIN Services, found : {"nothing", "Healthy", "Unhealthy"}]
    BY <1>2 DEF Poll, TypeOK
  <2> QED BY <1>2, <2>1 DEF Poll, TypeOK
<1>3. CASE PollWrites
  <2>1. poller.at \in DOMAIN Services /\ poller.found \in {"Healthy", "Unhealthy"}
    BY <1>3 DEF PollWrites, TypeOK
  <2>2. poller' \in [at : DOMAIN Services, found : {"nothing", "Healthy", "Unhealthy"}]
    BY <1>3, <2>1, NextPolled DEF PollWrites
  <2>3. health' \in [Names -> {"Unknown", "Healthy", "Unhealthy"}]
    BY <1>3, <2>1 DEF PollWrites, TypeOK
  <2> QED BY <1>3, <2>2, <2>3 DEF PollWrites, TypeOK
<1> QED BY <1>1, <1>2, <1>3 DEF PollStep

(* Every step keeps the types.                                              *)
LEMMA NextTypes ==
  ASSUME TypeOK, [Next]_vars
  PROVE  TypeOK'
<1>1. CASE UNCHANGED vars
  BY <1>1, LoadedStays DEF vars, mainVars, childVars, portVars, probeVars, healthVars,
     TypeOK
<1>2. CASE Next
  BY <1>2, InstanceTypes, WatcherTypes DEF Next
<1> QED BY <1>1, <1>2

(* The types of main, the instances, the probes and the poller hold in      *)
(* every state of start_service_modules and the threads that it starts.     *)
THEOREM InstanceTypesHold == Spec => []TypeOK
<1>1. Init => TypeOK
  BY InitUsage
<1>2. TypeOK /\ [Next]_vars => TypeOK'
  BY NextTypes
<1> QED BY <1>1, <1>2, PTL DEF Spec

-----------------------------------------------------------------------------
(* The memory entry that the probes of a service share.                    *)

(* A step of one probe: it takes its own reading back before it ends, and   *)
(* any other reading that is left is of a probe that this step is not of.   *)
LEMMA ProbeKeepsUsage ==
  ASSUME TypeOK, UsageIsLive, [Next]_vars, NEW i \in Ids, Probe(i)
  PROVE  UsageIsLive'
<1>a. loaded \in Loads
  BY DEF TypeOK
<1> USE <1>a, InstanceFacts, LoadedStays
<1> SUFFICES ASSUME NEW s \in Names, memory'[s] # None
             PROVE  /\ ServiceOf(memory'[s]) = s
                    /\ probe'[memory'[s]] \notin {"none", "done"}
  BY DEF UsageIsLive, ServiceOf
<1>1. CASE ProbeCheck(i) \/ ProbeFinds(i) \/ ProbeSleeps(i)
  <2>1. /\ memory'[s] = memory[s] /\ memory[s] \in Ids
        /\ ServiceOf(memory[s]) = s
        /\ probe[memory[s]] \notin {"none", "done"}
    BY <1>1 DEF ProbeCheck, ProbeFinds, ProbeSleeps, UsageIsLive, TypeOK
  <2>2. probe'[memory[s]] \in {probe[memory[s]], "check", "leave", "look", "record"}
    BY <1>1, <2>1 DEF ProbeCheck, ProbeFinds, ProbeSleeps, ProbeStep, TypeOK
  <2> QED BY <2>1, <2>2
<1>2. CASE ProbeRecords(i)
  <2>1. probe' = [probe EXCEPT ![i] = "sleep"]
        /\ memory' = [memory EXCEPT ![ServiceOf(i)] = i]
    BY <1>2 DEF ProbeRecords, ProbeStep
  <2>2. CASE s = ServiceOf(i)
    BY <2>1, <2>2 DEF TypeOK
  <2>3. CASE s # ServiceOf(i)
    BY <2>1, <2>3 DEF UsageIsLive, TypeOK
  <2> QED BY <2>2, <2>3
<1>3. CASE ProbeMisses(i) \/ ProbeLeaves(i)
  <2>1. /\ memory' = [memory EXCEPT ![ServiceOf(i)] = None]
        /\ \A j \in Ids : j # i => probe'[j] = probe[j]
    BY <1>3 DEF ProbeMisses, ProbeLeaves, ProbeStep, Reset, TypeOK
  <2>2. s # ServiceOf(i)
    BY <2>1 DEF TypeOK
  <2>3. /\ memory'[s] = memory[s] /\ memory[s] \in Ids
        /\ ServiceOf(memory[s]) = s
        /\ probe[memory[s]] \notin {"none", "done"}
    BY <2>1, <2>2 DEF UsageIsLive, TypeOK
  <2> QED BY <2>1, <2>2, <2>3
<1> QED BY <1>1, <1>2, <1>3 DEF Probe

(* Every step keeps the shown usage live.                                   *)
LEMMA NextUsage ==
  ASSUME TypeOK, UsageIsLive, [Next]_vars
  PROVE  UsageIsLive'
<1>a. loaded \in Loads
  BY DEF TypeOK
<1>1. CASE UNCHANGED probeVars
  BY <1>1, LoadedStays, <1>a, InstanceFacts DEF probeVars, UsageIsLive, TypeOK
<1>2. ASSUME NEW i \in Ids, Spawn(i) PROVE UsageIsLive'
  BY <1>2, <1>a, LoadedStays, InstanceFacts DEF Spawn, UsageIsLive, TypeOK
<1>3. ASSUME NEW i \in Ids, Probe(i) PROVE UsageIsLive'
  BY <1>3, ProbeKeepsUsage
<1>4. \/ UNCHANGED probeVars
      \/ \E i \in Ids : Spawn(i) \/ Probe(i)
  BY DEF Next, vars, MainStep, Launch, Monitor, Exit, PollStep, Poll, PollWrites,
         RunnerStep, SpawnFails, Stop, WaitFails, Join, ChildListens, ChildExits,
         OtherListens, OtherExits
<1> QED BY <1>1, <1>2, <1>3, <1>4

(* What the dashboard shows as the memory of a service was read by a probe  *)
(* that still runs, however many copies the service has and in whichever    *)
(* order their probes write and reset the entry that they share.            *)
THEOREM UsageStaysLive == Spec => []UsageIsLive
<1>1. Init => TypeOK /\ UsageIsLive
  BY InitUsage
<1>2. TypeOK /\ UsageIsLive /\ [Next]_vars => TypeOK' /\ UsageIsLive'
  BY NextTypes, NextUsage
<1> QED BY <1>1, <1>2, PTL DEF Spec
=============================================================================
