------------------------------ MODULE MCStores ------------------------------
(***************************************************************************)
(* What the dashboard shows and the server thread keeps between requests,  *)
(* for TLC: the registry of queues, the router, the statistics, the log    *)
(* lines, and the pages of two operators.  The five share no variable, so  *)
(* a run moves one of them and leaves the others at their start.           *)
(*                                                                         *)
(* One of three queues has a listener that is declared twice with another  *)
(* between, one shares a subscriber with it, nobody listens to the third.  *)
(* Services have one to four runners and the router's counters four bits:  *)
(* sixteen is a multiple of two and of four but not of three.  The stream  *)
(* intro seeds the log of sap, which has an instance; so has bff.          *)
(***************************************************************************)
EXTENDS QueueRegistry, RoundRobinRouter, StatsStore, LogStore, Dashboard

CONSTANTS orders, customers, unheard, sap, crm, bff, one, two, three, four,
          intro, stdout, stderr, other, pull

On(q, s) == [queue |-> q, subscriber |-> s]

MCListeners ==
  <<On(orders, sap), On(orders, crm), On(customers, sap), On(orders, sap)>>

MCRunners ==
  [s \in Services |-> CASE s = one   -> 1
                        [] s = two   -> 2
                        [] s = three -> 3
                        [] s = four  -> 4]

MCServiceOf == [f \in Forwarders |-> IF f = other THEN bff ELSE sap]

MCInterval == [s \in Schedules |-> 1]

Interchangeable ==
  Permutations(Endpoints) \cup Permutations(Statuses) \cup Permutations(Pages)

-----------------------------------------------------------------------------
StoresInit == Init /\ RouterInit /\ StatsInit /\ LogInit /\ DashboardInit

RegistryMoves ==
  /\ RouterInit /\ StatsInit /\ LogInit /\ DashboardInit
  /\ Next
  /\ UNCHANGED <<routerVars, statsVars, logVars, dashboardVars>>

RouterMoves ==
  /\ Init /\ StatsInit /\ LogInit /\ DashboardInit
  /\ RouterNext
  /\ UNCHANGED <<registryVars, statsVars, logVars, dashboardVars>>

StatsMove ==
  /\ Init /\ RouterInit /\ LogInit /\ DashboardInit
  /\ StatsNext
  /\ UNCHANGED <<registryVars, routerVars, logVars, dashboardVars>>

LogsMove ==
  /\ Init /\ RouterInit /\ StatsInit /\ DashboardInit
  /\ LogNext
  /\ UNCHANGED <<registryVars, routerVars, statsVars, dashboardVars>>

PagesMove ==
  /\ Init /\ RouterInit /\ StatsInit /\ LogInit
  /\ DashboardNext
  /\ UNCHANGED <<registryVars, routerVars, statsVars, logVars>>

StoresNext == RegistryMoves \/ RouterMoves \/ StatsMove \/ LogsMove \/ PagesMove

StoresSpec ==
  /\ StoresInit
  /\ [][StoresNext]_<<registryVars, routerVars, statsVars, logVars, dashboardVars>>
=============================================================================
