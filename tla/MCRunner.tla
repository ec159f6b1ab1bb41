------------------------------ MODULE MCRunner ------------------------------
(***************************************************************************)
(* The runner for TLC: a shop service whose webhook, called by the one     *)
(* schedule, publishes to the queue of orders and then to that of returns, *)
(* and a sap and a crm service that listen to them.  Sap has two runners   *)
(* and an endpoint of its own.                                             *)
(***************************************************************************)
EXTENDS Runner

CONSTANTS shop, sap, crm, orders, returns, pulling,
          pull, sapOrder, crmOrder, invoices

MCServices == {shop, sap, crm}
MCRunners == [s \in MCServices |-> IF s = sap THEN 2 ELSE 1]
MCEndpoints == {pull, sapOrder, crmOrder, invoices}
MCServiceOf ==
  [e \in MCEndpoints |-> CASE e = pull -> shop
                           [] e = crmOrder -> crm
                           [] OTHER -> sap]
TwoEvents ==
  [e \in MCEndpoints |-> IF e = pull THEN <<orders, returns>> ELSE <<>>]
OneEvent == [e \in MCEndpoints |-> IF e = pull THEN <<orders>> ELSE <<>>]
MCListeners ==
  <<[queue |-> orders, subscriber |-> crmOrder],
    [queue |-> orders, subscriber |-> sapOrder],
    [queue |-> returns, subscriber |-> sapOrder],
    [queue |-> orders, subscriber |-> sapOrder]>>
MCSchedules == {pulling}
MCHook == [s \in MCSchedules |-> pull]
MCInterval == [s \in MCSchedules |-> 1]
MCReplies == {202}
Plain == {invoices}
Webhooks == {invoices, pull}
=============================================================================
