---------------------------- MODULE MCInstances ----------------------------
(***************************************************************************)
(* For TLC: one service with two copies, whose probes share one entry; or  *)
(* two services of one copy each, with the same port in their URLs.        *)
(***************************************************************************)
EXTENDS Instances

CONSTANTS sap, crm

Copy(service, index, port) == [service |-> service, index |-> index, port |-> port]

MCLoads == {
  [services |-> <<sap>>, instances |-> <<Copy(sap, 0, 1), Copy(sap, 1, 2)>>],
  [services |-> <<crm, sap>>, instances |-> <<Copy(crm, 0, 1), Copy(sap, 0, 1)>>] }
=============================================================================
