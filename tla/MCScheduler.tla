---------------------------- MODULE MCScheduler ----------------------------
(***************************************************************************)
(* Two schedules for TLC: one that is due at every tick, one that counts   *)
(* to three.  Both share the server thread, so a manual run of one         *)
(* interleaves with the threads of both.                                   *)
(***************************************************************************)
EXTENDS Scheduler

CONSTANTS fast, slow

MCSchedules == {fast, slow}
MCInterval == [s \in MCSchedules |-> IF s = fast THEN 1 ELSE 3]
MCStatuses == {202, 500}
=============================================================================
