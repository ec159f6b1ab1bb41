-------------------------- MODULE RoundRobinRouter --------------------------
(***************************************************************************)
(* RoundRobinRouter of src/src/server.rs: a counter for each service picks *)
(* the runner that a proxied request goes to.  The counter is a usize that *)
(* wraps around, so the runner after a wrap need not be the next in line.  *)
(***************************************************************************)
EXTENDS Naturals

CONSTANTS
  Services,   \* the configured services
  Runners,    \* how many runner endpoints each service has
  Modulus     \* 2^w for a usize of w bits

ASSUME RunnersAssumption == Runners \in [Services -> Nat \ {0}]
ASSUME ModulusAssumption == Modulus \in Nat \ {0}
\* Runners are at most as many as ports, and a usize counts further.
ASSUME WidthAssumption == \A s \in Services : Runners[s] <= Modulus

VARIABLES
  counters,   \* the counters of the router
  waits       \* history: picks of a service since each runner was last picked

routerVars == <<counters, waits>>

RunnersOf(s) == 0 .. Runners[s] - 1

RouterTypeOK ==
  /\ counters \in [Services -> 0 .. Modulus - 1]
  /\ DOMAIN waits = Services
  /\ \A s \in Services : waits[s] \in [RunnersOf(s) -> Nat]

RouterInit ==
  /\ counters = [s \in Services |-> 0]
  /\ waits = [s \in Services |-> [k \in RunnersOf(s) |-> 0]]

\* Position in runner_endpoints() of the base URL that next_base_url returns.
Position(s) ==
  IF Runners[s] <= 1 THEN 0 ELSE counters[s] % Runners[s]

\* Fault: saturating_add, so that the counter stays where it is at its limit.
SaturatingNext(s) ==
  /\ counters' = [counters EXCEPT ![s] =
       IF Runners[s] > 1 /\ @ < Modulus - 1 THEN @ + 1 ELSE @]
  /\ waits' = [waits EXCEPT ![s] =
       [k \in RunnersOf(s) |-> IF k = Position(s) THEN 0 ELSE @[k] + 1]]

\* next_base_url: a service with one endpoint never touches its counter.
NextBaseUrl(s) ==
  /\ counters' = [counters EXCEPT ![s] =
                    IF Runners[s] <= 1 THEN @ ELSE (@ + 1) % Modulus]
  /\ waits' = [waits EXCEPT ![s] =
       [k \in RunnersOf(s) |-> IF k = Position(s) THEN 0 ELSE @[k] + 1]]

RouterNext == \E s \in Services : NextBaseUrl(s)

RouterSpec == RouterInit /\ [][RouterNext]_routerVars

-----------------------------------------------------------------------------
(* Between two picks of a runner every other runner of its service has its  *)
(* turn, and no more than its turn.  Only in the first round after the      *)
(* counter has wrapped may a runner have waited longer, since the width of  *)
(* a usize need not be a multiple of the number of runners, and then for    *)
(* less than two rounds: wrapping_add starves no runner.                    *)
EveryRunnerInTurn ==
  \A s \in Services : \A k \in RunnersOf(s) :
    \/ waits[s][k] < Runners[s]
    \/ counters[s] < Runners[s] /\ waits[s][k] < 2 * Runners[s] - 1
=============================================================================
