-------------------------- MODULE MCServiceConfig --------------------------
(***************************************************************************)
(* Configurations for TLC: one that is right, and one for each way of      *)
(* being skipped, rejected, trimmed or at a limit.                         *)
(***************************************************************************)
EXTENDS ServiceConfig

Text(t) == [type |-> "text", text |-> t]
Number(n) == [type |-> "number", number |-> n]
Array(items) == [type |-> "array", items |-> items]
Object(fields) == [type |-> "object", fields |-> fields]

Ping == <<"/", "ping">>
One(key, value) == [k \in {key} |-> value]

Plain ==
  [found |-> "service", readable |-> TRUE, prefix |-> <<"orders">>,
   url |-> [parses |-> TRUE, port |-> 1], domain |-> <<"shop">>, runners |-> 1,
   memory_limit_mb |-> 2, listeners |-> <<>>, schedules |-> <<>>,
   paths |-> One(Ping, {"get", "post"}), program |-> "other"]

ListensTo(queue, path) == [Plain EXCEPT !.listeners = <<One(queue, path)>>]
Schedules(list) == [Plain EXCEPT !.schedules = list]
Copies(n, port) == [Plain EXCEPT !.runners = n, !.url.port = port]

MCDirectories == 1 .. 4

Configurations == {
  Plain,
  [Plain EXCEPT !.found = "no manifest"],
  [Plain EXCEPT !.readable = FALSE],
  [Plain EXCEPT !.prefix = <<"orders", "-new">>, !.memory_limit_mb = None],
  [Plain EXCEPT !.memory_limit_mb = 3],
  [Plain EXCEPT !.paths = [p \in {<<"/">>, Ping} |->
                             IF p = Ping THEN {"post"} ELSE {"get"}]],
  Copies(2, 3), Copies(3, 3), Copies(2, None),
  ListensTo(<<" ", "paid">>, <<"/", "hook", " ">>),
  ListensTo(<<" ">>, <<"/", "hook">>),
  ListensTo(<<"paid">>, <<"hook">>),
  Schedules(<<Array(<<Text(<<" ", "/", "ping">>), Number(1)>>),
              Object(One(Ping, Number(2)))>>),
  Schedules(<<Object([k \in {<<"endpoint">>, <<"seconds">>} |->
                        IF k = <<"endpoint">> THEN Text(Ping) ELSE Number(0)])>>),
  Schedules(<<Object(One(<<"path">>, Text(Ping)))>>) }

(* Three directories with any of them.                                     *)
Synthetic == [1 .. 3 -> Configurations]

MCPaths == {
  <<"/", "orders", "/", "ping">>, <<"/", "/", "orders", "-new", "/", "ping">>,
  <<"/", "orders", "/">>, <<"/", "orders", "ping">>, <<"/", "ping">> }
=============================================================================
