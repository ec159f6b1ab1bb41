---------------------------- MODULE QueueRegistry ----------------------------
(***************************************************************************)
(* The registry of internal queues (src/src/queue.rs).                     *)
(*                                                                         *)
(* initialize_queue_registry walks the listeners of every service, in the  *)
(* order of the sorted services and of each configuration file, and only   *)
(* then shares the registry.  From there on the server thread is the only  *)
(* one to change it, in prepare_delivery, once for each accepted message.  *)
(* An entry that the code's HashMap does not hold yet is the default one.  *)
(***************************************************************************)
EXTENDS Naturals, Sequences

CONSTANTS
  Queues,        \* names of queues, those nobody listens to included
  Subscribers,   \* QueueSubscriber values: a service and a target URL
  Listeners,     \* the declared listeners, in the order they are registered
  MaxCount       \* u64::MAX, where message_count saturates

Listener == [queue : Queues, subscriber : Subscribers]

ASSUME ListenersAssumption == Listeners \in Seq(Listener)
ASSUME MaxCountAssumption == MaxCount \in Nat \ {0}

VARIABLES
  queues,        \* the map of QueueInfo
  registered     \* how many of the listeners have been registered

registryVars == <<queues, registered>>

QueueInfo ==
  [subscribers : Seq(Subscribers), message_count : 0 .. MaxCount,
   instantiated : BOOLEAN]

NewQueue == [subscribers |-> <<>>, message_count |-> 0, instantiated |-> FALSE]

TypeOK ==
  /\ queues \in [Queues -> QueueInfo]
  /\ registered \in 0 .. Len(Listeners)

Holds(seq, e) == \E i \in DOMAIN seq : seq[i] = e

-----------------------------------------------------------------------------
Init ==
  /\ queues = [q \in Queues |-> NewQueue]
  /\ registered = 0

\* Fault: a listener declared twice is subscribed twice.
RegisterTwice(info, subscriber) ==
  [info EXCEPT !.subscribers = Append(@, subscriber)]

(* register_listener on the entry of its queue.                            *)
Subscribed(info, subscriber) ==
  IF Holds(info.subscribers, subscriber)
  THEN info
  ELSE [info EXCEPT !.subscribers = Append(@, subscriber)]

(* One pass of the loops of initialize_queue_registry.                     *)
RegisterListener ==
  /\ registered < Len(Listeners)
  /\ LET next == Listeners[registered + 1]
     IN  queues' = [queues EXCEPT ![next.queue] = Subscribed(@, next.subscriber)]
  /\ registered' = registered + 1

(* initialize_queue_registry has returned the shared registry.             *)
Shared == registered = Len(Listeners)

\* Fault: the sum overflows the counter's type.
Overflowing(info) ==
  [info EXCEPT !.instantiated = TRUE, !.message_count = @ + 1]

SaturatingAdd(n) == IF n < MaxCount THEN n + 1 ELSE n

(* What prepare_delivery does to the entry of its queue.                   *)
Counted(info) ==
  [subscribers |-> info.subscribers,
   message_count |-> SaturatingAdd(info.message_count),
   instantiated |-> TRUE]

(* prepare_delivery: the message is counted, the subscribers are cloned    *)
(* for the caller, who reads them in queues: they no longer change.        *)
PrepareDelivery(q) ==
  /\ Shared
  /\ queues' = [queues EXCEPT ![q] = Counted(@)]
  /\ UNCHANGED registered

(* snapshot lists the queues that have received a message.                 *)
Snapshot == {q \in Queues : queues[q].instantiated}

Next == RegisterListener \/ \E q \in Queues : PrepareDelivery(q)

Spec == Init /\ [][Next]_registryVars

-----------------------------------------------------------------------------
(* Properties.                                                             *)

Declared(q, n) ==
  {Listeners[i].subscriber : i \in {j \in 1 .. n : Listeners[j].queue = q}}

Elements(seq) == {seq[i] : i \in DOMAIN seq}

NoneTwice(seq) == \A i, j \in DOMAIN seq : seq[i] = seq[j] => i = j

(* register_listener's contains test: each subscriber of a queue is there   *)
(* once, however often its service declares it, and every listener that was *)
(* walked over so far is there, so that one message is one call to each.    *)
EachListenerOnce ==
  \A q \in Queues :
    /\ Elements(queues[q].subscribers) = Declared(q, registered)
    /\ NoneTwice(queues[q].subscribers)

(* The dashboard's queue table (snapshot, "Mensajes procesados") lists a    *)
(* queue exactly when it has counted a message: listening to a queue does   *)
(* not make it appear, and a counter at its limit does not make it vanish.  *)
ListedMeansUsed ==
  \A q \in Queues : q \in Snapshot <=> queues[q].message_count > 0

(* A message is always counted or the counter is at its limit already.      *)
CountNeverFalls ==
  [][\A q \in Queues :
       queues'[q].message_count >= queues[q].message_count]_registryVars
=============================================================================
