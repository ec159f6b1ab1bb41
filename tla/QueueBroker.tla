----------------------------- MODULE QueueBroker -----------------------------
(***************************************************************************)
(* What the runner's queue endpoint promises, without saying how.          *)
(*                                                                         *)
(* Messages are accepted one after the other.  Each is offered once to     *)
(* every subscriber of its queue, in the order of the subscribers, before  *)
(* its publisher gets the acknowledgement and before the next message is   *)
(* accepted, so every subscriber is offered the messages in one and the    *)
(* same order.  An offer is one call; nothing promises that it succeeds.   *)
(***************************************************************************)
EXTENDS Naturals, Sequences

CONSTANTS
  Queues,    \* names of queues
  Fanout     \* the number of subscribers of each queue

VARIABLES
  accepted,  \* the queues of the messages accepted so far, in order
  offered,   \* how many subscribers the last message was offered to
  acked      \* how many messages were acknowledged

brokerVars == <<accepted, offered, acked>>

Init == accepted = <<>> /\ offered = 0 /\ acked = 0

InDelivery == acked < Len(accepted)

Accept(q) ==
  /\ ~InDelivery
  /\ accepted' = Append(accepted, q)
  /\ offered' = 0
  /\ UNCHANGED acked

Offer ==
  /\ InDelivery
  /\ offered < Fanout[accepted[Len(accepted)]]
  /\ offered' = offered + 1
  /\ UNCHANGED <<accepted, acked>>

Acknowledge ==
  /\ InDelivery
  /\ offered = Fanout[accepted[Len(accepted)]]
  /\ acked' = acked + 1
  /\ UNCHANGED <<accepted, offered>>

Next == Offer \/ Acknowledge \/ \E q \in Queues : Accept(q)

Spec == Init /\ [][Next]_brokerVars
=============================================================================
