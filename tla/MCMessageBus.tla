---------------------------- MODULE MCMessageBus ----------------------------
(***************************************************************************)
(* Two queues, one of them not there at first, a message to each, and two  *)
(* changes.  Of the implemented consumers the one that may fail is enough: *)
(* the event bus consumer does what a store that does not fail does.       *)
(***************************************************************************)
EXTENDS MessageBus

MCConsumer == {"store", "redis"}
MCImplemented == {"store"}
MCTo == [p \in Pusher |-> IF p = "p1" THEN "q1" ELSE "q2"]
MCBoots == {[q1 |-> "store", q2 |-> "deleted"]}
MCPusher == {"p1", "p2"}
MCQueue == {"q1", "q2"}
=============================================================================
