---------------------------- MODULE MCSubscription ----------------------------
(* An application with two notifications in flight, two ports, two starts. *)
EXTENDS Subscription

CONSTANTS n1, n2, k1

MCCalls == {n1, n2}
MCCallbacks == {k1}
MCPorts == {1, 2}
=============================================================================
