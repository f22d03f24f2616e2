------------------------ MODULE NotificationService ------------------------
(***************************************************************************)
(* What ClientCallbackServer promises the application that owns it: it is  *)
(* down, up or closing; the registered callback changes only while it is   *)
(* down; notifications arrive only while it is up and are handled by the   *)
(* registered callback; closing ends, and only when none is left in        *)
(* flight.                                                                 *)
(***************************************************************************)
CONSTANTS Calls, Callbacks, NoCallback

VARIABLES
  service,     \* "down", "up" or "closing"
  registered,  \* the application's callback
  rpc          \* per slot: state, and the callback that runs for it

vars == <<service, registered, rpc>>

Idle == [state |-> "idle", with |-> NoCallback]

Init ==
  /\ service = "down"
  /\ registered = NoCallback
  /\ rpc = [n \in Calls |-> Idle]

Register(callback) ==
  /\ service = "down"
  /\ registered' = callback
  /\ UNCHANGED <<service, rpc>>

Open ==
  /\ service = "down"
  /\ service' = "up"
  /\ UNCHANGED <<registered, rpc>>

Close ==
  /\ service = "up"
  /\ service' = "closing"
  /\ UNCHANGED <<registered, rpc>>

Closed ==
  /\ service = "closing"
  /\ \A n \in Calls : rpc[n] = Idle
  /\ service' = "down"
  /\ UNCHANGED <<registered, rpc>>

Arrive(n) ==
  /\ service = "up"
  /\ rpc[n] = Idle
  /\ rpc' = [rpc EXCEPT ![n] = [state |-> "accepted", with |-> NoCallback]]
  /\ UNCHANGED <<service, registered>>

Invoke(n) ==
  /\ rpc[n].state = "accepted"
  /\ registered # NoCallback
  /\ rpc' = [rpc EXCEPT ![n] = [state |-> "running", with |-> registered]]
  /\ UNCHANGED <<service, registered>>

Complete(n) ==
  /\ \/ rpc[n].state = "running"
     \/ rpc[n].state = "accepted" /\ registered = NoCallback
  /\ rpc' = [rpc EXCEPT ![n] = Idle]
  /\ UNCHANGED <<service, registered>>

Next ==
  \/ \E callback \in Callbacks \cup {NoCallback} : Register(callback)
  \/ Open \/ Close \/ Closed
  \/ \E n \in Calls : Arrive(n) \/ Invoke(n) \/ Complete(n)

Safety == Init /\ [][Next]_vars

Spec ==
  /\ Safety
  /\ WF_vars(Closed)
  /\ \A n \in Calls : WF_vars(Invoke(n) \/ Complete(n))
=============================================================================
