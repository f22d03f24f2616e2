------------------------------ MODULE AsyncQuery ------------------------------
(***************************************************************************)
(* What InterfacesClient::QueryAsync promises: a query that was accepted   *)
(* is answered once, through its callback.  A query that has begun keeps   *)
(* the client alive until it is answered; one that finds the client        *)
(* destroyed is told that it was canceled.                                 *)
(***************************************************************************)
CONSTANTS Queries, StatusCodes

VARIABLES
  client,   \* alive, destroyed
  query,    \* new, asked, begun, answered
  told      \* the status of the answer, "none" before

vars == <<client, query, told>>

Init ==
  /\ client = "alive"
  /\ query = [q \in Queries |-> "new"]
  /\ told = [q \in Queries |-> "none"]

Ask(q) ==
  /\ client = "alive" /\ query[q] = "new"
  /\ query' = [query EXCEPT ![q] = "asked"]
  /\ UNCHANGED <<client, told>>

Begin(q) ==
  /\ client = "alive" /\ query[q] = "asked"
  /\ query' = [query EXCEPT ![q] = "begun"]
  /\ UNCHANGED <<client, told>>

Tell(q, status) ==
  /\ query' = [query EXCEPT ![q] = "answered"]
  /\ told' = [told EXCEPT ![q] = status]
  /\ UNCHANGED client

Answer(q) ==
  query[q] = "begun" /\ \E status \in StatusCodes : Tell(q, status)

Cancel(q) ==
  /\ query[q] = "asked" /\ client = "destroyed"
  /\ Tell(q, "operation_canceled")

Destroy ==
  /\ client = "alive" /\ \A q \in Queries : query[q] # "begun"
  /\ client' = "destroyed"
  /\ UNCHANGED <<query, told>>

Resolve(q) == Begin(q) \/ Answer(q) \/ Cancel(q)

Next == Destroy \/ \E q \in Queries : Ask(q) \/ Resolve(q)

Safety == Init /\ [][Next]_vars

Spec == Safety /\ \A q \in Queries : WF_vars(Resolve(q))
=============================================================================
