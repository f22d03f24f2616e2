-------------------------- MODULE InterfacesClient --------------------------
(***************************************************************************)
(* InterfacesClient: the application's gRPC client for the robot's SDK     *)
(* server (source/robot/client/interfaces_client.cpp): its connection, its *)
(* blocking calls, and QueryAsync, whose detached workers share the object *)
(* with the application through weak_ptr.                                  *)
(*                                                                         *)
(* The object has no lock: every statement that reads or writes a field of *)
(* InterfacesClientImpl is a step.  The five RPC methods open in the same  *)
(* way - IsConnected, then a call on the stub - and differ in how they     *)
(* end: "query" (Query, Unsubscribe) blocks at most until its deadline,    *)
(* "subscribe" (Subscribe with its default timeout 0) has no deadline, and *)
(* "stream" (Send, Action) returns as soon as the stream is open.          *)
(*                                                                         *)
(* The network is external: channels become ready or not, calls end with   *)
(* an answer or an error.  A call made on a live stub keeps the channel    *)
(* through its ClientContext, so only its start needs the stub.            *)
(***************************************************************************)
EXTENDS Integers, Status

CONSTANTS
  Apps,         \* application threads, each with a reference to the client
  Requests,     \* QueryAsync calls, each with the worker it starts
  Endings,      \* the gRPC codes calls end with
  Owners,       \* how the application owns the client: shared, unique
  Exclusive,    \* TRUE: connecting and disconnecting overlap no other call
  MaxConnects   \* bound: channels made

ASSUME EndingsAssumption == Endings \subseteq GrpcCodes
ASSUME OwnersAssumption == Owners \subseteq {"shared", "unique"}
ASSUME ExclusiveAssumption == Exclusive \in BOOLEAN
ASSUME MaxConnectsAssumption == MaxConnects \in Nat
ASSUME ActorsAssumption == Apps # {} /\ Apps \cap Requests = {}

Actors == Apps \cup Requests
ChannelOrNull == 0 .. MaxConnects

VARIABLES
  owner,      \* unique_ptr or shared_ptr
  configured, \* loaded_config_ holds what Connect looks up
  holders,    \* the references that keep the object alive
  channel,    \* channel_: which channel, 0 when null
  stub,       \* stub_: the channel it was made for, 0 when null
  connected,  \* connected_
  attempts,   \* channels made so far
  pc,         \* each actor's next statement
  op,         \* the method an actor runs
  seen,       \* the stub an actor read from stub_
  result,     \* the status, or exception, an actor last got
  asked,      \* history: was the client connected when QueryAsync was called
  outcome,    \* history: how a request's call ended, if it was made
  callbacks,  \* times a request's callback ran
  fault       \* the undefined behaviour met, if any

fields == <<channel, stub, connected, attempts>>
asyncVars == <<asked, callbacks>>
vars == <<owner, configured, holders, fields, pc, op, seen, result, outcome,
          asyncVars, fault>>

\* Where an actor's next statement is: of Connect, of Disconnect, of a call,
\* or, outside the client's methods, at rest or in a worker.
Linking == {"configure", "channel", "stub", "mark", "ready"}
Unlinking == {"reset_stub", "reset_channel", "unmark"}
Calling == {"check", "load", "invoke", "wait"}
Inside == Linking \cup Unlinking \cup Calling
Resting == {"idle", "gone", "unused", "finished"}
Places == Inside \cup Resting \cup {"lock", "deliver", "drop"}

CallMethods == {"query", "subscribe", "stream"}
LinkMethods == {"connect", "disconnect"}
Methods == {"none"} \cup LinkMethods \cup CallMethods
Results == StatusCodes \cup {"none", "bad_weak_ptr", "no_thread"}

TypeOK ==
  /\ owner \in {"shared", "unique"} /\ configured \in BOOLEAN
  /\ holders \subseteq Actors
  /\ channel \in ChannelOrNull /\ stub \in ChannelOrNull
  /\ connected \in BOOLEAN /\ attempts \in ChannelOrNull
  /\ pc \in [Actors -> Places] /\ op \in [Actors -> Methods]
  /\ seen \in [Actors -> ChannelOrNull]
  /\ result \in [Actors -> Results]
  /\ outcome \in [Requests -> {"unsent", "pending"} \cup GrpcCodes]
  /\ asked \in [Requests -> {"never", "connected", "disconnected"}]
  /\ callbacks \in [Requests -> 0 .. 1]
  /\ fault \in {"none", "null_stub", "freed_stub"}

\* The constructed client; its constructor read the configuration, or not.
Init ==
  /\ owner \in Owners /\ configured \in BOOLEAN
  /\ holders = Apps
  /\ channel = 0 /\ stub = 0 /\ connected = FALSE /\ attempts = 0
  /\ pc = [x \in Actors |-> IF x \in Apps THEN "idle" ELSE "unused"]
  /\ op = [x \in Actors |-> IF x \in Apps THEN "none" ELSE "query"]
  /\ seen = [x \in Actors |-> 0]
  /\ result = [x \in Actors |-> "none"]
  /\ asked = [r \in Requests |-> "never"]
  /\ outcome = [r \in Requests |-> "unsent"]
  /\ callbacks = [r \in Requests |-> 0]
  /\ fault = "none"

-----------------------------------------------------------------------------
IsConnected == connected /\ channel # 0 /\ stub # 0

\* Nothing is said of a program that has met undefined behaviour.
At(x, label) == fault = "none" /\ pc[x] = label

Goto(x, label) ==
  /\ pc' = [pc EXCEPT ![x] = label]
  /\ UNCHANGED <<op, result>>

\* A method returns: to the application, or to the worker that called Query.
Return(x, value) ==
  /\ pc' = [pc EXCEPT ![x] = IF x \in Apps THEN "idle" ELSE "deliver"]
  /\ op' = [op EXCEPT ![x] = IF x \in Apps THEN "none" ELSE @]
  /\ result' = [result EXCEPT ![x] = value]

\* What no step of a connection or a call touches.
Setting == <<owner, configured, asyncVars>>
Ownership == <<Setting, holders, outcome>>

\* How a worker's call stands.
Becomes(x, code) ==
  outcome' = IF x \in Requests THEN [outcome EXCEPT ![x] = code] ELSE outcome

Enter(a, method, label) ==
  /\ At(a, "idle")
  /\ pc' = [pc EXCEPT ![a] = label]
  /\ op' = [op EXCEPT ![a] = method]
  /\ UNCHANGED <<Ownership, fields, seen, result, fault>>

AtRest(x) == pc[x] \in Resting

\* The discipline of an application that gives its threads one connection.
MayReconnect(a) == Exclusive => \A x \in Actors \ {a} : AtRest(x)
MayCall == Exclusive => \A a \in Apps : op[a] \notin LinkMethods

(***************************************************************************)
(* Connect.  A failure leaves behind whatever had been set by then.        *)
(***************************************************************************)
Connect(a) ==
  attempts < MaxConnects /\ MayReconnect(a) /\ Enter(a, "connect", "configure")

\* A missing setting makes std::stoi throw.
Configure(a) ==
  /\ At(a, "configure")
  /\ IF configured THEN Goto(a, "channel") ELSE Return(a, "connection_refused")
  /\ UNCHANGED <<Ownership, fields, seen, fault>>

CreateChannel(a) ==
  /\ At(a, "channel") /\ attempts < MaxConnects
  /\ channel' = attempts + 1 /\ attempts' = attempts + 1
  /\ Goto(a, "stub")
  /\ UNCHANGED <<Ownership, stub, connected, seen, fault>>

ChannelFails(a) ==
  /\ At(a, "channel")
  /\ channel' = 0
  /\ Return(a, "connection_refused")
  /\ UNCHANGED <<Ownership, stub, connected, attempts, seen, fault>>

\* Fault: a stub that exists is kept.
CreateStubOnce(a) ==
  /\ At(a, "stub")
  /\ stub' = IF stub = 0 THEN channel ELSE stub
  /\ Goto(a, "mark")
  /\ UNCHANGED <<Ownership, channel, connected, attempts, seen, fault>>

\* Fault: the stub is made for the channel after this one.
CreateStubNext(a) ==
  /\ At(a, "stub")
  /\ stub' = channel + 1
  /\ Goto(a, "mark")
  /\ UNCHANGED <<Ownership, channel, connected, attempts, seen, fault>>

CreateStub(a) ==
  /\ At(a, "stub")
  /\ stub' = channel
  /\ Goto(a, "mark")
  /\ UNCHANGED <<Ownership, channel, connected, attempts, seen, fault>>

StubFails(a) ==
  /\ At(a, "stub")
  /\ stub' = 0
  /\ Return(a, "connection_refused")
  /\ UNCHANGED <<Ownership, channel, connected, attempts, seen, fault>>

MarkConnected(a) ==
  /\ At(a, "mark")
  /\ connected' = TRUE
  /\ Goto(a, "ready")
  /\ UNCHANGED <<Ownership, channel, stub, attempts, seen, fault>>

\* WaitForChannelReady (module ChannelReady) ends either way.
AwaitReady(a) ==
  /\ At(a, "ready")
  /\ \/ channel # 0 /\ Return(a, "success")
     \/ Return(a, "connection_refused")
  /\ UNCHANGED <<Ownership, fields, seen, fault>>

(***************************************************************************)
(* Disconnect.                                                             *)
(***************************************************************************)
Disconnect(a) == MayReconnect(a) /\ Enter(a, "disconnect", "reset_stub")

ResetStub(a) ==
  /\ At(a, "reset_stub")
  /\ stub' = 0
  /\ Goto(a, "reset_channel")
  /\ UNCHANGED <<Ownership, channel, connected, attempts, seen, fault>>

ResetChannel(a) ==
  /\ At(a, "reset_channel")
  /\ channel' = 0
  /\ Goto(a, "unmark")
  /\ UNCHANGED <<Ownership, stub, connected, attempts, seen, fault>>

Unmark(a) ==
  /\ At(a, "unmark")
  /\ connected' = FALSE
  /\ Return(a, "success")
  /\ UNCHANGED <<Ownership, channel, stub, attempts, seen, fault>>

-----------------------------------------------------------------------------
(***************************************************************************)
(* The RPC methods, run by the application or by a worker.                 *)
(***************************************************************************)
Call(a) ==
  \E method \in CallMethods :
    MayCall /\ Enter(a, method, "check")

\* Fault: the calls do not look at the connection.
CheckNothing(x) ==
  /\ At(x, "check")
  /\ Goto(x, "load")
  /\ UNCHANGED <<Ownership, fields, seen, fault>>

Check(x) ==
  /\ At(x, "check")
  /\ IF IsConnected THEN Goto(x, "load") ELSE Return(x, "not_connected")
  /\ UNCHANGED <<Ownership, fields, seen, fault>>

\* The stub may have been reset since the check.
LoadStub(x) ==
  /\ At(x, "load")
  /\ seen' = [seen EXCEPT ![x] = stub]
  /\ fault' = IF stub = 0 THEN "null_stub" ELSE fault
  /\ Goto(x, "invoke")
  /\ UNCHANGED <<Ownership, fields>>

\* Stub::Query and its like use the object read above.
Invoke(x) ==
  /\ At(x, "invoke")
  /\ fault' = IF stub # seen[x] THEN "freed_stub" ELSE fault
  /\ seen' = [seen EXCEPT ![x] = 0]
  /\ IF op[x] # "stream" THEN Goto(x, "wait") /\ Becomes(x, "pending")
     ELSE (Return(x, "success") \/ Return(x, "io_error")) /\ UNCHANGED outcome
  /\ UNCHANGED <<Setting, holders, fields>>

\* External: the server's answer, or a failure of the transport.
RpcEnds(x) ==
  /\ At(x, "wait")
  /\ \E code \in Endings : Return(x, ConvertGrpcStatus(code)) /\ Becomes(x, code)
  /\ UNCHANGED <<Setting, holders, fields, seen, fault>>

\* Fault: the deadline is forgotten.
NoDeadline(method) == FALSE

HasDeadline(method) == method = "query"

RpcExpires(x) ==
  /\ At(x, "wait") /\ HasDeadline(op[x])
  /\ Return(x, ConvertGrpcStatus("DEADLINE_EXCEEDED"))
  /\ Becomes(x, "DEADLINE_EXCEEDED")
  /\ UNCHANGED <<Setting, holders, fields, seen, fault>>

-----------------------------------------------------------------------------
(***************************************************************************)
(* QueryAsync and its worker.                                              *)
(***************************************************************************)
\* shared_from_this throws when no shared_ptr owns the client.
QueryAsyncUnowned(a) ==
  /\ At(a, "idle") /\ owner = "unique"
  /\ Return(a, "bad_weak_ptr")
  /\ UNCHANGED <<Ownership, fields, seen, fault>>

QueryAsyncNoThread(a) ==
  /\ At(a, "idle") /\ MayCall /\ owner = "shared"
  /\ Return(a, "no_thread")
  /\ UNCHANGED <<Ownership, fields, seen, fault>>

QueryAsync(a, r) ==
  /\ At(a, "idle") /\ MayCall /\ owner = "shared" /\ pc[r] = "unused"
  /\ pc' = [pc EXCEPT ![r] = "lock"]
  /\ result' = [result EXCEPT ![a] = "success"]
  /\ asked' = [asked EXCEPT
                 ![r] = IF IsConnected THEN "connected" ELSE "disconnected"]
  /\ UNCHANGED <<owner, configured, holders, outcome, fields, op, seen,
                 callbacks, fault>>

\* Fault: the worker keeps a plain pointer to the client.
LockNothing(r) ==
  /\ At(r, "lock")
  /\ Goto(r, "check")
  /\ UNCHANGED <<Ownership, fields, seen, fault>>

\* Fault: a client that is not connected counts as destroyed.
LockIfConnected(r) ==
  /\ At(r, "lock")
  /\ IF IsConnected
     THEN holders' = holders \cup {r} /\ Goto(r, "check")
     ELSE Return(r, "operation_canceled") /\ UNCHANGED holders
  /\ UNCHANGED <<Setting, outcome, fields, seen, fault>>

Lock(r) ==
  /\ At(r, "lock")
  /\ IF holders # {}
     THEN holders' = holders \cup {r} /\ Goto(r, "check")
     ELSE Return(r, "operation_canceled") /\ UNCHANGED holders
  /\ UNCHANGED <<Setting, outcome, fields, seen, fault>>

\* Fault: the callback of a canceled request is not run.
DeliverAnswers(r) ==
  /\ At(r, "deliver")
  /\ callbacks' = [callbacks EXCEPT
                     ![r] = IF result[r] = "operation_canceled" THEN @ ELSE @ + 1]
  /\ Goto(r, "drop")
  /\ UNCHANGED <<owner, configured, holders, outcome, asked, fields, seen,
                 fault>>

Deliver(r) ==
  /\ At(r, "deliver")
  /\ callbacks' = [callbacks EXCEPT ![r] = @ + 1]
  /\ Goto(r, "drop")
  /\ UNCHANGED <<owner, configured, holders, outcome, asked, fields, seen,
                 fault>>

\* Dropping the last reference destroys the client, on whichever thread.
DropReference(x) ==
  /\ holders' = holders \ {x}
  /\ IF holders' = {}
     THEN channel' = 0 /\ stub' = 0 /\ connected' = FALSE
     ELSE UNCHANGED <<channel, stub, connected>>
  /\ UNCHANGED <<Setting, outcome, attempts, seen, fault>>

Drop(r) == At(r, "drop") /\ DropReference(r) /\ Goto(r, "finished")

\* Fault: the application's last act is a Disconnect.
ReleaseDisconnects(a) ==
  /\ At(a, "idle")
  /\ holders' = holders \ {a}
  /\ channel' = 0 /\ stub' = 0 /\ connected' = FALSE
  /\ Goto(a, "gone")
  /\ UNCHANGED <<Setting, outcome, attempts, seen, fault>>

Release(a) == At(a, "idle") /\ DropReference(a) /\ Goto(a, "gone")

-----------------------------------------------------------------------------
Begin(a) ==
  \/ Connect(a) \/ Disconnect(a) \/ Call(a) \/ Release(a)
  \/ QueryAsyncUnowned(a) \/ QueryAsyncNoThread(a)
  \/ \E r \in Requests : QueryAsync(a, r)

Continue(a) ==
  \/ Configure(a) \/ CreateChannel(a) \/ ChannelFails(a)
  \/ CreateStub(a) \/ StubFails(a) \/ MarkConnected(a) \/ AwaitReady(a)
  \/ ResetStub(a) \/ ResetChannel(a) \/ Unmark(a)

Perform(x) == Check(x) \/ LoadStub(x) \/ Invoke(x)

Work(r) == Lock(r) \/ Deliver(r) \/ Drop(r)

Next ==
  \/ \E a \in Apps : Begin(a) \/ Continue(a)
  \/ \E r \in Requests : Work(r)
  \/ \E x \in Actors : Perform(x) \/ RpcEnds(x) \/ RpcExpires(x)

Spec == Init /\ [][Next]_vars

(***************************************************************************)
(* Threads run and deadlines pass.  No answer is assumed, and no           *)
(* application has to make a call.                                         *)
(***************************************************************************)
Fairness ==
  /\ \A a \in Apps : WF_vars(Continue(a))
  /\ \A r \in Requests : WF_vars(Work(r))
  /\ \A x \in Actors : WF_vars(Perform(x)) /\ WF_vars(RpcExpires(x))

FairSpec == Spec /\ Fairness

-----------------------------------------------------------------------------
\* No call goes through a stub that was never made, or was reset under it.
CallsUseLiveStub == fault = "none"

\* An actor inside a method of the client holds a reference to it: releasing
\* the application's references during a QueryAsync does not destroy the
\* client under the worker.
ClientOutlivesUse ==
  \A x \in Actors : pc[x] \in Inside => x \in holders

\* Between connections, a client that says it is connected makes its calls on
\* the channel whose state it reports, also after a reconnect or a failed one.
ConnectedIsUsable ==
  IsConnected /\ (\A a \in Apps : op[a] # "connect") => stub = channel

\* A request's status says how its call ended: success only for an answer,
\* not_connected only for a call never made, operation_canceled only for a call
\* gRPC canceled or a client destroyed before the worker could use it.
StatusTellsOutcome ==
  \A r \in Requests :
    /\ result[r] = "success" => outcome[r] = "OK"
    /\ result[r] = "not_connected" => outcome[r] = "unsent"
    /\ result[r] = "operation_canceled" =>
         outcome[r] = "CANCELLED" \/ (outcome[r] = "unsent" /\ holders = {})

\* A query sees the connection it was asked on: with one asked while
\* connected, neither another thread's release nor a late worker turns it into
\* not_connected, and one asked while disconnected never succeeds.
QueryKeepsItsConnection ==
  \A r \in Requests :
    /\ result[r] = "not_connected" => asked[r] = "disconnected"
    /\ asked[r] = "disconnected" =>
         result[r] \in {"none", "not_connected", "operation_canceled"}
           /\ outcome[r] = "unsent"

(***************************************************************************)
(* A request is an asynchronous query of AsyncQuery, begun when its worker *)
(* holds the client and answered when its callback has run.                *)
(***************************************************************************)
Progress(r) ==
  CASE pc[r] = "unused" -> "new"
    [] callbacks[r] = 1 -> "answered"
    [] callbacks[r] # 1 /\ r \in holders -> "begun"
    [] OTHER -> "asked"

Life == IF holders = {} THEN "destroyed" ELSE "alive"

Told(r) == IF callbacks[r] = 1 THEN result[r] ELSE "none"

Query == INSTANCE AsyncQuery
  WITH Queries <- Requests,
       client <- Life,
       query <- [r \in Requests |-> Progress(r)],
       told <- [r \in Requests |-> Told(r)]

\* Every accepted QueryAsync gets its callback once, even when the client is
\* released first and when the server never answers, and the client lives
\* until the callbacks of the queries it began have run.
ImplementsQuery == Query!Spec

\* Connect, Disconnect, Query and Unsubscribe return, also from a silent
\* server.
CallsReturn ==
  \A a \in Apps :
    op[a] \in {"connect", "disconnect", "query"} ~> op[a] = "none"

-----------------------------------------------------------------------------
(***************************************************************************)
(* The inductive invariants: one of every application, and one of those    *)
(* that keep the discipline Exclusive.                                     *)
(***************************************************************************)
\* Each actor is at a statement of the method it runs.
PlacesMatch ==
  /\ \A a \in Apps :
       \/ pc[a] \in {"idle", "gone"} /\ op[a] = "none"
       \/ pc[a] \in Linking /\ op[a] = "connect"
       \/ pc[a] \in Unlinking /\ op[a] = "disconnect"
       \/ pc[a] \in Calling /\ op[a] \in CallMethods
  /\ \A r \in Requests :
       /\ pc[r] \in Calling \cup {"unused", "lock", "deliver", "drop", "finished"}
       /\ op[r] = "query"

\* Who connects or disconnects is alone in the client.
LinkingIsAlone ==
  \A a \in Apps : op[a] \in LinkMethods =>
    \A x \in Actors \ {a} : AtRest(x)

\* Applications hold the client until they release it, workers while they call.
UsersHold ==
  /\ \A a \in Apps : a \in holders <=> pc[a] # "gone"
  /\ \A r \in Requests :
       /\ pc[r] \in Calling => r \in holders
       /\ r \in holders => pc[r] \in Calling \cup {"deliver", "drop"}
       /\ pc[r] = "deliver" /\ r \notin holders =>
            result[r] = "operation_canceled" /\ holders = {}

\* Only between CreateChannel and CreateStub may the two differ unseen.
FieldsAgree ==
  /\ IsConnected /\ (\A a \in Apps : pc[a] # "stub") => stub = channel
  /\ \A a \in Apps : pc[a] \in {"mark", "ready"} => stub = channel

\* A call past its check finds the stub it was checked for.
StubStays ==
  /\ fault = "none"
  /\ \A x \in Actors :
       /\ pc[x] \in {"load", "invoke"} => stub # 0
       /\ pc[x] = "invoke" => seen[x] = stub

\* A request has a result once its call is over, and its callback has run once
\* its worker is past it.
RequestsKeepUp ==
  \A r \in Requests :
    /\ pc[r] \in Calling \cup {"unused", "lock"} => result[r] = "none"
    /\ pc[r] \in {"unused", "lock", "check", "load", "invoke"} =>
         outcome[r] = "unsent"
    /\ callbacks[r] = IF pc[r] \in {"drop", "finished"} THEN 1 ELSE 0
    /\ pc[r] = "deliver" => result[r] \in StatusCodes
    /\ pc[r] # "unused" => asked[r] # "never"

\* A request meets the connection it was asked on, unless the client is gone
\* by then.
RequestsMeetTheirConnection ==
  \A r \in Requests :
    /\ asked[r] = "connected" =>
         /\ pc[r] = "lock" => IsConnected \/ holders = {}
         /\ pc[r] = "check" => IsConnected
    /\ asked[r] = "disconnected" =>
         /\ pc[r] \in {"lock", "check"} => ~IsConnected
         /\ pc[r] \notin {"load", "invoke", "wait"}

\* Inductive whatever the threads do to each other's connection.
Consistent ==
  TypeOK /\ PlacesMatch /\ UsersHold /\ RequestsKeepUp /\ StatusTellsOutcome

\* What the discipline adds.
Disciplined ==
  /\ LinkingIsAlone /\ FieldsAgree /\ StubStays
  /\ RequestsMeetTheirConnection /\ QueryKeepsItsConnection

IInv == Consistent /\ Disciplined
=============================================================================
