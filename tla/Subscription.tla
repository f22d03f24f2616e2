----------------------------- MODULE Subscription -----------------------------
(***************************************************************************)
(* An application that subscribes: its callback server and its client      *)
(* together, with the SDK server between them.  The client sends Subscribe *)
(* with the endpoint of the callback server, the SDK server pushes to that *)
(* endpoint, and the callback that handles a push runs on a thread of its  *)
(* own and may itself use the client or stop the server                    *)
(* (client_callback_server.cpp, interfaces_client.cpp).                    *)
(*                                                                         *)
(* A callback that stops the server is a second caller of it, so the       *)
(* server's fields are here, and its start and Stop take the steps between *)
(* which the two callers see each other.  Without such callbacks it is a   *)
(* NotificationService, as CallbackServer is.  Connecting and the races of *)
(* a reconnect are the subject of InterfacesClient: one step here.         *)
(***************************************************************************)
EXTENDS Integers

CONSTANTS
  App,           \* the thread that owns the server and the client
  Calls,         \* notifications handled at the same time
  Callbacks, NoCallback,
  Ports,         \* ports a start may be given or assigned
  MaxSessions,   \* bound: successful starts
  StopFirst,     \* TRUE: the application disconnects a stopped server only
  CallbacksStop  \* TRUE: a callback may call Stop

ASSUME AppAssumption == App \notin Calls
ASSUME PortsAssumption == Ports \subseteq Nat \ {0}
ASSUME MaxSessionsAssumption == MaxSessions \in Nat
ASSUME StopFirstAssumption == StopFirst \in BOOLEAN
ASSUME CallbacksStopAssumption == CallbacksStop \in BOOLEAN

Threads == {App} \cup Calls

VARIABLES
  server,        \* server_: "null", "shut" (a server shut down) or "live"
  running,       \* running_
  endpoint,      \* the port GetClientEndpoint names, 0 when it names none
  registered,    \* message_callback_
  start,         \* the port and the kind of the start in progress
  service,       \* the gRPC server last built: "down", "up" or "closing"
  implCallback,  \* the callback its service copied
  bound,         \* the port it is bound to
  session,       \* history: servers built
  rpc,           \* notifications: state, and the callback that runs
  connected,     \* the client has its stub
  doing,         \* what a thread does
  request,       \* the call a thread makes, or has made last
  subs,          \* the subscriptions of the SDK server
  fault

fieldVars == <<server, running, endpoint, registered, start>>
grpcVars == <<service, implCallback, bound, session, rpc>>
clientVars == <<connected, request, subs, fault>>
vars == <<fieldVars, grpcVars, doing, clientVars>>

\* The server seen by an application whose callbacks do not stop it.
Service == INSTANCE NotificationService

Methods == {"subscribe", "unsubscribe"}

Requests == [method : Methods, timed : BOOLEAN]

NoRequest == [method |-> "none", timed |-> TRUE]
StopRequest == [method |-> "stop", timed |-> FALSE]

NoStart == [port |-> 0, auto |-> FALSE]

NoRpc == [state |-> "idle", with |-> NoCallback]

\* Where a subscription pushes to, and the session it was requested in, 0 when
\* the server was not up.
Targets == [port : Ports, session : 0 .. MaxSessions]

\* "build" to "publish" are the steps of a start, "check" to "wait" those of a
\* client call; a Stop is in Shutdown of the live server or, "stale", in that
\* of a server that was shut down before.
Activities == {"nothing", "build", "assign", "publish", "stop", "stale",
               "check", "use", "wait"}

TypeOK ==
  /\ server \in {"null", "shut", "live"} /\ running \in BOOLEAN
  /\ endpoint \in {0} \cup Ports
  /\ start \in [port : {0} \cup Ports, auto : BOOLEAN]
  /\ service \in {"down", "up", "closing"}
  /\ registered \in Callbacks \cup {NoCallback}
  /\ implCallback \in Callbacks \cup {NoCallback}
  /\ bound \in {0} \cup Ports /\ session \in 0 .. MaxSessions
  /\ rpc \in [Calls -> [state : {"idle", "accepted", "running"},
                        with : Callbacks \cup {NoCallback}]]
  /\ connected \in BOOLEAN
  /\ doing \in [Threads -> Activities]
  /\ request \in [Threads -> Requests \cup {NoRequest, StopRequest}]
  /\ subs \subseteq Targets
  /\ fault \in {"none", "null_stub", "server_in_use"}

Init ==
  /\ server = "null" /\ running = FALSE /\ endpoint = 0
  /\ registered = NoCallback /\ start = NoStart
  /\ service = "down" /\ implCallback = NoCallback
  /\ bound = 0 /\ session = 0
  /\ rpc = [n \in Calls |-> NoRpc]
  /\ connected = TRUE
  /\ doing = [x \in Threads |-> "nothing"]
  /\ request = [x \in Threads |-> NoRequest]
  /\ subs = {}
  /\ fault = "none"

-----------------------------------------------------------------------------
(***************************************************************************)
(* The owner's thread and the callback server.                             *)
(***************************************************************************)
Sound == fault = "none"

At(x, activity) == Sound /\ doing[x] = activity

Idle == At(App, "nothing")

Goto(x, activity) == doing' = [doing EXCEPT ![x] = activity]

NoneInFlight == \A n \in Calls : rpc[n] = NoRpc

Register(callback) ==
  /\ Idle /\ ~running
  /\ registered' = callback
  /\ UNCHANGED <<server, running, endpoint, start, grpcVars, doing, clientVars>>

\* Fault: a port that was published once is not replaced.
StartKeepsEndpoint(given, auto) ==
  /\ Idle /\ ~running /\ session < MaxSessions
  /\ start' = [port |-> given, auto |-> auto]
  /\ endpoint' = IF endpoint # 0 THEN endpoint ELSE given
  /\ implCallback' = registered
  /\ Goto(App, "build")
  /\ fault' = IF NoneInFlight THEN fault ELSE "server_in_use"
  /\ UNCHANGED <<server, running, registered, service, bound, session, rpc,
                 connected, request, subs>>

\* Start and StartWithAutoPort up to BuildAndStart: the port given is published
\* and the service replaced; the handlers of the one before would go on in a
\* destroyed object.
StartBegins(given, auto) ==
  /\ Idle /\ ~running /\ session < MaxSessions
  /\ start' = [port |-> given, auto |-> auto]
  /\ endpoint' = given
  /\ implCallback' = registered
  /\ Goto(App, "build")
  /\ fault' = IF NoneInFlight THEN fault ELSE "server_in_use"
  /\ UNCHANGED <<server, running, registered, service, bound, session, rpc,
                 connected, request, subs>>

\* Fault: a failed start marks the port as unusable.
StartFailsMarked ==
  /\ At(App, "build")
  /\ server' = "null" /\ endpoint' = -1
  /\ start' = NoStart /\ Goto(App, "nothing")
  /\ UNCHANGED <<running, registered, grpcVars, clientVars>>

\* BuildAndStart returns null; the port given stays published.
StartFails ==
  /\ At(App, "build")
  /\ server' = "null"
  /\ start' = NoStart /\ Goto(App, "nothing")
  /\ UNCHANGED <<running, endpoint, registered, grpcVars, clientVars>>

\* BuildAndStart: the server serves before the call returns; 0 is bound to any
\* port.
Serve ==
  /\ At(App, "build")
  /\ service' = "up" /\ session' = session + 1
  /\ bound' \in IF start.port = 0 THEN Ports ELSE {start.port}
  /\ Goto(App, "assign")
  /\ UNCHANGED <<fieldVars, implCallback, rpc, clientVars>>

\* The server built is assigned to server_, which destroys the one before: a
\* callback's Stop may be about to shut that one down.
Assign ==
  /\ At(App, "assign")
  /\ server' = "live"
  /\ Goto(App, "publish")
  /\ fault' = IF \E n \in Calls : doing[n] = "stale"
              THEN "server_in_use" ELSE fault
  /\ UNCHANGED <<running, endpoint, registered, start, grpcVars, connected,
                 request, subs>>

\* Fault: only Start says that the server runs.
AutoStartForgets ==
  /\ At(App, "publish")
  /\ endpoint' = IF start.auto THEN bound ELSE endpoint
  /\ running' = (running \/ ~start.auto)
  /\ start' = NoStart /\ Goto(App, "nothing")
  /\ UNCHANGED <<server, registered, grpcVars, clientVars>>

\* StartWithAutoPort publishes the port bound; running_ is set, whatever Stop
\* a callback called since BuildAndStart.  The server thread only waits.
Publish ==
  /\ At(App, "publish")
  /\ endpoint' = IF start.auto THEN bound ELSE endpoint
  /\ running' = TRUE
  /\ start' = NoStart /\ Goto(App, "nothing")
  /\ UNCHANGED <<server, registered, grpcVars, clientVars>>

\* Stop clears running_, then shuts down what server_ holds at this moment: the
\* live server lets no further notification in, and a second Shutdown waits
\* for the first.
Stop(x) ==
  /\ running' = FALSE
  /\ \/ server = "null" /\ UNCHANGED <<service, doing>>
     \/ server = "shut" /\ Goto(x, "stale") /\ UNCHANGED service
     \/ server = "live" /\ Goto(x, "stop") /\ service' = "closing"
  /\ UNCHANGED <<server, endpoint, registered, start, implCallback, bound,
                 session, rpc, connected, subs, fault>>

\* Fault: Stop does not wait for the handlers.
StopReturnsEarly(x) ==
  /\ Sound /\ doing[x] \in {"stop", "stale"}
  /\ IF doing[x] = "stop"
     THEN service' = "down" /\ server' = "shut"
     ELSE UNCHANGED <<service, server>>
  /\ Goto(x, "nothing")
  /\ UNCHANGED <<running, endpoint, registered, start, implCallback, bound,
                 session, rpc, clientVars>>

\* Shutdown and join return when no handler is left, at once for a server that
\* was shut down before.
StopReturns(x) ==
  /\ \/ At(x, "stale") /\ UNCHANGED <<service, server>>
     \/ /\ At(x, "stop") /\ NoneInFlight
        /\ service' = "down" /\ server' = "shut"
  /\ Goto(x, "nothing")
  /\ UNCHANGED <<running, endpoint, registered, start, implCallback, bound,
                 session, rpc, clientVars>>

-----------------------------------------------------------------------------
(***************************************************************************)
(* The client, used by the owner and from callbacks.                       *)
(***************************************************************************)
\* Fault: no call has a deadline.
TimeoutsForgotten(method) == {FALSE}

\* Subscribe takes any timeout and 0 for none, Unsubscribe always has one.
Timeouts(method) == IF method = "unsubscribe" THEN {TRUE} ELSE BOOLEAN

Call(x) ==
  /\ \E method \in Methods : \E timed \in Timeouts(method) :
       request' = [request EXCEPT ![x] = [method |-> method, timed |-> timed]]
  /\ Goto(x, "check")
  /\ UNCHANGED <<fieldVars, grpcVars, connected, subs, fault>>

\* A callback keeps its request until it ends: it makes one call at most.
CallReturns(x) ==
  /\ Goto(x, "nothing")
  /\ request' = [request EXCEPT ![x] = IF x = App THEN NoRequest ELSE @]
  /\ UNCHANGED <<fieldVars, grpcVars, connected, subs, fault>>

Check(x) ==
  /\ At(x, "check")
  /\ \/ /\ connected
        /\ Goto(x, "use")
        /\ UNCHANGED <<fieldVars, grpcVars, clientVars>>
     \/ ~connected /\ CallReturns(x)

\* External: the SDK server takes the endpoint of a subscription, or misses
\* the request.  It may get to it late: what it makes of a subscription, the
\* push, comes at any time.
Target == [port |-> endpoint, session |-> IF service = "up" THEN session ELSE 0]

SdkReceives(method) ==
  \/ method = "subscribe" /\ endpoint # 0 /\ subs' = subs \cup {Target}
  \/ method = "unsubscribe" /\ \E s \in subs : subs' = subs \ {s}
  \/ UNCHANGED subs

\* The stub may have been reset since the check.
Use(x) ==
  /\ At(x, "use")
  /\ Goto(x, "wait")
  /\ IF connected
     THEN SdkReceives(request[x].method) /\ UNCHANGED fault
     ELSE fault' = "null_stub" /\ UNCHANGED subs
  /\ UNCHANGED <<fieldVars, grpcVars, connected, request>>

RpcEnds(x) == At(x, "wait") /\ CallReturns(x)

RpcExpires(x) == request[x].timed /\ RpcEnds(x)

Reconnect ==
  /\ Idle /\ ~connected
  /\ connected' = TRUE
  /\ UNCHANGED <<fieldVars, grpcVars, doing, request, subs, fault>>

Disconnect ==
  /\ Idle /\ connected /\ (StopFirst => service = "down")
  /\ connected' = FALSE
  /\ UNCHANGED <<fieldVars, grpcVars, doing, request, subs, fault>>

-----------------------------------------------------------------------------
(***************************************************************************)
(* Handlers: one thread per notification.  A callback makes at most one    *)
(* call of the client, then at most one of Stop, then returns or throws.   *)
(***************************************************************************)
Running(n) == At(n, "nothing") /\ rpc[n].state = "running"

\* Fault: the callbacks run one after another.
InvokeAlone(n) ==
  /\ Sound /\ rpc[n].state = "accepted" /\ implCallback # NoCallback
  /\ \A m \in Calls : rpc[m].state # "running"
  /\ rpc' = [rpc EXCEPT ![n] = [state |-> "running", with |-> implCallback]]
  /\ UNCHANGED <<fieldVars, service, implCallback, bound, session, doing,
                 clientVars>>

\* The handler runs its service's copy of the callback, if there is one.
Invoke(n) ==
  /\ Sound /\ rpc[n].state = "accepted" /\ implCallback # NoCallback
  /\ rpc' = [rpc EXCEPT ![n] = [state |-> "running", with |-> implCallback]]
  /\ UNCHANGED <<fieldVars, service, implCallback, bound, session, doing,
                 clientVars>>

CallbackCalls(n) == Running(n) /\ request[n] = NoRequest /\ Call(n)

CallbackStops(n) ==
  /\ CallbacksStop /\ Running(n) /\ request[n] # StopRequest
  /\ request' = [request EXCEPT ![n] = StopRequest]
  /\ Stop(n)

CallbackEnds(n) ==
  /\ \/ Running(n)
     \/ Sound /\ rpc[n].state = "accepted" /\ implCallback = NoCallback
  /\ rpc' = [rpc EXCEPT ![n] = NoRpc]
  /\ request' = [request EXCEPT ![n] = NoRequest]
  /\ UNCHANGED <<fieldVars, service, implCallback, bound, session, connected,
                 doing, subs, fault>>

-----------------------------------------------------------------------------
\* External: the SDK server pushes to the endpoints it knows, whatever the
\* session that subscribed; a push to a port nobody listens on is lost.
SdkPushes(n) ==
  /\ Sound /\ service = "up" /\ rpc[n] = NoRpc
  /\ \E s \in subs : s.port = bound
  /\ rpc' = [rpc EXCEPT ![n].state = "accepted"]
  /\ UNCHANGED <<fieldVars, service, implCallback, bound, session, doing,
                 clientVars>>

-----------------------------------------------------------------------------
OwnerStops == Idle /\ Stop(App) /\ UNCHANGED request

Owner ==
  \/ \E callback \in Callbacks : Register(callback)
  \/ \E given \in Ports \cup {0} :
       StartBegins(given, FALSE) \/ StartBegins(given, given = 0)
  \/ StartFails \/ Serve \/ Assign \/ Publish
  \/ (Idle /\ Call(App)) \/ OwnerStops
  \/ Reconnect \/ Disconnect

Handler(n) == Invoke(n) \/ CallbackCalls(n) \/ CallbackStops(n)
              \/ CallbackEnds(n)

Perform(x) == Check(x) \/ Use(x) \/ StopReturns(x)

Next ==
  \/ Owner
  \/ \E x \in Threads : Perform(x) \/ RpcEnds(x) \/ RpcExpires(x)
  \/ \E n \in Calls : Handler(n) \/ SdkPushes(n)

Spec == Init /\ [][Next]_vars

(***************************************************************************)
(* Threads run, a callback that calls nothing returns, deadlines pass.     *)
(* Neither the SDK server nor the network is assumed to answer.            *)
(***************************************************************************)
Fairness ==
  /\ \A x \in Threads : WF_vars(Perform(x)) /\ WF_vars(RpcExpires(x))
  /\ \A n \in Calls : WF_vars(Invoke(n) \/ CallbackEnds(n))

FairSpec == Spec /\ Fairness

-----------------------------------------------------------------------------
\* A subscription requested while the server is up reaches it: it names the
\* port bound in this session, whatever was bound or published before: by an
\* earlier session, or by a start that failed.
EndpointReaches ==
  service = "up" => \A s \in subs : s.session = session => s.port = bound

\* Stopping the callback server before disconnecting (README.md:556) is what
\* keeps the callbacks' own calls off a client without stub.
CallbacksUseLiveClient == fault # "null_stub"

\* A callback blocked in Stop, or in a Subscribe without timeout.
Blocked(n) ==
  \/ doing[n] = "stop"
  \/ /\ doing[n] = "wait"
     /\ request[n] = [method |-> "subscribe", timed |-> FALSE]

\* Stop returns, whatever the SDK server does, unless a callback waits in Stop
\* or in a Subscribe without timeout: a callback's other calls only delay it.
StopEnds ==
  doing[App] = "stop" ~>
    doing[App] = "nothing" \/ \E n \in Calls : Blocked(n)

\* A server that serves is known to serve: a start is refused and a Stop finds
\* it, except on the way from BuildAndStart, inside which it begins to serve, to
\* the assignment of server_ and that of running_; a callback's Stop may come
\* in between (client_callback_server.cpp:123-130, 183-193).
ServingIsKnown ==
  service = "up" =>
    \/ doing[App] = "assign"
    \/ server = "live" /\ (running \/ doing[App] = "publish")

\* A callback whose Stop finds the server it runs in waits for itself: from then
\* on the server is never down again, neither another Stop nor the destructor
\* gets through.  (One that comes before the server is assigned returns, having
\* stopped nothing.)
ReentrantStopIsFinal ==
  [][\A n \in Calls :
       doing[n] = "stop" => doing'[n] = "stop" /\ service' # "down"]_vars

\* README.md:833: callbacks run concurrently and do not block each other.  A
\* notification is answered unless its own callback is blocked, or the server
\* is restarted under a callback that stops it.
CallbacksDoNotBlockOthers ==
  \A n \in Calls :
    rpc[n].state # "idle" ~> rpc[n].state = "idle" \/ Blocked(n) \/ ~Sound

-----------------------------------------------------------------------------
(***************************************************************************)
(* The inductive invariant: only running callbacks act; a stopped server   *)
(* runs none, so it can be disconnected; where the owner is in a start     *)
(* tells what the fields hold; what was published last is bound.           *)
(***************************************************************************)
OnlyCallbacksAct ==
  \A n \in Calls :
    /\ service = "down" => rpc[n] = NoRpc
    /\ rpc[n].state # "running" => doing[n] = "nothing"
    /\ doing[n] \notin {"build", "assign", "publish"}

\* Where the owner is in a start or a Stop, and what the fields say meanwhile;
\* with it in neither, server_ is the server that serves or closes, if any.
OwnerAt ==
  /\ doing[App] = "build" =>
       service = "down" /\ server # "live" /\ session < MaxSessions
  /\ doing[App] = "assign" => service = "up" /\ server # "live"
  /\ doing[App] = "publish" => service # "down" /\ server = "live"
  /\ doing[App] \in {"build", "assign", "publish", "stop", "stale"} => ~running
  /\ doing[App] = "stale" => service = "down"
  /\ doing[App] \notin {"build", "assign", "publish"} =>
       (server = "live" <=> service # "down") /\ (running => server = "live")

\* Which server a Stop is in.
StopperAt ==
  \A x \in Threads :
    /\ doing[x] = "stop" => service = "closing" /\ server = "live"
    /\ x # App /\ doing[x] = "stale" => doing[App] = "assign"

\* A closing server has a Stop in it, the owner's or a callback's.
CloserStays == service = "closing" => \E x \in Threads : doing[x] = "stop"

UsersAreConnected ==
  StopFirst => fault # "null_stub" /\ \A x \in Threads : doing[x] = "use" => connected

PublishedIsBound ==
  /\ start.auto => start.port = 0
  /\ doing[App] = "build" => endpoint = start.port
  /\ service = "up" => endpoint \in {0, bound}
  /\ \A s \in subs : s.session <= session

IInv ==
  /\ TypeOK
  /\ OnlyCallbacksAct /\ CloserStays /\ UsersAreConnected
  /\ fault # "server_in_use" => OwnerAt /\ StopperAt
  /\ ServingIsKnown /\ PublishedIsBound /\ EndpointReaches
=============================================================================
