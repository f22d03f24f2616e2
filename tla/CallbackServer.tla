--------------------------- MODULE CallbackServer ---------------------------
(***************************************************************************)
(* ClientCallbackServer: the object an application owns to receive the     *)
(* notifications the robot's SDK server pushes to it                       *)
(* (source/robot/client/client_callback_server.cpp).                       *)
(*                                                                         *)
(* Four kinds of threads meet in it: application threads (Callers) calling *)
(* Start, StartWithAutoPort, Stop, SetSubscriptionMessageCallback, the     *)
(* factory and the destructor; the object's own server_thread_, parked in  *)
(* grpc::Server::Wait; gRPC's threads, each running OnSubscriptionMessage; *)
(* and gRPC's shutdown.  Every statement of the code that reads or writes  *)
(* shared state is a step of its own.                                      *)
(*                                                                         *)
(* Each accepted Start takes the next generation g: service g, grpc server *)
(* g and server thread g are the objects that attempt makes.  0 is null.   *)
(* The listen address is abstracted (it is set together with the port);    *)
(* out-of-memory exceptions and the streams written to are left out.       *)
(***************************************************************************)
EXTENDS Integers

CONSTANTS
  Callers,      \* application threads that call the object
  Calls,        \* slots for concurrent OnSubscriptionMessage RPCs
  Callbacks,    \* the message callbacks an application registers
  NoCallback,   \* the empty std::function
  Ports,        \* TCP ports the system can bind
  MaxStarts     \* bound: accepted starts of a behaviour

ASSUME PortsAssumption == Ports \subseteq Nat \ {0} /\ Ports # {}
ASSUME MaxStartsAssumption == MaxStarts \in Nat
ASSUME NoCallbackAssumption == NoCallback \notin Callbacks

Generations == 1 .. MaxStarts
GenerationOrNull == 0 .. MaxStarts
PortOrZero == Ports \cup {0}
CallbackOrNone == Callbacks \cup {NoCallback}

VARIABLES
  \* the fields of ClientCallbackServer::Impl
  server,           \* server_: generation of the grpc::Server held
  serviceImpl,      \* service_impl_: generation of the service held
  listenPort,       \* listen_port_
  running,          \* running_
  serverThread,     \* server_thread_: the joinable thread, 0 when not joinable
  messageCallback,  \* message_callback_
  \* the objects made by each attempt
  phase,            \* grpc server g: absent, serving, draining, stopped
  boundPort,        \* the port grpc server g is bound to
  implCallback,     \* the callback copied into service g
  thr,              \* server thread g: none, ready, waiting, done
  waitsOn,          \* the grpc server thread g waits on
  call,             \* RPC slots: state, generation served by, last reply
  \* the application's side
  life,             \* the object: none, private (in the factory), shared, dying
  attempts,         \* starts accepted so far
  pc, frame, result, \* each caller's next statement, locals, last outcome
  fault             \* the undefined behaviour or termination met, if any

implVars   == <<server, serviceImpl, listenPort, running, serverThread,
                messageCallback>>
grpcVars   == <<phase, boundPort, implCallback>>
threadVars == <<thr, waitsOn>>
callerVars == <<life, attempts, pc, frame, result>>
vars == <<implVars, grpcVars, threadVars, call, callerVars, fault>>

Labels == {"idle", "listen", "service", "build", "reap", "port", "running",
           "spawn", "test", "shutdown", "drain", "joinable", "join", "free",
           "assign"}

Frames == [auto : BOOLEAN, port : PortOrZero, callback : CallbackOrNone,
           gen : GenerationOrNull, old : GenerationOrNull]

NoFrame == [auto |-> FALSE, port |-> 0, callback |-> NoCallback,
            gen |-> 0, old |-> 0]

Rpcs == [state : {"idle", "accepted", "running"}, gen : GenerationOrNull,
         reply : {"none", "ack", "callback_failed", "unknown"}]

Outcomes == {"none", "started", "already_running", "address_not_available",
             "not_supported", "stopped", "set", "threw"}

TypeOK ==
  /\ server \in GenerationOrNull
  /\ serviceImpl \in GenerationOrNull
  /\ listenPort \in PortOrZero
  /\ running \in BOOLEAN
  /\ serverThread \in GenerationOrNull
  /\ messageCallback \in CallbackOrNone
  /\ phase \in [Generations -> {"absent", "serving", "draining", "stopped"}]
  /\ boundPort \in [Generations -> PortOrZero]
  /\ implCallback \in [Generations -> CallbackOrNone]
  /\ thr \in [Generations -> {"none", "ready", "waiting", "done"}]
  /\ waitsOn \in [Generations -> GenerationOrNull]
  /\ call \in [Calls -> Rpcs]
  /\ life \in {"none", "private", "shared", "dying"}
  /\ attempts \in GenerationOrNull
  /\ pc \in [Callers -> Labels]
  /\ frame \in [Callers -> Frames]
  /\ result \in [Callers -> Outcomes]
  /\ fault \in {"none", "terminate", "use_after_free", "null_server", "join"}

\* No object exists yet; the fields hold what Impl's constructor gives them.
Init ==
  /\ server = 0 /\ serviceImpl = 0
  /\ listenPort = 0 /\ running = FALSE
  /\ serverThread = 0 /\ messageCallback = NoCallback
  /\ phase = [g \in Generations |-> "absent"]
  /\ boundPort = [g \in Generations |-> 0]
  /\ implCallback = [g \in Generations |-> NoCallback]
  /\ thr = [g \in Generations |-> "none"]
  /\ waitsOn = [g \in Generations |-> 0]
  /\ call = [n \in Calls |-> [state |-> "idle", gen |-> 0, reply |-> "none"]]
  /\ life = "none"
  /\ attempts = 0
  /\ pc = [c \in Callers |-> "idle"]
  /\ frame = [c \in Callers |-> NoFrame]
  /\ result = [c \in Callers |-> "none"]
  /\ fault = "none"

-----------------------------------------------------------------------------
(***************************************************************************)
(* Control flow of a caller.                                               *)
(***************************************************************************)
\* Nothing is said of a program that has terminated or met undefined behaviour.
Sound == fault = "none"

At(c, label) == Sound /\ pc[c] = label

Goto(c, label) ==
  /\ pc' = [pc EXCEPT ![c] = label]
  /\ UNCHANGED <<life, attempts, frame, result>>

Done(c, outcome) ==
  /\ pc' = [pc EXCEPT ![c] = "idle"]
  /\ frame' = [frame EXCEPT ![c] = NoFrame]
  /\ result' = [result EXCEPT ![c] = outcome]
  /\ UNCHANGED attempts

\* Returning from the factory is what hands the object to other threads.
Return(c, outcome) ==
  /\ Done(c, outcome)
  /\ life' = IF life = "private" THEN "shared" ELSE life

\* A caller that may begin an operation on the object.
Ready(c) == At(c, "idle") /\ life = "shared"

AllIdle == \A c \in Callers : pc[c] = "idle"

-----------------------------------------------------------------------------
(***************************************************************************)
(* Start and StartWithAutoPort.                                            *)
(***************************************************************************)
\* Fault: the check of running_ is forgotten.
StartAllowedAlways == TRUE

StartAllowed == ~running

EnterStart(c, auto, port) ==
  /\ attempts < MaxStarts
  /\ attempts' = attempts + 1
  /\ pc' = [pc EXCEPT ![c] = "listen"]
  /\ frame' = [frame EXCEPT ![c] = [NoFrame EXCEPT !.auto = auto,
                                                   !.port = port,
                                                   !.gen = attempts + 1]]
  /\ UNCHANGED result

Start(c, port) ==
  /\ Ready(c) /\ StartAllowed
  /\ EnterStart(c, FALSE, port)
  /\ UNCHANGED <<implVars, grpcVars, threadVars, call, life, fault>>

StartWithAutoPort(c) ==
  /\ Ready(c) /\ StartAllowed
  /\ EnterStart(c, TRUE, 0)
  /\ UNCHANGED <<implVars, grpcVars, threadVars, call, life, fault>>

StartRefused(c) ==
  /\ Ready(c) /\ ~StartAllowed
  /\ Return(c, "already_running")
  /\ UNCHANGED <<implVars, grpcVars, threadVars, call, fault>>

\* Fault: only the address is stored.
SetListenForgotten(c) ==
  /\ At(c, "listen")
  /\ Goto(c, "service")
  /\ UNCHANGED <<implVars, grpcVars, threadVars, call, fault>>

\* listen_address_ and listen_port_ are assigned.
SetListen(c) ==
  /\ At(c, "listen")
  /\ listenPort' = frame[c].port
  /\ Goto(c, "service")
  /\ UNCHANGED <<server, serviceImpl, running, serverThread, messageCallback,
                 grpcVars, threadVars, call, fault>>

\* Fault: a service that exists is kept.
NewServiceOnce(c) ==
  /\ At(c, "service")
  /\ serviceImpl' = IF serviceImpl = 0 THEN frame[c].gen ELSE serviceImpl
  /\ implCallback' = [implCallback EXCEPT ![frame[c].gen] = messageCallback]
  /\ Goto(c, "build")
  /\ UNCHANGED <<server, listenPort, running, serverThread, messageCallback,
                 phase, boundPort, threadVars, call, fault>>

\* A new service replaces, and so destroys, the one service_impl_ held; it
\* keeps a copy of the callback registered at this moment.
NewService(c) ==
  /\ At(c, "service")
  /\ serviceImpl' = frame[c].gen
  /\ implCallback' = [implCallback EXCEPT ![frame[c].gen] = messageCallback]
  /\ Goto(c, "build")
  /\ UNCHANGED <<server, listenPort, running, serverThread, messageCallback,
                 phase, boundPort, threadVars, call, fault>>

\* grpc::Server::Shutdown refuses new RPCs; it ends when none is in flight.
ShutDown(phases, g) ==
  IF g # 0 /\ phases[g] = "serving"
  THEN [phases EXCEPT ![g] = "draining"]
  ELSE phases

\* Assigning server_ destroys the grpc::Server it held; a thread still inside
\* Wait would then use a destroyed server.
ReplaceServer(c, g, port) ==
  /\ server' = g
  /\ frame' = [frame EXCEPT ![c] = [@ EXCEPT !.old = server, !.port = port]]
  /\ pc' = [pc EXCEPT ![c] = "reap"]
  /\ fault' = IF server # 0 /\ \E t \in Generations :
                                 thr[t] = "waiting" /\ waitsOn[t] = server
              THEN "use_after_free" ELSE fault
  /\ UNCHANGED <<serviceImpl, listenPort, running, serverThread,
                 messageCallback, implCallback, threadVars, call, life,
                 attempts, result>>

\* Port 0 asks the system for a port.
BuildSucceeds(c) ==
  /\ At(c, "build")
  /\ \E p \in IF frame[c].port = 0 THEN Ports ELSE {frame[c].port} :
       /\ boundPort' = [boundPort EXCEPT ![frame[c].gen] = p]
       /\ ReplaceServer(c, frame[c].gen, p)
  /\ phase' = [ShutDown(phase, server) EXCEPT ![frame[c].gen] = "serving"]

BuildFails(c) ==
  /\ At(c, "build")
  /\ ReplaceServer(c, 0, frame[c].port)
  /\ phase' = ShutDown(phase, server)
  /\ UNCHANGED boundPort

\* Fault: `if (!server_)` is forgotten.
ReapedUnchecked(c) ==
  /\ At(c, "reap")
  /\ Goto(c, IF frame[c].auto THEN "port" ELSE "running")
  /\ UNCHANGED <<implVars, grpcVars, threadVars, call, fault>>

\* The replaced server's destructor is over; then `if (!server_)`.
Reaped(c) ==
  /\ At(c, "reap")
  /\ frame[c].old # 0 => phase[frame[c].old] = "stopped"
  /\ IF server = 0 THEN Return(c, "address_not_available")
                   ELSE Goto(c, IF frame[c].auto THEN "port" ELSE "running")
  /\ UNCHANGED <<implVars, grpcVars, threadVars, call, fault>>

\* Fault: an off-by-one in the published port.
PublishNextPort(c) ==
  /\ At(c, "port")
  /\ listenPort' = frame[c].port + 1
  /\ Goto(c, "running")
  /\ UNCHANGED <<server, serviceImpl, running, serverThread, messageCallback,
                 grpcVars, threadVars, call, fault>>

\* Only StartWithAutoPort: the selected port becomes listen_port_.
PublishPort(c) ==
  /\ At(c, "port")
  /\ listenPort' = frame[c].port
  /\ Goto(c, "running")
  /\ UNCHANGED <<server, serviceImpl, running, serverThread, messageCallback,
                 grpcVars, threadVars, call, fault>>

SetRunning(c) ==
  /\ At(c, "running")
  /\ running' = TRUE
  /\ Goto(c, "spawn")
  /\ UNCHANGED <<server, serviceImpl, listenPort, serverThread,
                 messageCallback, grpcVars, threadVars, call, fault>>

\* Assigning to a joinable std::thread calls std::terminate.
Spawn(c) ==
  /\ At(c, "spawn")
  /\ thr' = [thr EXCEPT ![frame[c].gen] = "ready"]
  /\ serverThread' = frame[c].gen
  /\ fault' = IF serverThread # 0 THEN "terminate" ELSE fault
  /\ Return(c, "started")
  /\ UNCHANGED <<server, serviceImpl, listenPort, running, messageCallback,
                 grpcVars, waitsOn, call>>

\* std::thread's constructor throws: the catch returns an error and nothing
\* that was done before is undone.
SpawnFails(c) ==
  /\ At(c, "spawn")
  /\ Return(c, "not_supported")
  /\ UNCHANGED <<implVars, grpcVars, threadVars, call, fault>>

-----------------------------------------------------------------------------
(***************************************************************************)
(* Stop, and the destructor, which is Stop followed by the members' own    *)
(* destructors.                                                            *)
(***************************************************************************)
\* Fault: Stop forgets running_.
KeepRunning(c) ==
  /\ pc' = [pc EXCEPT ![c] = "test"]
  /\ UNCHANGED <<implVars, grpcVars, threadVars, call, attempts, frame, result,
                 fault>>

ClearRunning(c) ==
  /\ running' = FALSE
  /\ pc' = [pc EXCEPT ![c] = "test"]
  /\ UNCHANGED <<server, serviceImpl, listenPort, serverThread,
                 messageCallback, grpcVars, threadVars, call, attempts, frame,
                 result, fault>>

Stop(c) ==
  /\ Ready(c)
  /\ ClearRunning(c)
  /\ UNCHANGED life

\* C++ lets no other member function run during the destructor.
Destroy(c) ==
  /\ Ready(c) /\ AllIdle
  /\ ClearRunning(c)
  /\ life' = "dying"

StopDone(c) ==
  IF life = "dying" THEN Goto(c, "free") ELSE Return(c, "stopped")

\* Fault: Stop joins without Shutdown.
StopWithoutShutdown(c) ==
  /\ At(c, "test")
  /\ IF server = 0 THEN StopDone(c) ELSE Goto(c, "joinable")
  /\ UNCHANGED <<implVars, grpcVars, threadVars, call, fault>>

StopTest(c) ==
  /\ At(c, "test")
  /\ IF server = 0 THEN StopDone(c) ELSE Goto(c, "shutdown")
  /\ UNCHANGED <<implVars, grpcVars, threadVars, call, fault>>

StopShutdown(c) ==
  /\ At(c, "shutdown")
  /\ pc' = [pc EXCEPT ![c] = "drain"]
  /\ frame' = [frame EXCEPT ![c] = [@ EXCEPT !.gen = server]]
  /\ phase' = ShutDown(phase, server)
  /\ fault' = IF server = 0 THEN "null_server" ELSE fault
  /\ UNCHANGED <<implVars, boundPort, implCallback, threadVars, call, life,
                 attempts, result>>

\* Fault: Shutdown is given a deadline and returns before the RPCs end.
StopUndrained(c) ==
  /\ At(c, "drain")
  /\ Goto(c, "joinable")
  /\ UNCHANGED <<implVars, grpcVars, threadVars, call, fault>>

\* Shutdown returns once every RPC it found in flight has ended.
StopDrained(c) ==
  /\ At(c, "drain")
  /\ phase[frame[c].gen] = "stopped"
  /\ Goto(c, "joinable")
  /\ UNCHANGED <<implVars, grpcVars, threadVars, call, fault>>

\* Fault: Stop does not join the server thread.
StopWithoutJoin(c) ==
  /\ At(c, "joinable")
  /\ StopDone(c)
  /\ UNCHANGED <<implVars, grpcVars, threadVars, call, fault>>

StopJoinable(c) ==
  /\ At(c, "joinable")
  /\ IF serverThread = 0 THEN StopDone(c) ELSE Goto(c, "join")
  /\ UNCHANGED <<implVars, grpcVars, threadVars, call, fault>>

StopJoin(c) ==
  /\ At(c, "join")
  /\ serverThread # 0 => thr[serverThread] = "done"
  /\ serverThread' = 0
  /\ fault' = IF serverThread = 0 THEN "join" ELSE fault
  /\ StopDone(c)
  /\ UNCHANGED <<server, serviceImpl, listenPort, running, messageCallback,
                 grpcVars, threadVars, call>>

\* The members are destroyed; destroying a joinable std::thread terminates.
Free(c) ==
  /\ At(c, "free")
  /\ server' = 0 /\ serviceImpl' = 0
  /\ listenPort' = 0 /\ running' = FALSE
  /\ serverThread' = 0 /\ messageCallback' = NoCallback
  /\ life' = "none"
  /\ fault' = IF serverThread # 0 THEN "terminate" ELSE fault
  /\ Done(c, "stopped")
  /\ UNCHANGED <<grpcVars, threadVars, call>>

-----------------------------------------------------------------------------
(***************************************************************************)
(* Registration, construction and the factory.                             *)
(***************************************************************************)
\* Fault: a callback may be set while running.
SetAllowedAlways == TRUE

SetAllowed == ~running

SetSubscriptionMessageCallback(c, callback) ==
  /\ Ready(c) /\ SetAllowed
  /\ pc' = [pc EXCEPT ![c] = "assign"]
  /\ frame' = [frame EXCEPT ![c] = [@ EXCEPT !.callback = callback]]
  /\ UNCHANGED <<implVars, grpcVars, threadVars, call, life, attempts, result,
                 fault>>

SetRefused(c) ==
  /\ Ready(c) /\ ~SetAllowed
  /\ Return(c, "threw")
  /\ UNCHANGED <<implVars, grpcVars, threadVars, call, fault>>

AssignCallback(c) ==
  /\ At(c, "assign")
  /\ messageCallback' = frame[c].callback
  /\ Return(c, "set")
  /\ UNCHANGED <<server, serviceImpl, listenPort, running, serverThread,
                 grpcVars, threadVars, call, fault>>

Construct(c) ==
  /\ At(c, "idle") /\ life = "none"
  /\ life' = "shared"
  /\ UNCHANGED <<implVars, grpcVars, threadVars, call, attempts, pc, frame,
                 result, fault>>

\* The factory registers a callback when it is given one and starts the
\* server, on a port of the system's choice when port is 0.
CreateCallbackServer(c, port, callback) ==
  /\ At(c, "idle") /\ life = "none"
  /\ life' = "private"
  /\ messageCallback' = callback
  /\ EnterStart(c, port = 0, port)
  /\ UNCHANGED <<server, serviceImpl, listenPort, running, serverThread,
                 grpcVars, threadVars, call, fault>>

-----------------------------------------------------------------------------
(***************************************************************************)
(* The server thread: `server_->Wait()`.                                   *)
(***************************************************************************)
ThreadWaits(g) ==
  /\ Sound
  /\ thr[g] = "ready"
  /\ thr' = [thr EXCEPT ![g] = "waiting"]
  /\ waitsOn' = [waitsOn EXCEPT ![g] = server]
  /\ fault' = IF server = 0 THEN "null_server" ELSE fault
  /\ UNCHANGED <<implVars, grpcVars, call, callerVars>>

ThreadEnds(g) ==
  /\ Sound
  /\ thr[g] = "waiting"
  /\ phase[waitsOn[g]] = "stopped"
  /\ thr' = [thr EXCEPT ![g] = "done"]
  /\ UNCHANGED <<implVars, grpcVars, waitsOn, call, callerVars, fault>>

(***************************************************************************)
(* gRPC and OnSubscriptionMessage.                                         *)
(***************************************************************************)
InFlight(n) == call[n].state # "idle"

Push(n, g) ==
  /\ Sound
  /\ ~InFlight(n)
  /\ phase[g] = "serving"
  /\ call' = [call EXCEPT ![n] = [state |-> "accepted", gen |-> g,
                                  reply |-> "none"]]
  /\ UNCHANGED <<implVars, grpcVars, threadVars, callerVars, fault>>

Answer(n, reply) ==
  /\ call' = [call EXCEPT ![n] = [state |-> "idle", gen |-> 0,
                                  reply |-> reply]]
  /\ UNCHANGED <<implVars, grpcVars, threadVars, callerVars, fault>>

\* Fault: a handler without a callback answers only while running_.
AckWhileRunning(n) ==
  /\ Sound
  /\ call[n].state = "accepted" /\ running
  /\ implCallback[call[n].gen] = NoCallback
  /\ Answer(n, "ack")

\* `if (message_callback_)`: without a callback the answer is ret 0.
AckWithoutCallback(n) ==
  /\ Sound
  /\ call[n].state = "accepted"
  /\ implCallback[call[n].gen] = NoCallback
  /\ Answer(n, "ack")

InvokeCallback(n) ==
  /\ Sound
  /\ call[n].state = "accepted"
  /\ implCallback[call[n].gen] # NoCallback
  /\ call' = [call EXCEPT ![n] = [call[n] EXCEPT !.state = "running"]]
  /\ UNCHANGED <<implVars, grpcVars, threadVars, callerVars, fault>>

CallbackReturns(n) ==
  /\ Sound
  /\ call[n].state = "running"
  /\ Answer(n, "ack")

\* A std::exception is caught and answered with an error ret and status OK;
\* anything else reaches gRPC, which answers UNKNOWN.
CallbackThrows(n) ==
  /\ Sound
  /\ call[n].state = "running"
  /\ \E reply \in {"callback_failed", "unknown"} : Answer(n, reply)

Drained(g) ==
  /\ Sound
  /\ phase[g] = "draining"
  /\ \A n \in Calls : call[n].gen # g
  /\ phase' = [phase EXCEPT ![g] = "stopped"]
  /\ UNCHANGED <<implVars, boundPort, implCallback, threadVars, call,
                 callerVars, fault>>

-----------------------------------------------------------------------------
Begin(c) ==
  \/ Construct(c) \/ Destroy(c)
  \/ \E port \in PortOrZero, callback \in CallbackOrNone :
       CreateCallbackServer(c, port, callback)
  \/ \E port \in PortOrZero : Start(c, port)
  \/ StartWithAutoPort(c) \/ StartRefused(c)
  \/ Stop(c)
  \/ \E callback \in CallbackOrNone :
       SetSubscriptionMessageCallback(c, callback)
  \/ SetRefused(c)

Continue(c) ==
  \/ SetListen(c) \/ NewService(c) \/ BuildSucceeds(c) \/ BuildFails(c)
  \/ Reaped(c) \/ PublishPort(c) \/ SetRunning(c) \/ Spawn(c) \/ SpawnFails(c)
  \/ StopTest(c) \/ StopShutdown(c) \/ StopDrained(c) \/ StopJoinable(c)
  \/ StopJoin(c) \/ Free(c) \/ AssignCallback(c)

Thread(g) == ThreadWaits(g) \/ ThreadEnds(g)

Handle(n) ==
  \/ AckWithoutCallback(n) \/ InvokeCallback(n)
  \/ CallbackReturns(n) \/ CallbackThrows(n)

Next ==
  \/ \E c \in Callers : Begin(c) \/ Continue(c)
  \/ \E g \in Generations : Thread(g) \/ Drained(g)
  \/ \E n \in Calls : Handle(n)
  \/ \E n \in Calls, g \in Generations : Push(n, g)

Spec == Init /\ [][Next]_vars

(***************************************************************************)
(* A thread inside a call, the server thread, a handler and gRPC's         *)
(* shutdown make progress; callbacks return, as README.md:737 asks of      *)
(* them.  Nothing obliges an application to begin a call or the SDK server *)
(* to push.                                                                *)
(***************************************************************************)
Fairness ==
  /\ \A c \in Callers : WF_vars(Continue(c))
  /\ \A g \in Generations : WF_vars(Thread(g))
  /\ \A g \in Generations : WF_vars(Drained(g))
  /\ \A n \in Calls : WF_vars(Handle(n))

FairSpec == Spec /\ Fairness

-----------------------------------------------------------------------------
(***************************************************************************)
(* Safety.                                                                 *)
(***************************************************************************)
\* No call of the object, from any thread, ends the process, dereferences a
\* null server_ or destroys a server that a thread still waits on.
NeverAborts == Sound

\* A handler in flight executes in the service its server was built with;
\* service_impl_ owns it, so it must not have been replaced meanwhile.
HandlersUseLiveService ==
  \A n \in Calls : InFlight(n) => call[n].gen = serviceImpl

\* Every notification in flight is handled by the callback the application
\* has registered: registration is refused while a server serves.
CallbackInEffect ==
  \A n \in Calls : InFlight(n) => implCallback[call[n].gen] = messageCallback

\* IsRunning() is true only when the server the object holds accepts RPCs.
RunningMeansServing == running => server # 0 /\ phase[server] = "serving"

\* Once no call is in progress and IsRunning() is false - in particular after
\* Stop and after the destructor - no server serves, no handler runs and no
\* thread of the object is alive: what the callback uses may be destroyed.
QuietWhenStopped ==
  AllIdle /\ ~running =>
    /\ \A g \in Generations : phase[g] \in {"absent", "stopped"}
    /\ \A g \in Generations : thr[g] \in {"none", "done"}
    /\ \A n \in Calls : ~InFlight(n)

\* GetClientEndpoint: empty until a port is known.
Endpoint == listenPort

\* While the server runs, a non-empty GetClientEndpoint() - what the
\* application sends in its subscriptions - names the port really bound.
EndpointIsBound == running /\ Endpoint # 0 => boundPort[server] = Endpoint

\* A Start that returned success left a server serving, with its thread.
StartedMeansServing ==
  \A c \in Callers : Ready(c) /\ result[c] = "started" =>
    /\ running /\ server # 0 /\ phase[server] = "serving"
    /\ serverThread = server

\* A Start that returned an error other than "already running" left the
\* server down.
FailedStartLeavesDown ==
  \A c \in Callers :
    Ready(c) /\ result[c] \in {"address_not_available", "not_supported"} =>
      ~running

(***************************************************************************)
(* Liveness.                                                               *)
(***************************************************************************)
\* Every call of the object returns: Stop does not wait for ever for its
\* handlers or for the server thread.
CallsReturn == \A c \in Callers : pc[c] # "idle" ~> pc[c] = "idle"

\* Every RPC the server accepted is answered, whatever the callback does.
PushesAreAnswered == \A n \in Calls : InFlight(n) ~> ~InFlight(n)
=============================================================================
