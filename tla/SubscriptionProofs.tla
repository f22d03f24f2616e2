-------------------------- MODULE SubscriptionProofs --------------------------
(***************************************************************************)
(* Theorems of Subscription, for any number of notifications in flight,    *)
(* any ports and any number of sessions.                                   *)
(***************************************************************************)
EXTENDS Subscription, TLAPS

USE AppAssumption, PortsAssumption, MaxSessionsAssumption,
    StopFirstAssumption, CallbacksStopAssumption

LEMMA IInvInit == Init => IInv
<1> SUFFICES ASSUME Init PROVE IInv
  OBVIOUS
<1>1. TypeOK
  <2>1. /\ start \in [port : {0} \cup Ports, auto : BOOLEAN]
    BY DEF Init, NoStart
  <2>2. rpc \in [Calls -> [state : {"idle", "accepted", "running"},
                          with : Callbacks \cup {NoCallback}]]
    BY DEF Init, NoRpc
  <2>3. /\ doing \in [Threads -> Activities]
        /\ request \in [Threads -> Requests \cup {NoRequest, StopRequest}]
    BY DEF Init, Activities
  <2>4. session \in 0 .. MaxSessions
    BY DEF Init
  <2> QED BY <2>1, <2>2, <2>3, <2>4 DEF Init, TypeOK
<1>2. OnlyCallbacksAct /\ CloserStays /\ UsersAreConnected
  BY DEF Init, OnlyCallbacksAct, CloserStays, UsersAreConnected, Threads
<1>3. OwnerAt /\ StopperAt /\ ServingIsKnown /\ PublishedIsBound
      /\ EndpointReaches
  BY DEF Init, OwnerAt, StopperAt, ServingIsKnown, PublishedIsBound,
         EndpointReaches, Threads, NoStart
<1> QED BY <1>1, <1>2, <1>3 DEF IInv

\* A call makes a request.
LEMMA RequestType ==
  \A method \in Methods : \A timed \in Timeouts(method) :
    /\ [method |-> method, timed |-> timed] \in Requests
    /\ [method |-> method, timed |-> timed] \notin {NoRequest, StopRequest}
  BY DEF Methods, Timeouts, Requests, NoRequest, StopRequest

\* A step of a thread moves that thread only.
LEMMA Moves ==
  ASSUME TypeOK, NEW x \in Threads, NEW activity \in Activities,
         Goto(x, activity)
  PROVE  /\ doing' \in [Threads -> Activities]
         /\ doing'[x] = activity
         /\ \A y \in Threads : y # x => doing'[y] = doing[y]
  BY DEF TypeOK, Goto

LEMMA ThreadFacts ==
  /\ App \in Threads
  /\ \A n \in Calls : n \in Threads /\ n # App
  /\ \A x \in Threads : x # App => x \in Calls
  BY DEF Threads

\* Beginning a start: with nothing in flight the server before is down.
LEMMA BeginStep ==
  ASSUME IInv, NEW given \in Ports \cup {0}, NEW auto \in BOOLEAN,
         auto => given = 0, StartBegins(given, auto)
  PROVE  IInv'
<1> USE ThreadFacts
<1>1. /\ TypeOK /\ OnlyCallbacksAct /\ OwnerAt /\ StopperAt /\ CloserStays
      /\ UsersAreConnected /\ ServingIsKnown /\ PublishedIsBound
      /\ EndpointReaches /\ doing[App] = "nothing" /\ fault = "none"
  BY DEF IInv, StartBegins, Idle, At, Sound
<1>2. /\ doing' \in [Threads -> Activities] /\ doing'[App] = "build"
      /\ \A y \in Threads : y # App => doing'[y] = doing[y]
  BY <1>1, Moves DEF StartBegins, Activities
<1>3. service # "up"
  BY <1>1 DEF StartBegins, ServingIsKnown
<1>4. NoneInFlight => service = "down"
  BY <1>1, <1>3
  DEF TypeOK, NoneInFlight, CloserStays, OnlyCallbacksAct, NoRpc
<1>5. TypeOK'
  BY <1>1, <1>2 DEF StartBegins, TypeOK
<1>6. OnlyCallbacksAct' /\ CloserStays' /\ UsersAreConnected'
  BY <1>1, <1>2
  DEF StartBegins, OnlyCallbacksAct, CloserStays, UsersAreConnected
<1>7. fault' # "server_in_use" => OwnerAt' /\ StopperAt'
  BY <1>1, <1>2, <1>4 DEF StartBegins, OwnerAt, StopperAt
<1>8. ServingIsKnown' /\ PublishedIsBound' /\ EndpointReaches'
  BY <1>1, <1>2, <1>3
  DEF StartBegins, ServingIsKnown, PublishedIsBound, EndpointReaches
<1> QED BY <1>5, <1>6, <1>7, <1>8 DEF IInv

\* The other steps of a start.
LEMMA StartStep ==
  ASSUME IInv, StartFails \/ Serve \/ Assign \/ Publish
  PROVE  IInv'
<1> USE ThreadFacts
<1>1. /\ TypeOK /\ OnlyCallbacksAct /\ OwnerAt /\ StopperAt /\ CloserStays
      /\ UsersAreConnected /\ ServingIsKnown /\ PublishedIsBound
      /\ EndpointReaches /\ fault = "none"
  BY DEF IInv, StartFails, Serve, Assign, Publish, At, Sound
<1>2. CASE StartFails
  <2>1. doing[App] = "build" /\ service = "down"
    BY <1>1, <1>2 DEF StartFails, At, OwnerAt
  <2>2. /\ doing' \in [Threads -> Activities] /\ doing'[App] = "nothing"
        /\ \A y \in Threads : y # App => doing'[y] = doing[y]
    BY <1>1, <1>2, Moves DEF StartFails, Activities
  <2>3. TypeOK'
    BY <1>1, <1>2, <2>2 DEF StartFails, TypeOK, grpcVars, clientVars, NoStart
  <2>4. OnlyCallbacksAct' /\ CloserStays' /\ UsersAreConnected'
    BY <1>1, <1>2, <2>1, <2>2
    DEF StartFails, OnlyCallbacksAct, CloserStays, UsersAreConnected, grpcVars,
        clientVars
  <2>5. OwnerAt' /\ StopperAt'
    BY <1>1, <1>2, <2>1, <2>2
    DEF StartFails, OwnerAt, StopperAt, grpcVars, clientVars
  <2>6. ServingIsKnown' /\ PublishedIsBound' /\ EndpointReaches'
    BY <1>1, <1>2, <2>1, <2>2
    DEF StartFails, ServingIsKnown, PublishedIsBound, EndpointReaches,
        grpcVars, clientVars, NoStart
  <2> QED BY <2>3, <2>4, <2>5, <2>6 DEF IInv
<1>3. CASE Serve
  <2>1. doing[App] = "build" /\ service = "down" /\ server # "live" /\ ~running
        /\ endpoint = start.port /\ session < MaxSessions
    BY <1>1, <1>3 DEF Serve, At, OwnerAt, PublishedIsBound
  <2>2. /\ doing' \in [Threads -> Activities] /\ doing'[App] = "assign"
        /\ \A y \in Threads : y # App => doing'[y] = doing[y]
    BY <1>1, <1>3, Moves DEF Serve, Activities
  <2>3. bound' \in Ports /\ session' = session + 1 /\ service' = "up"
    BY <1>1, <1>3 DEF Serve, TypeOK
  <2>4. TypeOK'
    BY <1>1, <1>3, <2>1, <2>2, <2>3
    DEF Serve, TypeOK, Targets, fieldVars, clientVars
  <2>5. OnlyCallbacksAct' /\ CloserStays' /\ UsersAreConnected'
    BY <1>1, <1>3, <2>1, <2>2
    DEF Serve, OnlyCallbacksAct, CloserStays, UsersAreConnected, clientVars
  <2>6. OwnerAt' /\ StopperAt'
    BY <1>1, <1>3, <2>1, <2>2
    DEF Serve, OwnerAt, StopperAt, fieldVars
  <2>7. ServingIsKnown'
    BY <2>2 DEF ServingIsKnown
  <2>8. PublishedIsBound'
    BY <1>1, <1>3, <2>1, <2>2, <2>3
    DEF Serve, PublishedIsBound, TypeOK, Targets, fieldVars, clientVars
  <2>9. EndpointReaches'
    BY <1>1, <1>3, <2>3
    DEF Serve, PublishedIsBound, EndpointReaches, TypeOK, Targets, clientVars
  <2> QED BY <2>4, <2>5, <2>6, <2>7, <2>8, <2>9 DEF IInv
<1>4. CASE Assign
  <2>1. doing[App] = "assign" /\ service = "up" /\ ~running
    BY <1>1, <1>4 DEF Assign, At, OwnerAt
  <2>2. /\ doing' \in [Threads -> Activities] /\ doing'[App] = "publish"
        /\ \A y \in Threads : y # App => doing'[y] = doing[y]
    BY <1>1, <1>4, Moves DEF Assign, Activities
  <2>3. TypeOK'
    BY <1>1, <1>4, <2>2 DEF Assign, TypeOK, grpcVars
  <2>4. OnlyCallbacksAct' /\ CloserStays' /\ UsersAreConnected'
    BY <1>1, <1>4, <2>1, <2>2
    DEF Assign, OnlyCallbacksAct, CloserStays, UsersAreConnected, grpcVars
  <2>5. fault' # "server_in_use" => OwnerAt' /\ StopperAt'
    BY <1>1, <1>4, <2>1, <2>2 DEF Assign, OwnerAt, StopperAt, grpcVars
  <2>6. ServingIsKnown' /\ PublishedIsBound' /\ EndpointReaches'
    BY <1>1, <1>4, <2>1, <2>2
    DEF Assign, ServingIsKnown, PublishedIsBound, EndpointReaches, grpcVars
  <2> QED BY <2>3, <2>4, <2>5, <2>6 DEF IInv
<1>5. CASE Publish
  <2>1. doing[App] = "publish" /\ service # "down" /\ server = "live"
    BY <1>1, <1>5 DEF Publish, At, OwnerAt
  <2>2. /\ doing' \in [Threads -> Activities] /\ doing'[App] = "nothing"
        /\ \A y \in Threads : y # App => doing'[y] = doing[y]
    BY <1>1, <1>5, Moves DEF Publish, Activities
  <2>3. TypeOK'
    BY <1>1, <1>5, <2>2 DEF Publish, TypeOK, grpcVars, clientVars, NoStart
  <2>4. OnlyCallbacksAct' /\ CloserStays' /\ UsersAreConnected'
    BY <1>1, <1>5, <2>1, <2>2
    DEF Publish, OnlyCallbacksAct, CloserStays, UsersAreConnected, grpcVars,
        clientVars
  <2>5. OwnerAt' /\ StopperAt'
    BY <1>1, <1>5, <2>1, <2>2
    DEF Publish, OwnerAt, StopperAt, grpcVars, clientVars
  <2>6. ServingIsKnown' /\ PublishedIsBound' /\ EndpointReaches'
    BY <1>1, <1>5, <2>1, <2>2
    DEF Publish, ServingIsKnown, PublishedIsBound, EndpointReaches, grpcVars,
        clientVars, NoStart
  <2> QED BY <2>3, <2>4, <2>5, <2>6 DEF IInv
<1> QED BY <1>2, <1>3, <1>4, <1>5

\* Stop, the owner's or that of a running callback.
LEMMA StopStep ==
  ASSUME IInv, NEW x \in Threads, At(x, "nothing"), Stop(x),
         x # App => rpc[x].state = "running",
         request' \in [Threads -> Requests \cup {NoRequest, StopRequest}]
  PROVE  IInv'
<1> USE ThreadFacts
<1>1. /\ TypeOK /\ OnlyCallbacksAct /\ OwnerAt /\ StopperAt /\ CloserStays
      /\ UsersAreConnected /\ ServingIsKnown /\ PublishedIsBound
      /\ EndpointReaches /\ fault = "none" /\ doing[x] = "nothing"
  BY DEF IInv, At, Sound
<1>2. CASE server = "null"
  <2>1. UNCHANGED <<service, doing>>
    BY <1>2 DEF Stop
  <2>2. TypeOK'
    <3>1. running' = FALSE
          /\ UNCHANGED <<server, endpoint, registered, start, implCallback,
                         bound, session, rpc, connected, subs, fault>>
      BY DEF Stop
    <3> QED BY <1>1, <2>1, <3>1, ZenonT(40) DEF TypeOK
  <2>3. OnlyCallbacksAct' /\ CloserStays' /\ UsersAreConnected'
    <3>1. OnlyCallbacksAct'
      BY <1>1, <2>1 DEF Stop, OnlyCallbacksAct
    <3>2. CloserStays' /\ UsersAreConnected'
      BY <1>1, <2>1 DEF Stop, CloserStays, UsersAreConnected
    <3> QED BY <3>1, <3>2
  <2>4. OwnerAt' /\ StopperAt' /\ ServingIsKnown' /\ PublishedIsBound'
        /\ EndpointReaches'
    BY <1>1, <1>2, <2>1
    DEF Stop, OwnerAt, StopperAt, ServingIsKnown, PublishedIsBound,
        EndpointReaches
  <2> QED BY <2>2, <2>3, <2>4 DEF IInv
<1>3. CASE server = "shut"
  <2>1. UNCHANGED service /\ Goto(x, "stale")
    BY <1>3 DEF Stop
  <2>2. /\ doing' \in [Threads -> Activities] /\ doing'[x] = "stale"
        /\ \A y \in Threads : y # x => doing'[y] = doing[y]
    BY <1>1, <2>1, Moves DEF Activities
  <2>3. x # App => doing[App] = "assign"
    BY <1>1, <1>3 DEF OnlyCallbacksAct, OwnerAt, TypeOK, NoRpc
  <2>4. x = App => service = "down"
    BY <1>1, <1>3 DEF OwnerAt
  <2>5. TypeOK'
    <3>1. running' = FALSE
          /\ UNCHANGED <<server, endpoint, registered, start, implCallback,
                         bound, session, rpc, connected, subs, fault>>
      BY DEF Stop
    <3> QED BY <1>1, <2>1, <2>2, <3>1, ZenonT(40) DEF TypeOK
  <2>6. OnlyCallbacksAct' /\ CloserStays' /\ UsersAreConnected'
    <3>1. OnlyCallbacksAct'
      BY <1>1, <2>1, <2>2 DEF Stop, OnlyCallbacksAct
    <3>2. CloserStays' /\ UsersAreConnected'
      BY <1>1, <2>1, <2>2 DEF Stop, CloserStays, UsersAreConnected
    <3> QED BY <3>1, <3>2
  <2>7. OwnerAt' /\ StopperAt' /\ ServingIsKnown' /\ PublishedIsBound'
        /\ EndpointReaches'
    BY <1>1, <1>3, <2>1, <2>2, <2>3, <2>4
    DEF Stop, OwnerAt, StopperAt, ServingIsKnown, PublishedIsBound,
        EndpointReaches
  <2> QED BY <2>5, <2>6, <2>7 DEF IInv
<1>4. CASE server = "live"
  <2>1. service' = "closing" /\ Goto(x, "stop")
    BY <1>4 DEF Stop
  <2>2. /\ doing' \in [Threads -> Activities] /\ doing'[x] = "stop"
        /\ \A y \in Threads : y # x => doing'[y] = doing[y]
    BY <1>1, <2>1, Moves DEF Activities
  <2>3. service # "down" /\ doing[App] \notin {"build", "assign", "stale"}
    BY <1>1, <1>4 DEF OwnerAt, TypeOK
  <2>4. TypeOK'
    <3>1. running' = FALSE
          /\ UNCHANGED <<server, endpoint, registered, start, implCallback,
                         bound, session, rpc, connected, subs, fault>>
      BY DEF Stop
    <3> QED BY <1>1, <2>1, <2>2, <3>1, ZenonT(40) DEF TypeOK
  <2>5. OnlyCallbacksAct' /\ CloserStays' /\ UsersAreConnected'
    BY <1>1, <2>1, <2>2
    DEF Stop, OnlyCallbacksAct, CloserStays, UsersAreConnected
  <2>6. OwnerAt' /\ StopperAt' /\ ServingIsKnown' /\ PublishedIsBound'
        /\ EndpointReaches'
    BY <1>1, <1>4, <2>1, <2>2, <2>3
    DEF Stop, OwnerAt, StopperAt, ServingIsKnown, PublishedIsBound,
        EndpointReaches
  <2> QED BY <2>4, <2>5, <2>6 DEF IInv
<1> QED BY <1>2, <1>3, <1>4 DEF Stop

\* The owner's other steps.
LEMMA OwnerStep == IInv /\ Owner => IInv'
<1> SUFFICES ASSUME IInv, Owner PROVE IInv'
  OBVIOUS
<1> USE ThreadFacts
<1>0. /\ TypeOK /\ OnlyCallbacksAct /\ StopperAt /\ CloserStays
      /\ UsersAreConnected /\ ServingIsKnown /\ PublishedIsBound
      /\ EndpointReaches
  BY DEF IInv, Owner, Register, StartBegins, StartFails, Serve, Assign,
         Publish, OwnerStops, Reconnect, Disconnect, Idle, At, Sound
<1>1. ASSUME NEW callback \in Callbacks, Register(callback) PROVE IInv'
  BY <1>1 DEF Register, IInv, TypeOK, OnlyCallbacksAct, OwnerAt, StopperAt,
              CloserStays, UsersAreConnected, ServingIsKnown, PublishedIsBound,
              EndpointReaches, grpcVars, clientVars
<1>2. ASSUME NEW given \in Ports \cup {0},
             StartBegins(given, FALSE) \/ StartBegins(given, given = 0)
      PROVE  IInv'
  BY <1>2, BeginStep
<1>3. CASE StartFails \/ Serve \/ Assign \/ Publish
  BY <1>3, StartStep
<1>4. CASE Idle /\ Call(App)
  <2>1. /\ doing' \in [Threads -> Activities] /\ doing'[App] = "check"
        /\ \A y \in Threads : y # App => doing'[y] = doing[y]
    BY <1>0, <1>4, Moves DEF Call, Activities
  <2>2. request' \in [Threads -> Requests \cup {NoRequest, StopRequest}]
    BY <1>0, <1>4, RequestType DEF Call, TypeOK
  <2> QED
    BY <1>0, <1>4, <2>1, <2>2
    DEF Call, Idle, At, IInv, TypeOK, OnlyCallbacksAct, OwnerAt, StopperAt,
        CloserStays, UsersAreConnected, ServingIsKnown, PublishedIsBound,
        EndpointReaches, fieldVars, grpcVars
<1>5. CASE OwnerStops
  <2>1. request' \in [Threads -> Requests \cup {NoRequest, StopRequest}]
    BY <1>0, <1>5 DEF OwnerStops, TypeOK
  <2> QED BY <1>5, <2>1, StopStep DEF OwnerStops, Idle
<1>6. CASE Reconnect
  BY <1>6 DEF Reconnect, IInv, TypeOK, OnlyCallbacksAct, OwnerAt, StopperAt,
              CloserStays, UsersAreConnected, ServingIsKnown, PublishedIsBound,
              EndpointReaches, fieldVars, grpcVars
<1>7. CASE Disconnect
  <2>1. ASSUME StopFirst, NEW x \in Threads PROVE doing[x] # "use"
    <3>1. CASE x = App
      BY <1>7, <3>1 DEF Disconnect, Idle, At
    <3>2. CASE x \in Calls
      BY <1>0, <1>7, <2>1, <3>2 DEF Disconnect, OnlyCallbacksAct, NoRpc
    <3> QED BY <3>1, <3>2
  <2>2. TypeOK'
    <3>1. connected' \in BOOLEAN
          /\ UNCHANGED <<fieldVars, grpcVars, doing, request, subs, fault>>
      BY <1>7 DEF Disconnect
    <3> QED BY <1>0, <3>1 DEF TypeOK, fieldVars, grpcVars
  <2>3. OnlyCallbacksAct' /\ CloserStays' /\ UsersAreConnected'
    <3>1. OnlyCallbacksAct'
      BY <1>0, <1>7 DEF Disconnect, OnlyCallbacksAct, fieldVars, grpcVars
    <3>2. CloserStays'
      BY <1>0, <1>7 DEF Disconnect, CloserStays, fieldVars, grpcVars
    <3>3. UsersAreConnected'
      BY <1>0, <1>7, <2>1 DEF Disconnect, UsersAreConnected
    <3> QED BY <3>1, <3>2, <3>3
  <2> QED
    BY <1>0, <1>7, <2>2, <2>3
    DEF Disconnect, IInv, OwnerAt, StopperAt, ServingIsKnown, PublishedIsBound,
        EndpointReaches, fieldVars, grpcVars
<1> QED BY <1>1, <1>2, <1>3, <1>4, <1>5, <1>6, <1>7 DEF Owner

\* The end of a Stop.
LEMMA ReturnStep == ASSUME IInv, NEW x \in Threads, StopReturns(x) PROVE IInv'
<1> USE ThreadFacts
<1>1. /\ TypeOK /\ OnlyCallbacksAct /\ OwnerAt /\ StopperAt /\ CloserStays
      /\ UsersAreConnected /\ ServingIsKnown /\ PublishedIsBound
      /\ EndpointReaches /\ fault = "none" /\ fault' = "none"
  BY DEF IInv, StopReturns, At, Sound, clientVars
<1>2. /\ doing' \in [Threads -> Activities] /\ doing'[x] = "nothing"
      /\ \A y \in Threads : y # x => doing'[y] = doing[y]
  BY <1>1, Moves DEF StopReturns, Activities
<1>3. TypeOK'
  BY <1>1, <1>2 DEF StopReturns, TypeOK, clientVars
<1>4. UsersAreConnected' /\ PublishedIsBound' /\ EndpointReaches'
      /\ ServingIsKnown'
  BY <1>1, <1>2
  DEF StopReturns, At, UsersAreConnected, PublishedIsBound, EndpointReaches,
      ServingIsKnown, StopperAt, OwnerAt, clientVars
<1>5. CASE doing[x] = "stale"
  <2>1. UNCHANGED <<service, server, rpc, running>>
    BY <1>5 DEF StopReturns, At
  <2> QED
    BY <1>1, <1>2, <1>3, <1>4, <1>5, <2>1
    DEF IInv, OnlyCallbacksAct, OwnerAt, StopperAt, CloserStays, StopReturns
<1>6. CASE doing[x] = "stop"
  <2>1. NoneInFlight /\ service' = "down" /\ server' = "shut"
        /\ UNCHANGED <<rpc, running>>
    BY <1>6 DEF StopReturns, At
  <2>2. \A n \in Calls : doing[n] = "nothing"
    BY <1>1, <2>1 DEF OnlyCallbacksAct, NoneInFlight, NoRpc
  <2>3. x = App /\ ~running
    BY <1>1, <1>6, <2>2 DEF OwnerAt
  <2>4. OnlyCallbacksAct' /\ CloserStays'
    BY <1>1, <1>2, <2>1, <2>2, <2>3
    DEF OnlyCallbacksAct, CloserStays, NoneInFlight
  <2>5. OwnerAt' /\ StopperAt'
    BY <1>2, <2>1, <2>2, <2>3 DEF OwnerAt, StopperAt
  <2> QED BY <1>3, <1>4, <2>4, <2>5 DEF IInv
<1> QED BY <1>5, <1>6 DEF StopReturns, At

\* The steps of a client call, on whichever thread.
LEMMA CallStep ==
  ASSUME IInv, NEW x \in Threads,
         Check(x) \/ Use(x) \/ RpcEnds(x) \/ RpcExpires(x)
  PROVE  IInv'
<1> USE ThreadFacts
<1>1. /\ TypeOK /\ OnlyCallbacksAct /\ OwnerAt /\ StopperAt /\ CloserStays
      /\ UsersAreConnected /\ ServingIsKnown /\ PublishedIsBound
      /\ EndpointReaches /\ fault = "none"
      /\ doing[x] \in {"check", "use", "wait"}
  BY DEF IInv, Check, Use, RpcEnds, RpcExpires, At, Sound
<1>2. /\ UNCHANGED <<fieldVars, grpcVars>>
      /\ doing' \in [Threads -> Activities]
      /\ doing'[x] \in {"nothing", "use", "wait"}
      /\ doing'[x] = "use" => connected
      /\ \A y \in Threads : y # x => doing'[y] = doing[y]
  BY <1>1, Moves
  DEF Check, Use, RpcEnds, RpcExpires, CallReturns, Activities
<1>3. OnlyCallbacksAct' /\ OwnerAt' /\ StopperAt' /\ CloserStays'
      /\ ServingIsKnown'
  BY <1>1, <1>2
  DEF OnlyCallbacksAct, OwnerAt, StopperAt, CloserStays, ServingIsKnown,
      fieldVars, grpcVars
<1>4. /\ request' \in [Threads -> Requests \cup {NoRequest, StopRequest}]
      /\ UNCHANGED connected
  BY <1>1
  DEF TypeOK, Check, Use, RpcEnds, RpcExpires, CallReturns, clientVars
<1>5. CASE Use(x)
  <2>1. subs' \subseteq subs \cup {Target}
    BY <1>5 DEF Use, SdkReceives
  <2>2. Target \in [port : {0} \cup Ports, session : 0 .. MaxSessions]
        /\ Target.port = endpoint
        /\ Target.session = IF service = "up" THEN session ELSE 0
    BY <1>1 DEF Target, TypeOK
  <2>3. subs' \subseteq Targets
    BY <1>1, <1>5, <2>2 DEF TypeOK, Use, SdkReceives, Targets, Target
  <2>4. \A s \in subs' : s \in subs \/ (s = Target /\ endpoint # 0)
    BY <1>5 DEF Use, SdkReceives
  <2>5. EndpointReaches' /\ PublishedIsBound'
    BY <1>1, <1>2, <1>5, <2>2, <2>4
    DEF TypeOK, EndpointReaches, PublishedIsBound, fieldVars, grpcVars
  <2>6. UsersAreConnected'
    BY <1>1, <1>2, <1>4, <1>5 DEF UsersAreConnected, Use, At
  <2>7. fault' \in {"none", "null_stub"}
    BY <1>1, <1>5 DEF Use
  <2>8. TypeOK'
    BY <1>1, <1>2, <1>4, <2>3, <2>7 DEF TypeOK, fieldVars, grpcVars
  <2> QED BY <1>3, <2>5, <2>6, <2>8 DEF IInv
<1>6. CASE Check(x) \/ RpcEnds(x) \/ RpcExpires(x)
  <2>1. UNCHANGED <<subs, fault>>
    BY <1>6 DEF Check, RpcEnds, RpcExpires, CallReturns, clientVars
  <2>2. UsersAreConnected'
    BY <1>1, <1>2, <1>4, <2>1 DEF UsersAreConnected
  <2>3. EndpointReaches' /\ PublishedIsBound'
    BY <1>1, <1>2, <2>1
    DEF EndpointReaches, PublishedIsBound, fieldVars, grpcVars
  <2>4. TypeOK'
    BY <1>1, <1>2, <1>4, <2>1 DEF TypeOK, fieldVars, grpcVars
  <2> QED BY <1>3, <2>2, <2>3, <2>4 DEF IInv
<1> QED BY <1>5, <1>6

\* The steps of a handler, and the arrival of a notification.
LEMMA HandlerStep ==
  ASSUME IInv, NEW n \in Calls, Handler(n) \/ SdkPushes(n)
  PROVE  IInv'
<1> USE ThreadFacts
<1>1. /\ TypeOK /\ OnlyCallbacksAct /\ OwnerAt /\ StopperAt /\ CloserStays
      /\ UsersAreConnected /\ ServingIsKnown /\ PublishedIsBound
      /\ EndpointReaches /\ fault = "none"
  BY DEF IInv, Handler, Invoke, CallbackCalls, CallbackStops, CallbackEnds,
         SdkPushes, Running, At, Sound
<1>2. CASE Invoke(n) \/ CallbackEnds(n) \/ SdkPushes(n)
  <2>1. /\ UNCHANGED <<fieldVars, service, implCallback, bound, session, doing,
                       connected, subs, fault>>
        /\ doing[n] = "nothing" /\ service # "down"
        /\ \A m \in Calls : m # n => rpc'[m] = rpc[m]
    BY <1>1, <1>2
    DEF Invoke, CallbackEnds, SdkPushes, Running, At, OnlyCallbacksAct, NoRpc,
        TypeOK, clientVars
  <2>2. rpc' \in [Calls -> [state : {"idle", "accepted", "running"},
                            with : Callbacks \cup {NoCallback}]]
        /\ request' \in [Threads -> Requests \cup {NoRequest, StopRequest}]
    BY <1>1, <1>2
    DEF TypeOK, Invoke, CallbackEnds, SdkPushes, NoRpc, clientVars
  <2>3. TypeOK'
    BY <1>1, <2>1, <2>2 DEF TypeOK, fieldVars
  <2> QED
    BY <1>1, <2>1, <2>3
    DEF IInv, OnlyCallbacksAct, OwnerAt, StopperAt, CloserStays,
        UsersAreConnected, ServingIsKnown, PublishedIsBound, EndpointReaches,
        fieldVars
<1>3. CASE CallbackCalls(n)
  <2>1. /\ doing' \in [Threads -> Activities] /\ doing'[n] = "check"
        /\ \A y \in Threads : y # n => doing'[y] = doing[y]
    BY <1>1, <1>3, Moves DEF CallbackCalls, Call, Activities
  <2>2. request' \in [Threads -> Requests \cup {NoRequest, StopRequest}]
    BY <1>1, <1>3, RequestType DEF CallbackCalls, Call, TypeOK
  <2> QED
    BY <1>1, <1>3, <2>1, <2>2
    DEF CallbackCalls, Call, Running, At, IInv, TypeOK, OnlyCallbacksAct,
        OwnerAt, StopperAt, CloserStays, UsersAreConnected, ServingIsKnown,
        PublishedIsBound, EndpointReaches, fieldVars, grpcVars
<1>4. CASE CallbackStops(n)
  <2>1. request' \in [Threads -> Requests \cup {NoRequest, StopRequest}]
    BY <1>1, <1>4 DEF CallbackStops, TypeOK
  <2> QED BY <1>4, <2>1, StopStep DEF CallbackStops, Running
<1> QED BY <1>2, <1>3, <1>4 DEF Handler

LEMMA IInvStep == IInv /\ [Next]_vars => IInv'
<1> SUFFICES ASSUME IInv, [Next]_vars PROVE IInv'
  OBVIOUS
<1>1. CASE UNCHANGED vars
  BY <1>1 DEF vars, fieldVars, grpcVars, clientVars, IInv, TypeOK,
              OnlyCallbacksAct, OwnerAt, StopperAt, CloserStays,
              UsersAreConnected, ServingIsKnown, PublishedIsBound,
              EndpointReaches
<1>2. CASE Next
  BY <1>2, OwnerStep, CallStep, ReturnStep, HandlerStep DEF Next, Perform
<1> QED BY <1>1, <1>2

\* The inductive invariant of the composition.
THEOREM InvariantHolds == Spec => []IInv
  BY IInvInit, IInvStep, PTL DEF Spec

\* Type correctness of the composition.
THEOREM TypeCorrect == Spec => []TypeOK
<1>1. IInv => TypeOK
  BY DEF IInv
<1> QED BY <1>1, InvariantHolds, PTL

\* A subscription made while the server is up reaches it, in any session.
THEOREM SubscriptionsReach == Spec => []EndpointReaches
<1>1. IInv => EndpointReaches
  BY DEF IInv
<1> QED BY <1>1, InvariantHolds, PTL

\* An application that stops the server before it disconnects never has a
\* callback call through a stub that is gone.
THEOREM OrderlyShutdown ==
  ASSUME StopFirst PROVE Spec => []CallbacksUseLiveClient
<1>1. IInv => CallbacksUseLiveClient
  BY DEF IInv, UsersAreConnected, CallbacksUseLiveClient
<1> QED BY <1>1, InvariantHolds, PTL

\* Whatever starts, stops and callbacks' stops came before: a server that
\* serves is the one server_ holds and running_ tells of, but for the steps of
\* its start from BuildAndStart on.
THEOREM ServingServerIsKnown == Spec => []ServingIsKnown
<1>1. IInv => ServingIsKnown
  BY DEF IInv
<1> QED BY <1>1, InvariantHolds, PTL

\* A callback in the Stop of the server it runs in stays there, and the server
\* stays closing, whatever the owner and the other callbacks do: its Shutdown
\* waits for the handler that calls it, which is in no position to end.
THEOREM StopInCallbackHangs == Spec => ReentrantStopIsFinal
<1>1. IInv /\ [Next]_vars =>
        [\A n \in Calls : doing[n] = "stop" =>
           doing'[n] = "stop" /\ service' # "down"]_vars
  <2> SUFFICES ASSUME IInv, Next, NEW n \in Calls, doing[n] = "stop"
               PROVE  doing'[n] = "stop" /\ service' # "down"
    OBVIOUS
  <2> USE ThreadFacts
  <2>1. Sound
    BY DEF Next, Owner, Register, StartBegins, StartFails, Serve, Assign,
           Publish, OwnerStops, Reconnect, Disconnect, Idle, Perform, Check,
           Use, StopReturns, RpcEnds, RpcExpires, Handler, Invoke,
           CallbackCalls, CallbackStops, CallbackEnds, SdkPushes, Running, At
  <2>2. /\ service = "closing" /\ server = "live"
        /\ rpc[n].state = "running" /\ TypeOK
        /\ doing[App] \notin {"build", "assign"}
    BY <2>1 DEF IInv, OnlyCallbacksAct, StopperAt, OwnerAt, Sound, TypeOK
  <2>3. ~NoneInFlight
    BY <2>2 DEF NoneInFlight, NoRpc
  <2>4. CASE Owner
    BY <2>2, <2>4
    DEF Owner, Register, StartBegins, StartFails, Serve, Assign, Publish,
        OwnerStops, Stop, Call, Reconnect, Disconnect, Goto, At, Idle, TypeOK,
        fieldVars, grpcVars, clientVars
  <2>5. ASSUME NEW x \in Threads, Perform(x) \/ RpcEnds(x) \/ RpcExpires(x)
        PROVE  doing'[n] = "stop" /\ service' # "down"
    BY <2>2, <2>3, <2>5
    DEF Perform, Check, Use, StopReturns, RpcEnds, RpcExpires, CallReturns,
        Goto, At, TypeOK, grpcVars
  <2>6. ASSUME NEW m \in Calls, Handler(m) \/ SdkPushes(m)
        PROVE  doing'[n] = "stop" /\ service' # "down"
    BY <2>2, <2>6
    DEF Handler, Invoke, CallbackCalls, Call, CallbackStops, Stop,
        CallbackEnds, SdkPushes, Running, At, Goto, TypeOK, grpcVars
  <2> QED BY <2>4, <2>5, <2>6 DEF Next
<1> QED BY <1>1, InvariantHolds, PTL DEF Spec, ReentrantStopIsFinal

-----------------------------------------------------------------------------
(***************************************************************************)
(* Without callbacks that stop it, the server is a NotificationService.    *)
(***************************************************************************)
\* The owner is the only caller, and what the service copied when it was made
\* is what is registered as long as there is a server.
OneCaller ==
  /\ \A n \in Calls : doing[n] \notin {"stop", "stale"}
  /\ service # "down" \/ doing[App] = "build" => implCallback = registered

LEMMA OneCallerInit == Init => OneCaller
  BY ThreadFacts DEF Init, OneCaller

\* An owner in no call finds the server up and running, or down.
LEMMA OwnersRest ==
  ASSUME IInv, OneCaller, Idle
  PROVE  /\ service = "up" => running
         /\ service # "closing"
         /\ server = "live" <=> service = "up"
<1>1. CloserStays /\ OwnerAt /\ ServingIsKnown /\ TypeOK /\ doing[App] = "nothing"
  BY DEF IInv, Idle, At, Sound
<1>2. service # "closing"
  BY <1>1, ThreadFacts DEF CloserStays, OneCaller
<1> QED BY <1>1, <1>2 DEF OwnerAt, ServingIsKnown, TypeOK

\* The owner's steps register, open and close the service.
LEMMA OwnerServes ==
  ASSUME IInv, OneCaller, Owner
  PROVE  [Service!Next]_(Service!vars) /\ OneCaller'
<1> USE ThreadFacts DEF Service!Next, Service!vars
<1>0. TypeOK
  BY DEF IInv
<1>1. ASSUME NEW callback \in Callbacks, Register(callback)
      PROVE  [Service!Next]_(Service!vars) /\ OneCaller'
  <2>1. service = "down" /\ doing[App] = "nothing"
    BY <1>0, <1>1, OwnersRest DEF Register, TypeOK, Idle, At
  <2>2. Service!Register(callback)
    BY <1>1, <2>1 DEF Register, Service!Register, grpcVars
  <2> QED BY <1>1, <2>1, <2>2 DEF Register, OneCaller, grpcVars
<1>2. ASSUME NEW given \in Ports \cup {0}, NEW auto \in BOOLEAN,
             StartBegins(given, auto)
      PROVE  UNCHANGED Service!vars /\ OneCaller'
  BY <1>0, <1>2, Moves DEF StartBegins, OneCaller, Activities
<1>3. CASE StartFails \/ Assign \/ Publish
  <2>1. UNCHANGED Service!vars /\ UNCHANGED implCallback
    BY <1>3 DEF StartFails, Assign, Publish, grpcVars
  <2>2. \A n \in Calls : doing'[n] = doing[n]
    BY <1>0, <1>3, Moves DEF StartFails, Assign, Publish, Activities
  <2>3. doing'[App] # "build"
    BY <1>0, <1>3, Moves DEF StartFails, Assign, Publish, Activities
  <2> QED BY <2>1, <2>2, <2>3 DEF OneCaller
<1>4. CASE Serve
  <2>1. service = "down" /\ doing[App] = "build"
    BY <1>4 DEF Serve, At, Sound, IInv, OwnerAt
  <2>2. Service!Open
    BY <1>4, <2>1 DEF Serve, Service!Open, fieldVars
  <2>3. \A n \in Calls : doing'[n] = doing[n]
    BY <1>0, <1>4, Moves DEF Serve, Activities
  <2> QED BY <1>4, <2>1, <2>2, <2>3 DEF Serve, OneCaller, fieldVars
<1>5. CASE OwnerStops
  <2>1. doing[App] = "nothing" /\ (server = "live" <=> service = "up")
    BY <1>5, OwnersRest DEF OwnerStops, Idle, At
  <2>2. /\ UNCHANGED <<registered, rpc, implCallback>>
        /\ \/ UNCHANGED service
           \/ server = "live" /\ service' = "closing"
    BY <1>5 DEF OwnerStops, Stop
  <2>3. [Service!Next]_(Service!vars)
    <3>1. CASE UNCHANGED service
      BY <2>2, <3>1
    <3>2. CASE server = "live" /\ service' = "closing"
      BY <2>1, <2>2, <3>2 DEF Service!Close
    <3> QED BY <2>2, <3>1, <3>2
  <2>4. \A n \in Calls : doing'[n] = doing[n]
    BY <1>0, <1>5, Moves DEF OwnerStops, Stop, Activities
  <2>5. doing'[App] # "build"
    BY <1>0, <1>5, <2>1, Moves DEF OwnerStops, Stop, Activities
  <2> QED BY <2>1, <2>2, <2>3, <2>4, <2>5 DEF OneCaller
<1>6. CASE Idle /\ Call(App)
  BY <1>0, <1>6, Moves
  DEF Call, OneCaller, Activities, fieldVars, grpcVars
<1>7. CASE Reconnect \/ Disconnect
  BY <1>7 DEF Reconnect, Disconnect, OneCaller, fieldVars, grpcVars
<1> QED BY <1>1, <1>2, <1>3, <1>4, <1>5, <1>6, <1>7 DEF Owner

\* A Stop's end closes the service; client calls leave it alone.
LEMMA CallServes ==
  ASSUME IInv, OneCaller, NEW x \in Threads,
         Perform(x) \/ RpcEnds(x) \/ RpcExpires(x)
  PROVE  [Service!Next]_(Service!vars) /\ OneCaller'
<1> USE ThreadFacts DEF Service!Next, Service!vars
<1>0. TypeOK
  BY DEF IInv
<1>1. CASE StopReturns(x)
  <2>1. x = App
    BY <1>1 DEF StopReturns, At, OneCaller
  <2>2. /\ doing[App] # "build" /\ doing'[App] # "build"
        /\ \A n \in Calls : doing'[n] = doing[n]
    BY <1>0, <1>1, <2>1, Moves DEF StopReturns, At, Activities
  <2>3. UNCHANGED <<registered, rpc, implCallback>>
    BY <1>1 DEF StopReturns
  <2>4. CASE UNCHANGED service
    BY <2>2, <2>3, <2>4 DEF OneCaller
  <2>5. CASE At(x, "stop") /\ NoneInFlight /\ service' = "down"
    <3>1. service = "closing"
      BY <2>5 DEF IInv, StopperAt, At, Sound
    <3>2. Service!Closed
      BY <2>3, <2>5, <3>1
      DEF Service!Closed, Service!Idle, NoneInFlight, NoRpc
    <3> QED BY <2>2, <2>3, <2>5, <3>2 DEF OneCaller
  <2> QED BY <1>1, <2>4, <2>5 DEF StopReturns
<1>2. CASE Check(x) \/ Use(x) \/ RpcEnds(x) \/ RpcExpires(x)
  <2>1. UNCHANGED <<fieldVars, grpcVars>>
    BY <1>2 DEF Check, Use, RpcEnds, RpcExpires, CallReturns
  <2>2. \A y \in Threads : doing'[y] \in {"nothing", "use", "wait", doing[y]}
    BY <1>0, <1>2, Moves
    DEF Check, Use, RpcEnds, RpcExpires, CallReturns, Activities
  <2>3. doing'[App] = "build" => doing[App] = "build"
    BY <2>2
  <2> QED BY <2>1, <2>2, <2>3 DEF OneCaller, fieldVars, grpcVars
<1> QED BY <1>1, <1>2 DEF Perform

\* Notifications arrive, run the registered callback and complete.
LEMMA HandlerServes ==
  ASSUME ~CallbacksStop, IInv, OneCaller, NEW n \in Calls,
         Handler(n) \/ SdkPushes(n)
  PROVE  [Service!Next]_(Service!vars) /\ OneCaller'
<1> USE ThreadFacts DEF Service!Next, Service!vars
<1>1. TypeOK /\ OnlyCallbacksAct
  BY DEF IInv
<1>2. CASE Invoke(n) \/ CallbackEnds(n) \/ SdkPushes(n)
  <2>1. UNCHANGED <<fieldVars, service, implCallback, doing>>
    BY <1>2 DEF Invoke, CallbackEnds, SdkPushes
  <2>2. rpc[n] # NoRpc => implCallback = registered
    BY <1>1 DEF OnlyCallbacksAct, OneCaller
  <2>3. CASE Invoke(n)
    <3>1. rpc[n] # NoRpc
      BY <2>3 DEF Invoke, NoRpc
    <3> QED BY <2>1, <2>2, <2>3, <3>1
            DEF Invoke, Service!Invoke, OneCaller, fieldVars
  <2>4. CASE CallbackEnds(n)
    <3>1. rpc[n] # NoRpc
      BY <2>4 DEF CallbackEnds, Running, NoRpc
    <3> QED BY <2>1, <2>2, <2>4, <3>1
            DEF CallbackEnds, Running, NoRpc, Service!Idle, Service!Complete,
                OneCaller, fieldVars
  <2>5. CASE SdkPushes(n)
    <3>1. [rpc[n] EXCEPT !.state = "accepted"]
            = [state |-> "accepted", with |-> NoCallback]
      BY <2>5 DEF SdkPushes, NoRpc
    <3> QED BY <2>1, <2>5, <3>1
            DEF SdkPushes, NoRpc, Service!Idle, Service!Arrive, OneCaller,
                fieldVars
  <2> QED BY <1>2, <2>3, <2>4, <2>5
<1>3. CASE CallbackCalls(n)
  BY <1>1, <1>3, Moves
  DEF CallbackCalls, Call, OneCaller, Activities, fieldVars, grpcVars
<1> QED BY <1>2, <1>3 DEF Handler, CallbackStops

\* As long as no callback stops it, the callback server the application, its
\* callbacks and the SDK server see, with the steps of its start and its Stop,
\* is a NotificationService: the contract that ClientCallbackServer is proved
\* to keep for one caller (CallbackServerProofs) is all the composition needs.
THEOREM UsesTheService ==
  ASSUME ~CallbacksStop PROVE Spec => Service!Safety
<1>1. Init => Service!Init
  BY DEF Init, Service!Init, Service!Idle, NoRpc
<1>2. IInv /\ OneCaller /\ [Next]_vars =>
        [Service!Next]_(Service!vars) /\ OneCaller'
  <2> SUFFICES ASSUME IInv, OneCaller, [Next]_vars
               PROVE  [Service!Next]_(Service!vars) /\ OneCaller'
    OBVIOUS
  <2>1. CASE UNCHANGED vars
    BY <2>1 DEF vars, fieldVars, grpcVars, Service!vars, OneCaller
  <2>2. CASE Next
    BY <2>2, OwnerServes, CallServes, HandlerServes DEF Next
  <2> QED BY <2>1, <2>2
<1> QED BY <1>1, <1>2, OneCallerInit, InvariantHolds, PTL DEF Spec, Service!Safety

-----------------------------------------------------------------------------
(***************************************************************************)
(* Who is in Stop when a start meets its server, and what is left of a     *)
(* notification while the server closes.                                   *)
(***************************************************************************)
\* A callback in a call of the client has its request, and one in Stop has
\* called Stop.
CallsHaveRequests ==
  \A n \in Calls :
    /\ doing[n] \in {"check", "use", "wait"} =>
         request[n] \notin {NoRequest, StopRequest}
    /\ doing[n] \in {"stop", "stale"} => request[n] = StopRequest

\* A start lets go of a server in use only under a callback that stops it, or
\* that stops the one before.
RestartNeedsStoppingCallback ==
  fault = "server_in_use" => \E n \in Calls : doing[n] \in {"stop", "stale"}

Closing == CallsHaveRequests /\ RestartNeedsStoppingCallback

\* The steps a notification has before it: none when there is no notification
\* and none when its callback is in the Stop that it never leaves.
Due(n) ==
  CASE rpc[n].state = "idle" -> 0
    [] rpc[n].state = "accepted" -> 8
    [] rpc[n].state = "running" ->
         CASE doing[n] = "stop" -> 0
           [] doing[n] = "stale" -> 2
           [] doing[n] = "check" -> 6
           [] doing[n] = "use" -> 5
           [] doing[n] = "wait" -> 4
           [] doing[n] = "nothing" ->
                CASE request[n] = NoRequest -> 7
                  [] request[n] = StopRequest -> 1
                  [] OTHER -> 3

\* Only a notification that is over, or whose callback is in Stop, has nothing
\* before it.
NoneForgotten ==
  \A n \in Calls :
    Due(n) \in Nat /\ (Due(n) = 0 => rpc[n].state = "idle" \/ doing[n] = "stop")

\* While the server is closing a step leaves a notification alone or brings it
\* nearer its end, and none takes the place of one that is over.
Drains ==
  service = "closing" =>
    \A n \in Calls :
      \/ rpc'[n] = rpc[n] /\ doing'[n] = doing[n] /\ request'[n] = request[n]
      \/ Due(n)' < Due(n)

LEMMA ClosingInit == Init => Closing
  BY ThreadFacts
  DEF Init, Closing, CallsHaveRequests, RestartNeedsStoppingCallback

\* The owner leaves the callbacks alone.
LEMMA OwnerApart ==
  ASSUME IInv, Owner, NEW n \in Calls
  PROVE  UNCHANGED <<rpc[n], doing[n], request[n]>>
<1>1. TypeOK /\ n \in Threads /\ n # App /\ App \in Threads
  BY ThreadFacts DEF IInv
<1>2. ASSUME NEW activity \in Activities, Goto(App, activity)
      PROVE  doing'[n] = doing[n]
  BY <1>1, <1>2, Moves
<1>3. CASE Idle /\ Call(App)
  BY <1>1, <1>2, <1>3 DEF Call, TypeOK, grpcVars, Activities
<1>4. CASE ~(Idle /\ Call(App))
  <2>1. UNCHANGED <<rpc, request>>
    BY <1>4
    DEF Owner, Register, StartBegins, StartFails, Serve, Assign, Publish,
        OwnerStops, Stop, Reconnect, Disconnect, grpcVars, clientVars
  <2>2. UNCHANGED doing \/ \E activity \in Activities : Goto(App, activity)
    BY <1>4
    DEF Owner, Register, StartBegins, StartFails, Serve, Assign, Publish,
        OwnerStops, Stop, Reconnect, Disconnect, Activities
  <2> QED BY <1>2, <2>1, <2>2
<1> QED BY <1>3, <1>4

\* A service that a start replaces under a notification is closing, by the Stop
\* of a callback.
LEMMA ReplacedIsClosing ==
  ASSUME IInv, Idle, ~running, ~NoneInFlight
  PROVE  \E n \in Calls : doing[n] = "stop"
<1>1. /\ TypeOK /\ OnlyCallbacksAct /\ CloserStays /\ ServingIsKnown
      /\ doing[App] = "nothing"
  BY DEF IInv, Idle, At
<1>2. service = "closing"
  BY <1>1 DEF OnlyCallbacksAct, ServingIsKnown, NoneInFlight, TypeOK
<1> QED BY <1>1, <1>2, ThreadFacts DEF CloserStays

LEMMA ClosingByOwner ==
  ASSUME IInv, Closing, Owner PROVE Closing'
<1>1. CallsHaveRequests'
  BY OwnerApart DEF Closing, CallsHaveRequests
<1>2. ASSUME fault' = "server_in_use"
      PROVE  \E n \in Calls : doing[n] \in {"stop", "stale"}
  <2>1. ASSUME NEW given \in Ports \cup {0}, NEW auto \in BOOLEAN,
               StartBegins(given, auto)
        PROVE  \E n \in Calls : doing[n] \in {"stop", "stale"}
    <3>1. Idle /\ ~running /\ ~NoneInFlight
      BY <1>2, <2>1 DEF StartBegins, Idle, At, Sound
    <3> QED BY <3>1, ReplacedIsClosing
  <2>2. CASE Assign
    BY <1>2, <2>2 DEF Assign, At, Sound
  <2>3. CASE UNCHANGED fault
    BY <1>2, <2>3 DEF Closing, RestartNeedsStoppingCallback
  <2> QED
    BY <2>1, <2>2, <2>3
    DEF Owner, Register, StartFails, Serve, Publish, OwnerStops, Stop, Call,
        Reconnect, Disconnect, clientVars
<1>3. RestartNeedsStoppingCallback'
  BY <1>2, OwnerApart DEF RestartNeedsStoppingCallback
<1> QED BY <1>1, <1>3 DEF Closing

\* The steps of a client call and the end of a Stop, on whichever thread.
LEMMA ClosingByCall ==
  ASSUME IInv, Closing, NEW x \in Threads,
         Perform(x) \/ RpcEnds(x) \/ RpcExpires(x)
  PROVE  Closing'
<1>1. TypeOK /\ \A n \in Calls : n \in Threads /\ n # App
  BY ThreadFacts DEF IInv
<1>2. fault' # "server_in_use"
  BY DEF Perform, Check, Use, StopReturns, RpcEnds, RpcExpires, CallReturns,
         At, Sound, clientVars
<1>3. \A n \in Calls : n # x => UNCHANGED <<doing[n], request[n]>>
  BY <1>1, Moves
  DEF Perform, Check, Use, StopReturns, RpcEnds, RpcExpires, CallReturns,
      Activities, TypeOK, clientVars
<1>4. x \in Calls =>
        /\ request'[x] = request[x]
        /\ \/ doing'[x] = "nothing"
           \/ doing[x] \in {"check", "use"} /\ doing'[x] \in {"use", "wait"}
  BY <1>1, Moves
  DEF Perform, Check, Use, StopReturns, RpcEnds, RpcExpires, CallReturns, At,
      Activities, TypeOK, clientVars
<1> QED BY <1>2, <1>3, <1>4
        DEF Closing, CallsHaveRequests, RestartNeedsStoppingCallback

\* The steps of a handler, and the arrival of a notification.
LEMMA ClosingByHandler ==
  ASSUME IInv, Closing, NEW n \in Calls, Handler(n) \/ SdkPushes(n)
  PROVE  Closing'
<1>1. TypeOK /\ n \in Threads /\ \A m \in Calls : m \in Threads
  BY ThreadFacts DEF IInv
<1>2. fault' # "server_in_use"
  BY DEF Handler, Invoke, CallbackCalls, Call, CallbackStops, Stop,
         CallbackEnds, SdkPushes, Running, At, Sound, clientVars
<1>3. \A m \in Calls : m # n => UNCHANGED <<doing[m], request[m]>>
  BY <1>1, Moves
  DEF Handler, Invoke, CallbackCalls, Call, CallbackStops, Stop, CallbackEnds,
      SdkPushes, Activities, TypeOK, clientVars
<1>4. /\ doing'[n] \in {"check", "use", "wait"} =>
           request'[n] \notin {NoRequest, StopRequest}
      /\ doing'[n] \in {"stop", "stale"} => request'[n] = StopRequest
  <2>1. CASE Invoke(n) \/ SdkPushes(n)
    BY <2>1 DEF Invoke, SdkPushes, Closing, CallsHaveRequests, clientVars
  <2>2. CASE CallbackCalls(n)
    BY <1>1, <2>2, RequestType, Moves
    DEF CallbackCalls, Call, Activities, TypeOK
  <2>3. CASE CallbackStops(n)
    BY <1>1, <2>3, Moves
    DEF CallbackStops, Stop, Running, At, Activities, TypeOK
  <2>4. CASE CallbackEnds(n)
    <3>1. doing'[n] = "nothing"
      BY <1>1, <2>4
      DEF CallbackEnds, Running, At, IInv, OnlyCallbacksAct
    <3> QED BY <3>1
  <2> QED BY <2>1, <2>2, <2>3, <2>4 DEF Handler
<1> QED BY <1>2, <1>3, <1>4
        DEF Closing, CallsHaveRequests, RestartNeedsStoppingCallback

LEMMA ClosingStep == IInv /\ Closing /\ [Next]_vars => Closing'
<1> SUFFICES ASSUME IInv, Closing, [Next]_vars PROVE Closing'
  OBVIOUS
<1>1. CASE UNCHANGED vars
  BY <1>1 DEF vars, clientVars, Closing, CallsHaveRequests,
              RestartNeedsStoppingCallback
<1>2. CASE Next
  BY <1>2, ClosingByOwner, ClosingByCall, ClosingByHandler DEF Next
<1> QED BY <1>1, <1>2

LEMMA ClosingHolds == Spec => []Closing
  BY ClosingInit, ClosingStep, InvariantHolds, PTL DEF Spec

\* Stop clears running_ before it waits (client_callback_server.cpp:75-82), so
\* a start may be let in meanwhile; it replaces a service or a server in use
\* only when a callback called Stop: the owner is in no call, and a Stop of its
\* own that ended has left nothing in flight.
THEOREM RestartInUseIsACallbacksDoing == Spec => []RestartNeedsStoppingCallback
<1>1. Closing => RestartNeedsStoppingCallback
  BY DEF Closing
<1> QED BY <1>1, ClosingHolds, PTL

LEMMA DueType == IInv => NoneForgotten
<1> SUFFICES ASSUME IInv, NEW n \in Calls
             PROVE  /\ Due(n) \in Nat
                    /\ Due(n) = 0 => rpc[n].state = "idle" \/ doing[n] = "stop"
  BY DEF NoneForgotten
<1>1. rpc[n].state \in {"idle", "accepted", "running"}
      /\ doing[n] \in {"nothing", "check", "use", "wait", "stop", "stale"}
  BY ThreadFacts DEF IInv, TypeOK, OnlyCallbacksAct, Activities
<1> QED BY <1>1 DEF Due

\* The steps of a client call and the end of a Stop.
LEMMA DrainsByCall ==
  ASSUME IInv, Closing, NEW x \in Threads,
         Perform(x) \/ RpcEnds(x) \/ RpcExpires(x)
  PROVE  Drains
<1> SUFFICES ASSUME NEW n \in Calls
             PROVE  \/ rpc'[n] = rpc[n] /\ doing'[n] = doing[n]
                       /\ request'[n] = request[n]
                    \/ Due(n)' < Due(n)
  BY DEF Drains
<1>0. /\ TypeOK /\ n \in Threads /\ n # App
      /\ rpc[n].state \in {"idle", "accepted", "running"}
      /\ doing[n] # "nothing" => rpc[n].state = "running"
      /\ doing[n] \in {"check", "use", "wait"} =>
           request[n] \notin {NoRequest, StopRequest}
      /\ doing[n] \in {"stop", "stale"} => request[n] = StopRequest
      /\ doing[n] = "stop" => ~NoneInFlight
  BY ThreadFacts
  DEF IInv, TypeOK, OnlyCallbacksAct, Closing, CallsHaveRequests, NoneInFlight,
      NoRpc
<1>1. UNCHANGED rpc
  BY DEF Perform, Check, Use, StopReturns, RpcEnds, RpcExpires, CallReturns,
         grpcVars
<1>2. CASE x # n
  <2>1. doing'[n] = doing[n] /\ request'[n] = request[n]
    BY <1>0, <1>2, Moves
    DEF Perform, Check, Use, StopReturns, RpcEnds, RpcExpires, CallReturns,
        Activities, TypeOK, clientVars
  <2> QED BY <1>1, <2>1
<1>3. CASE x = n
  <2>1. request'[n] = request[n]
    BY <1>0, <1>3
    DEF Perform, Check, Use, StopReturns, RpcEnds, RpcExpires, CallReturns,
        clientVars, TypeOK
  <2>2. \/ doing[n] = "check" /\ doing'[n] \in {"use", "nothing"}
        \/ doing[n] = "use" /\ doing'[n] = "wait"
        \/ doing[n] \in {"wait", "stale"} /\ doing'[n] = "nothing"
    BY <1>0, <1>3, Moves
    DEF Perform, Check, Use, StopReturns, RpcEnds, RpcExpires, CallReturns, At,
        Activities
  <2>3. rpc[n].state = "running" /\ rpc'[n].state = "running"
    BY <1>0, <1>1, <2>2
  <2>4. CASE doing'[n] = "use" \/ doing'[n] = "wait"
    BY <2>2, <2>3, <2>4 DEF Due
  <2>5. CASE doing[n] \in {"check", "wait"} /\ doing'[n] = "nothing"
    <3>1. Due(n)' = 3
      BY <1>0, <2>1, <2>3, <2>5 DEF Due
    <3>2. Due(n) \in {4, 6}
      BY <2>3, <2>5 DEF Due
    <3> QED BY <3>1, <3>2
  <2>6. CASE doing[n] = "stale" /\ doing'[n] = "nothing"
    <3>1. Due(n)' = 1
      BY <1>0, <2>1, <2>3, <2>6 DEF Due, NoRequest, StopRequest
    <3>2. Due(n) = 2
      BY <2>3, <2>6 DEF Due
    <3> QED BY <3>1, <3>2
  <2> QED BY <2>2, <2>4, <2>5, <2>6
<1> QED BY <1>2, <1>3

\* The steps of a handler; a closing server lets no notification arrive.
LEMMA DrainsByHandler ==
  ASSUME IInv, Closing, NEW m \in Calls, Handler(m) \/ SdkPushes(m)
  PROVE  Drains
<1> SUFFICES ASSUME service = "closing", NEW n \in Calls
             PROVE  \/ rpc'[n] = rpc[n] /\ doing'[n] = doing[n]
                       /\ request'[n] = request[n]
                    \/ Due(n)' < Due(n)
  BY DEF Drains
<1>0. /\ TypeOK /\ n \in Threads /\ m \in Threads /\ n # App
      /\ rpc[n].state # "running" => doing[n] = "nothing"
  BY ThreadFacts DEF IInv, OnlyCallbacksAct
<1>1. CASE m # n
  <2>1. doing'[n] = doing[n]
    BY <1>0, <1>1, Moves
    DEF Handler, SdkPushes, Invoke, CallbackCalls, Call, CallbackStops, Stop,
        CallbackEnds, Activities
  <2>2. rpc'[n] = rpc[n] /\ request'[n] = request[n]
    BY <1>0, <1>1
    DEF Handler, SdkPushes, Invoke, CallbackCalls, Call, CallbackStops, Stop,
        CallbackEnds, TypeOK, grpcVars, clientVars
  <2> QED BY <2>1, <2>2
<1>2. CASE m = n
  <2>1. CASE Invoke(n)
    <3>1. rpc[n].state = "accepted" /\ rpc'[n].state = "running"
          /\ doing'[n] = "nothing"
      BY <1>0, <2>1 DEF Invoke, TypeOK
    <3>2. Due(n)' \in {1, 3, 7}
      BY <3>1 DEF Due
    <3>3. Due(n) = 8
      BY <3>1 DEF Due
    <3> QED BY <3>2, <3>3
  <2>2. CASE CallbackCalls(n)
    <3>1. rpc[n].state = "running" /\ rpc'[n].state = "running"
          /\ doing[n] = "nothing" /\ request[n] = NoRequest
          /\ doing'[n] = "check"
      BY <1>0, <2>2, Moves
      DEF CallbackCalls, Call, Running, At, Activities, grpcVars
    <3>2. Due(n) = 7
      BY <3>1 DEF Due, NoRequest, StopRequest
    <3>3. Due(n)' = 6
      BY <3>1 DEF Due
    <3> QED BY <3>2, <3>3
  <2>3. CASE CallbackStops(n)
    <3>1. /\ rpc[n].state = "running" /\ rpc'[n].state = "running"
          /\ doing[n] = "nothing" /\ request[n] # StopRequest
          /\ doing'[n] \in {"nothing", "stale", "stop"}
          /\ request'[n] = StopRequest
      BY <1>0, <2>3, Moves
      DEF CallbackStops, Stop, Running, At, Activities, TypeOK
    <3>2. Due(n) \in {3, 7}
      BY <3>1 DEF Due
    <3>3. Due(n)' \in {0, 1, 2}
      BY <3>1 DEF Due, NoRequest, StopRequest
    <3> QED BY <3>2, <3>3
  <2>4. CASE CallbackEnds(n)
    <3>1. rpc[n].state \in {"accepted", "running"} /\ doing[n] = "nothing"
          /\ rpc'[n].state = "idle"
      BY <1>0, <2>4 DEF CallbackEnds, Running, At, NoRpc, TypeOK
    <3>2. Due(n) \in {1, 3, 7, 8}
      BY <3>1 DEF Due
    <3>3. Due(n)' = 0
      BY <3>1 DEF Due
    <3> QED BY <3>2, <3>3
  <2>5. CASE SdkPushes(n)
    BY <2>5 DEF SdkPushes
  <2> QED BY <1>2, <2>1, <2>2, <2>3, <2>4, <2>5 DEF Handler
<1> QED BY <1>1, <1>2

LEMMA DrainsStep == IInv /\ Closing /\ [Next]_vars => Drains
<1> SUFFICES ASSUME IInv, Closing, [Next]_vars PROVE Drains
  OBVIOUS
<1>1. CASE UNCHANGED vars
  BY <1>1 DEF vars, grpcVars, clientVars, Drains
<1>2. CASE Owner
  BY <1>2, OwnerApart DEF Drains
<1> QED BY <1>1, <1>2, DrainsByCall, DrainsByHandler DEF Next

\* Shutdown lets no notification in and those in flight run out, a callback's
\* call of the client included: each has at most eight steps before it, every
\* step of its own takes it nearer its end, and no step of another sets it
\* back.  What it may wait for is an answer of the SDK server, or its own Stop.
THEOREM NotificationsRunOut == Spec => []NoneForgotten /\ [][Drains]_vars
<1>1. IInv /\ Closing /\ [Next]_vars => [Drains]_vars
  BY DrainsStep
<1> QED BY <1>1, DueType, ClosingHolds, InvariantHolds, PTL DEF Spec
=============================================================================
