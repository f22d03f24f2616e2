----------------------- MODULE CallbackServerProofs -----------------------
(***************************************************************************)
(* Theorems of CallbackServer, for any callers, callbacks, ports, RPC      *)
(* slots and number of starts.                                             *)
(***************************************************************************)
EXTENDS CallbackServerOwned, TLAPS

USE DEF Sound, At

-----------------------------------------------------------------------------
\* What the constants' sets contain.
LEMMA Elements ==
  /\ Generations \subseteq GenerationOrNull
  /\ 0 \in GenerationOrNull
  /\ \A g \in GenerationOrNull : g # 0 => g \in Generations
  /\ Ports \subseteq PortOrZero /\ 0 \in PortOrZero
  /\ NoCallback \in CallbackOrNone
  /\ \A i \in GenerationOrNull : i < MaxStarts => i + 1 \in Generations
  BY MaxStartsAssumption, PortsAssumption
  DEF Generations, GenerationOrNull, PortOrZero, CallbackOrNone

\* A caller's locals, updated field by field.
LEMMA FrameFields ==
  ASSUME NEW f \in Frames
  PROVE  /\ f.auto \in BOOLEAN /\ f.port \in PortOrZero
         /\ f.callback \in CallbackOrNone
         /\ f.gen \in GenerationOrNull /\ f.old \in GenerationOrNull
         /\ \A g \in GenerationOrNull : [f EXCEPT !.gen = g] \in Frames
         /\ \A g \in GenerationOrNull, p \in PortOrZero :
              [f EXCEPT !.old = g, !.port = p] \in Frames
         /\ \A k \in CallbackOrNone : [f EXCEPT !.callback = k] \in Frames
         /\ \A a \in BOOLEAN, p \in PortOrZero, g \in GenerationOrNull :
              [f EXCEPT !.auto = a, !.port = p, !.gen = g] \in Frames
  BY DEF Frames

\* An accepted RPC whose callback is invoked remains an RPC.
LEMMA RpcRunning ==
  ASSUME NEW r \in Rpcs
  PROVE  [r EXCEPT !.state = "running"] \in Rpcs
  BY DEF Rpcs

\* The empty locals are locals.
LEMMA NoFrameType == NoFrame \in Frames
  BY Elements DEF NoFrame, Frames

\* Type correctness holds for any number of application threads.
LEMMA TypeInit == Init => TypeOK
<1> SUFFICES ASSUME Init PROVE TypeOK
  OBVIOUS
<1>1. call \in [Calls -> Rpcs]
  <2>1. [state |-> "idle", gen |-> 0, reply |-> "none"] \in Rpcs
    BY Elements DEF Rpcs
  <2> QED BY <2>1 DEF Init
<1>2. frame \in [Callers -> Frames]
  BY NoFrameType DEF Init
<1> QED BY <1>1, <1>2, Elements DEF Init, TypeOK, Labels, Outcomes

\* Every step keeps the types: callers' operations, their statements, the
\* server thread, the handlers, gRPC.
LEMMA TypeStep == TypeOK /\ [Next]_vars => TypeOK'
<1> SUFFICES ASSUME TypeOK, [Next]_vars PROVE TypeOK'
  OBVIOUS
<1> USE Elements, FrameFields, NoFrameType
    DEF TypeOK, implVars, grpcVars, threadVars, callerVars, Labels,
        Outcomes, Goto, Done, Return, Ready, EnterStart, ShutDown,
        ReplaceServer, ClearRunning, StopDone, Answer
<1>1. ASSUME NEW c \in Callers, Begin(c) PROVE TypeOK'
  <2>1. CASE Construct(c)
    BY <2>1 DEF Construct
  <2>2. CASE Destroy(c)
    BY <2>2 DEF Destroy
  <2>3. ASSUME NEW port \in PortOrZero, NEW callback \in CallbackOrNone,
               CreateCallbackServer(c, port, callback)
        PROVE  TypeOK'
    BY <2>3 DEF CreateCallbackServer
  <2>4. ASSUME NEW port \in PortOrZero, Start(c, port) PROVE TypeOK'
    BY <2>4 DEF Start
  <2>5. CASE StartWithAutoPort(c)
    BY <2>5 DEF StartWithAutoPort
  <2>6. CASE StartRefused(c)
    BY <2>6 DEF StartRefused
  <2>7. CASE Stop(c)
    BY <2>7 DEF Stop
  <2>8. ASSUME NEW callback \in CallbackOrNone,
               SetSubscriptionMessageCallback(c, callback)
        PROVE  TypeOK'
    BY <2>8 DEF SetSubscriptionMessageCallback
  <2>9. CASE SetRefused(c)
    BY <2>9 DEF SetRefused
  <2> QED BY <1>1, <2>1, <2>2, <2>3, <2>4, <2>5, <2>6, <2>7, <2>8, <2>9
          DEF Begin
<1>2. ASSUME NEW c \in Callers, Continue(c) PROVE TypeOK'
  <2>1. CASE SetListen(c)
    BY <2>1 DEF SetListen
  <2>2. CASE NewService(c)
    BY <2>2 DEF NewService
  <2>3. CASE BuildSucceeds(c)
    <3>1. PICK p \in IF frame[c].port = 0 THEN Ports ELSE {frame[c].port} :
            /\ boundPort' = [boundPort EXCEPT ![frame[c].gen] = p]
            /\ ReplaceServer(c, frame[c].gen, p)
      BY <2>3 DEF BuildSucceeds
    <3>2. p \in PortOrZero
      OBVIOUS
    <3> QED BY <2>3, <3>1, <3>2 DEF BuildSucceeds
  <2>4. CASE BuildFails(c)
    BY <2>4 DEF BuildFails
  <2>5. CASE Reaped(c)
    <3>1. CASE server = 0
      BY <2>5, <3>1, ZenonT(30) DEF Reaped
    <3>2. CASE ~(server = 0)
      BY <2>5, <3>2 DEF Reaped
    <3> QED BY <3>1, <3>2
  <2>6. CASE PublishPort(c)
    BY <2>6 DEF PublishPort
  <2>7. CASE SetRunning(c)
    BY <2>7 DEF SetRunning
  <2>8. CASE Spawn(c)
    BY <2>8 DEF Spawn
  <2>9. CASE SpawnFails(c)
    BY <2>9 DEF SpawnFails
  <2>10. CASE StopTest(c)
    <3>1. CASE server = 0
      BY <2>10, <3>1, ZenonT(30) DEF StopTest
    <3>2. CASE ~(server = 0)
      BY <2>10, <3>2 DEF StopTest
    <3> QED BY <3>1, <3>2
  <2>11. CASE StopShutdown(c)
    BY <2>11 DEF StopShutdown
  <2>12. CASE StopDrained(c)
    BY <2>12 DEF StopDrained
  <2>13. CASE StopJoinable(c)
    <3>1. CASE serverThread = 0
      BY <2>13, <3>1, ZenonT(30) DEF StopJoinable
    <3>2. CASE ~(serverThread = 0)
      BY <2>13, <3>2 DEF StopJoinable
    <3> QED BY <3>1, <3>2
  <2>14. CASE StopJoin(c)
    <3>1. CASE life = "dying"
      BY <2>14, <3>1 DEF StopJoin
    <3>2. CASE life # "dying"
      BY <2>14, <3>2 DEF StopJoin
    <3> QED BY <3>1, <3>2
  <2>15. CASE Free(c)
    BY <2>15 DEF Free
  <2>16. CASE AssignCallback(c)
    BY <2>16 DEF AssignCallback
  <2> QED BY <1>2, <2>1, <2>2, <2>3, <2>4, <2>5, <2>6, <2>7, <2>8, <2>9, <2>10,
             <2>11, <2>12, <2>13, <2>14, <2>15, <2>16 DEF Continue
<1>3. ASSUME NEW g \in Generations, Thread(g) \/ Drained(g) PROVE TypeOK'
  <2>1. CASE ThreadWaits(g)
    BY <2>1 DEF ThreadWaits
  <2>2. CASE ThreadEnds(g)
    BY <2>2 DEF ThreadEnds
  <2>3. CASE Drained(g)
    BY <2>3 DEF Drained
  <2> QED BY <1>3, <2>1, <2>2, <2>3 DEF Thread
<1>4. ASSUME NEW n \in Calls, Handle(n) PROVE TypeOK'
  <2>1. CASE AckWithoutCallback(n)
    BY <2>1 DEF AckWithoutCallback, Rpcs
  <2>2. CASE InvokeCallback(n)
    <3>1. [call[n] EXCEPT !.state = "running"] \in Rpcs
      BY RpcRunning
    <3> QED BY <2>2, <3>1 DEF InvokeCallback
  <2>3. CASE CallbackReturns(n)
    BY <2>3 DEF CallbackReturns, Rpcs
  <2>4. CASE CallbackThrows(n)
    <3>1. PICK reply \in {"callback_failed", "unknown"} : Answer(n, reply)
      BY <2>4 DEF CallbackThrows
    <3> QED BY <3>1 DEF Rpcs
  <2> QED BY <1>4, <2>1, <2>2, <2>3, <2>4 DEF Handle
<1>5. ASSUME NEW n \in Calls, NEW g \in Generations, Push(n, g) PROVE TypeOK'
  BY <1>5 DEF Push, Rpcs
<1>6. CASE UNCHANGED vars
  BY <1>6 DEF vars
<1> QED BY <1>1, <1>2, <1>3, <1>4, <1>5, <1>6 DEF Next

(***************************************************************************)
(* Every variable keeps its type, however many threads call the object.    *)
(***************************************************************************)
THEOREM TypeCorrect == Spec => []TypeOK
<1>1. Init => TypeOK
  BY TypeInit
<1>2. TypeOK /\ [Next]_vars => TypeOK'
  BY TypeStep
<1> QED BY <1>1, <1>2, PTL DEF Spec

-----------------------------------------------------------------------------
(***************************************************************************)
(* What holds however many threads call the object, without a lock: every  *)
(* accepted start has a generation of its own, whose server serves at most *)
(* once.                                                                   *)
(***************************************************************************)
Starting == {"listen", "service", "build"}

OwnGeneration ==
  \A c \in Callers : pc[c] \in Starting =>
    /\ frame[c].gen \in 1 .. attempts
    /\ phase[frame[c].gen] = "absent"
    /\ \A d \in Callers \ {c} : pc[d] \in Starting =>
         frame[d].gen # frame[c].gen

Unused == \A g \in Generations : g > attempts => phase[g] = "absent"

ServedInTime ==
  \A n \in Calls :
    IF InFlight(n) THEN /\ call[n].gen \in Generations
                        /\ phase[call[n].gen] \in {"serving", "draining"}
                   ELSE call[n].gen = 0

Lineage == TypeOK /\ Unused /\ OwnGeneration /\ ServedInTime

\* What a step may do to a server that exists.
ServersMoveOn ==
  \A g \in Generations :
    /\ phase[g] = "draining" => phase'[g] \in {"draining", "stopped"}
    /\ phase[g] = "stopped" => phase'[g] = "stopped"
    /\ phase[g] # "absent" =>
         boundPort'[g] = boundPort[g] /\ implCallback'[g] = implCallback[g]
    /\ phase[g] # "serving" =>
         \A n \in Calls : call'[n].gen = g => call[n].gen = g

LEMMA LineageInit == Init => Lineage
  BY TypeInit DEF Init, Lineage, Unused, OwnGeneration, ServedInTime, Starting,
                  InFlight

\* Beginning an operation takes the next generation, or none.
LEMMA LineageBegin ==
  ASSUME Lineage, TypeOK', NEW c \in Callers, Begin(c)
  PROVE  Lineage' /\ ServersMoveOn
<1> USE Elements
    DEF Lineage, Unused, OwnGeneration, ServedInTime, ServersMoveOn, Starting,
        InFlight, TypeOK, Generations, GenerationOrNull, NoFrame, implVars,
        grpcVars, threadVars, callerVars, Done, Return, Ready, EnterStart,
        ClearRunning
<1>1. CASE Construct(c)
  BY <1>1 DEF Construct
<1>2. CASE Destroy(c)
  BY <1>2 DEF Destroy
<1>3. ASSUME NEW port \in PortOrZero, NEW callback \in CallbackOrNone,
             CreateCallbackServer(c, port, callback)
      PROVE  Lineage' /\ ServersMoveOn
  BY <1>3 DEF CreateCallbackServer
<1>4. ASSUME NEW port \in PortOrZero, Start(c, port)
      PROVE  Lineage' /\ ServersMoveOn
  BY <1>4 DEF Start
<1>5. CASE StartWithAutoPort(c)
  BY <1>5 DEF StartWithAutoPort
<1>6. CASE StartRefused(c)
  BY <1>6 DEF StartRefused
<1>7. CASE Stop(c)
  BY <1>7 DEF Stop
<1>8. ASSUME NEW callback \in CallbackOrNone,
             SetSubscriptionMessageCallback(c, callback)
      PROVE  Lineage' /\ ServersMoveOn
  BY <1>8 DEF SetSubscriptionMessageCallback
<1>9. CASE SetRefused(c)
  BY <1>9, SMTT(30) DEF SetRefused
<1> QED BY <1>1, <1>2, <1>3, <1>4, <1>5, <1>6, <1>7, <1>8, <1>9 DEF Begin

\* A statement creates the caller's own server or shuts down the one held.
LEMMA LineageContinue ==
  ASSUME Lineage, TypeOK', NEW c \in Callers, Continue(c)
  PROVE  Lineage' /\ ServersMoveOn
<1> USE Elements
    DEF Lineage, Unused, OwnGeneration, ServedInTime, ServersMoveOn, Starting,
        InFlight, TypeOK, Generations, GenerationOrNull, NoFrame, implVars,
        grpcVars, threadVars, callerVars, Goto, Done, Return, ShutDown,
        ReplaceServer, StopDone
<1>1. CASE SetListen(c)
  BY <1>1 DEF SetListen
<1>2. CASE NewService(c)
  BY <1>2 DEF NewService
<1>3. CASE BuildSucceeds(c)
  <2> DEFINE g == frame[c].gen
  <2>1. g \in Generations /\ g <= attempts /\ phase[g] = "absent"
    BY <1>3 DEF BuildSucceeds
  <2>2. PICK p \in IF frame[c].port = 0 THEN Ports ELSE {frame[c].port} :
          boundPort' = [boundPort EXCEPT ![g] = p] /\ ReplaceServer(c, g, p)
    BY <1>3, Zenon DEF BuildSucceeds
  <2>3. phase'[g] = "serving"
    BY <1>3, <2>1 DEF BuildSucceeds
  <2>4. ASSUME NEW h \in Generations, h # g
        PROVE  \/ phase'[h] = phase[h]
               \/ phase[h] = "serving" /\ phase'[h] = "draining"
    BY <1>3, <2>1, <2>4 DEF BuildSucceeds
  <2>5. /\ UNCHANGED <<call, attempts, implCallback>>
        /\ pc' = [pc EXCEPT ![c] = "reap"]
        /\ \A d \in Callers \ {c} : frame'[d] = frame[d]
    BY <1>3, <2>2 DEF BuildSucceeds
  <2>6. Unused'
    BY <2>1, <2>4, <2>5, SMTT(30)
  <2>7. OwnGeneration'
    <3>1. ASSUME NEW d \in Callers, pc'[d] \in Starting
          PROVE  /\ d # c /\ pc[d] \in Starting /\ frame'[d] = frame[d]
                 /\ frame[d].gen # g
      BY <1>3, <2>5, <3>1 DEF BuildSucceeds
    <3>2. ASSUME NEW d \in Callers, pc'[d] \in Starting
          PROVE  phase'[frame[d].gen] = "absent"
      <4> DEFINE h == frame[d].gen
      <4>1. h \in Generations /\ h # g /\ phase[h] = "absent"
        <5>1. pc[d] \in Starting /\ h # g
          BY <3>1, <3>2
        <5>2. h \in 1 .. attempts /\ phase[h] = "absent"
          BY <5>1
        <5> QED BY <5>1, <5>2, MaxStartsAssumption
      <4> HIDE DEF h
      <4>2. phase'[h] = "absent"
        BY <4>1, <2>4
      <4> QED BY <4>2 DEF h
    <3> QED BY <2>5, <3>1, <3>2
  <2>8. ServedInTime'
    BY <2>1, <2>3, <2>4, <2>5, ZenonT(30)
  <2>9. ServersMoveOn
    BY <2>1, <2>2, <2>3, <2>4, <2>5
  <2> QED BY <2>6, <2>7, <2>8, <2>9
<1>4. CASE BuildFails(c)
  BY <1>4 DEF BuildFails
<1>5. CASE Reaped(c)
  BY <1>5 DEF Reaped
<1>6. CASE PublishPort(c)
  BY <1>6 DEF PublishPort
<1>7. CASE SetRunning(c)
  BY <1>7 DEF SetRunning
<1>8. CASE Spawn(c)
  BY <1>8 DEF Spawn
<1>9. CASE SpawnFails(c)
  BY <1>9 DEF SpawnFails
<1>10. CASE StopTest(c)
  BY <1>10, SMTT(30) DEF StopTest
<1>11. CASE StopShutdown(c)
  BY <1>11 DEF StopShutdown
<1>12. CASE StopDrained(c)
  BY <1>12 DEF StopDrained
<1>13. CASE StopJoinable(c)
  BY <1>13, SMTT(30) DEF StopJoinable
<1>14. CASE StopJoin(c)
  BY <1>14 DEF StopJoin
<1>15. CASE Free(c)
  BY <1>15 DEF Free
<1>16. CASE AssignCallback(c)
  BY <1>16 DEF AssignCallback
<1> QED BY <1>1, <1>2, <1>3, <1>4, <1>5, <1>6, <1>7, <1>8, <1>9, <1>10, <1>11,
           <1>12, <1>13, <1>14, <1>15, <1>16 DEF Continue

\* Threads, handlers and gRPC: a push needs a server that serves, a shutdown
\* ends without RPCs.
LEMMA LineageServe ==
  ASSUME Lineage, TypeOK',
         \/ \E g \in Generations : Thread(g) \/ Drained(g)
         \/ \E n \in Calls : Handle(n)
         \/ \E n \in Calls, g \in Generations : Push(n, g)
  PROVE  Lineage' /\ ServersMoveOn
<1> USE Elements
    DEF Lineage, Unused, OwnGeneration, ServedInTime, ServersMoveOn, Starting,
        InFlight, TypeOK, Generations, GenerationOrNull, implVars, grpcVars,
        threadVars, callerVars, Answer
<1>1. ASSUME NEW g \in Generations, Thread(g) PROVE Lineage' /\ ServersMoveOn
  BY <1>1 DEF Thread, ThreadWaits, ThreadEnds
<1>2. ASSUME NEW g \in Generations, Drained(g)
      PROVE  Lineage' /\ ServersMoveOn
  BY <1>2 DEF Drained
<1>3. ASSUME NEW n \in Calls, InvokeCallback(n)
      PROVE  Lineage' /\ ServersMoveOn
  BY <1>3 DEF InvokeCallback, Rpcs
<1>4. ASSUME NEW n \in Calls,
             AckWithoutCallback(n) \/ CallbackReturns(n) \/ CallbackThrows(n)
      PROVE  Lineage' /\ ServersMoveOn
  <2>1. PICK reply \in {"ack", "callback_failed", "unknown"} :
          Answer(n, reply)
    BY <1>4 DEF AckWithoutCallback, CallbackReturns, CallbackThrows
  <2> QED BY <2>1
<1>5. ASSUME NEW n \in Calls, NEW g \in Generations, Push(n, g)
      PROVE  Lineage' /\ ServersMoveOn
  BY <1>5 DEF Push
<1> QED BY <1>1, <1>2, <1>3, <1>4, <1>5 DEF Handle

LEMMA LineageStep == Lineage /\ [Next]_vars => Lineage' /\ [ServersMoveOn]_vars
<1> SUFFICES ASSUME Lineage, [Next]_vars
             PROVE  Lineage' /\ [ServersMoveOn]_vars
  OBVIOUS
<1>1. TypeOK'
  BY TypeStep DEF Lineage
<1>2. CASE UNCHANGED vars
  BY <1>2 DEF vars, implVars, grpcVars, threadVars, callerVars, Lineage,
     TypeOK, Unused, OwnGeneration, ServedInTime, InFlight
<1> QED BY <1>1, <1>2, LineageBegin, LineageContinue, LineageServe DEF Next

(***************************************************************************)
(* Whichever threads race: a server that has been shut down never serves   *)
(* again and takes no new notification, and as long as a server exists its *)
(* port and the callback its service copied stay what they were.           *)
(***************************************************************************)
THEOREM ServersNeverRevive == Spec => [][ServersMoveOn]_vars
  BY LineageInit, LineageStep, PTL DEF Spec

-----------------------------------------------------------------------------
\* Before the object is constructed nothing is up.
LEMMA IInvInit == Init => IInv
  BY TypeInit, Elements, SMTT(30)
  DEF Init, IInv, NeverAborts, FreshGenerations, OnlyHeldIsUp, ServedByHeld,
      HeldIsConsistent, ThreadIsHeld, Up, Serving, Down, Control, InFlight

\* Beginning an operation preserves the invariant.
LEMMA IInvBegin ==
  ASSUME IInv, TypeOK', NEW c \in Callers, Begin(c) PROVE IInv'
<1> USE OneOwner, Elements
    DEF IInv, NeverAborts, FreshGenerations, OnlyHeldIsUp, ServedByHeld,
        HeldIsConsistent, ThreadIsHeld, Up, Serving, Down, Building, Built,
        Control, InFlight, TypeOK, Generations, GenerationOrNull, NoFrame,
        implVars, grpcVars, threadVars, callerVars, Goto, Done, Return, Ready,
        EnterStart, ShutDown, ReplaceServer, ClearRunning, StopDone, Answer
<1>1. CASE Construct(c)
    BY <1>1 DEF Construct
<1>2. CASE Destroy(c)
    BY <1>2 DEF Destroy
<1>3. ASSUME NEW port \in PortOrZero, NEW callback \in CallbackOrNone,
               CreateCallbackServer(c, port, callback)
        PROVE  IInv'
    BY <1>3 DEF CreateCallbackServer
<1>4. ASSUME NEW port \in PortOrZero, Start(c, port) PROVE IInv'
    BY <1>4 DEF Start, StartAllowed
<1>5. CASE StartWithAutoPort(c)
    BY <1>5 DEF StartWithAutoPort, StartAllowed
<1>6. CASE StartRefused(c)
    BY <1>6 DEF StartRefused, StartAllowed
<1>7. CASE Stop(c)
    BY <1>7 DEF Stop
<1>8. ASSUME NEW callback \in CallbackOrNone,
               SetSubscriptionMessageCallback(c, callback)
        PROVE  IInv'
    BY <1>8 DEF SetSubscriptionMessageCallback, SetAllowed
<1>9. CASE SetRefused(c)
    BY <1>9, SMTT(30) DEF SetRefused, SetAllowed
<1> QED BY <1>1, <1>2, <1>3, <1>4, <1>5, <1>6, <1>7, <1>8, <1>9
          DEF Begin

\* Each statement of an operation preserves the invariant.
LEMMA IInvContinue ==
  ASSUME IInv, TypeOK', NEW c \in Callers, Continue(c) PROVE IInv'
<1> USE OneOwner, Elements
    DEF IInv, NeverAborts, FreshGenerations, OnlyHeldIsUp, ServedByHeld,
        HeldIsConsistent, ThreadIsHeld, Up, Serving, Down, Building, Built,
        Control, InFlight, TypeOK, Generations, GenerationOrNull, NoFrame,
        implVars, grpcVars, threadVars, callerVars, Goto, Done, Return, Ready,
        EnterStart, ShutDown, ReplaceServer, ClearRunning, StopDone, Answer
<1>1. CASE SetListen(c)
  BY <1>1 DEF SetListen
<1>2. CASE NewService(c)
  BY <1>2, SMTT(30) DEF NewService
<1>3. CASE BuildSucceeds(c)
  BY <1>3 DEF BuildSucceeds
<1>4. CASE BuildFails(c)
  BY <1>4 DEF BuildFails
<1>5. CASE Reaped(c)
  BY <1>5 DEF Reaped
<1>6. CASE PublishPort(c)
  BY <1>6 DEF PublishPort
<1>7. CASE SetRunning(c)
  BY <1>7 DEF SetRunning
<1>8. CASE Spawn(c)
  BY <1>8 DEF Spawn
<1>9. CASE SpawnFails(c)
  BY <1>9 DEF SpawnFails
<1>10. CASE StopTest(c)
  BY <1>10 DEF StopTest
<1>11. CASE StopShutdown(c)
  BY <1>11 DEF StopShutdown
<1>12. CASE StopDrained(c)
  BY <1>12 DEF StopDrained
<1>13. CASE StopJoinable(c)
  BY <1>13 DEF StopJoinable
<1>14. CASE StopJoin(c)
  BY <1>14 DEF StopJoin
<1>15. CASE Free(c)
  BY <1>15 DEF Free
<1>16. CASE AssignCallback(c)
  BY <1>16 DEF AssignCallback
<1> QED BY <1>1, <1>2, <1>3, <1>4, <1>5, <1>6, <1>7, <1>8, <1>9, <1>10, <1>11, <1>12, <1>13, <1>14, <1>15, <1>16 DEF Continue

\* The server thread and the end of a shutdown preserve the invariant.
LEMMA IInvThread ==
  ASSUME IInv, TypeOK', NEW g \in Generations, Thread(g) \/ Drained(g)
  PROVE  IInv'
<1> USE OneOwner, Elements
    DEF IInv, NeverAborts, FreshGenerations, OnlyHeldIsUp, ServedByHeld,
        HeldIsConsistent, ThreadIsHeld, Up, Serving, Down, Building, Built,
        Control, InFlight, TypeOK, Generations, GenerationOrNull, NoFrame,
        implVars, grpcVars, threadVars, callerVars, Goto, Done, Return, Ready,
        EnterStart, ShutDown, ReplaceServer, ClearRunning, StopDone, Answer
<1>1. CASE ThreadWaits(g)
  BY <1>1 DEF ThreadWaits
<1>2. CASE ThreadEnds(g)
  BY <1>2 DEF ThreadEnds
<1>3. CASE Drained(g)
  BY <1>3, SMTT(30) DEF Drained
<1> QED BY <1>1, <1>2, <1>3 DEF Thread

\* Handlers and arriving notifications preserve the invariant.
LEMMA IInvHandle ==
  ASSUME IInv, TypeOK', NEW n \in Calls,
         Handle(n) \/ \E g \in Generations : Push(n, g)
  PROVE  IInv'
<1> USE OneOwner, Elements
    DEF IInv, NeverAborts, FreshGenerations, OnlyHeldIsUp, ServedByHeld,
        HeldIsConsistent, ThreadIsHeld, Up, Serving, Down, Building, Built,
        Control, InFlight, TypeOK, Generations, GenerationOrNull, NoFrame,
        implVars, grpcVars, threadVars, callerVars, Goto, Done, Return, Ready,
        EnterStart, ShutDown, ReplaceServer, ClearRunning, StopDone, Answer
<1>1. CASE AckWithoutCallback(n)
  BY <1>1 DEF AckWithoutCallback
<1>2. CASE InvokeCallback(n)
  BY <1>2 DEF InvokeCallback
<1>3. CASE CallbackReturns(n)
  BY <1>3 DEF CallbackReturns
<1>4. CASE CallbackThrows(n)
  BY <1>4 DEF CallbackThrows
<1>5. ASSUME NEW g \in Generations, Push(n, g) PROVE IInv'
  BY <1>5 DEF Push
<1> QED BY <1>1, <1>2, <1>3, <1>4, <1>5 DEF Handle

\* Every step preserves the invariant.
LEMMA IInvStep == IInv /\ [Next]_vars => IInv'
<1> SUFFICES ASSUME IInv, [Next]_vars PROVE IInv'
  OBVIOUS
<1>1. TypeOK'
  BY TypeStep DEF IInv
<1>2. CASE UNCHANGED vars
  BY <1>2 DEF vars, implVars, grpcVars, threadVars, callerVars, IInv, TypeOK,
     NeverAborts, FreshGenerations, OnlyHeldIsUp, ServedByHeld, InFlight,
     HeldIsConsistent, ThreadIsHeld, Up, Serving, Down, Building, Built,
     Control
<1> QED BY <1>1, <1>2, IInvBegin, IInvContinue, IInvThread, IInvHandle DEF Next

\* The strengthened invariant holds in every state an owner can reach.
THEOREM InvariantHolds == Spec => []IInv
  BY IInvInit, IInvStep, PTL DEF Spec

-----------------------------------------------------------------------------
(***************************************************************************)
(* The owner's calls never terminate the process, dereference a null       *)
(* server_ or destroy a server in use, whatever gRPC's threads do.         *)
(***************************************************************************)
THEOREM OwnerNeverAborts == Spec => []NeverAborts
<1>1. IInv => NeverAborts
  BY DEF IInv
<1> QED BY <1>1, InvariantHolds, PTL

(***************************************************************************)
(* No handler runs in a service that Start or the destructor has freed.    *)
(***************************************************************************)
THEOREM NoHandlerInFreedService == Spec => []HandlersUseLiveService
<1>1. IInv => HandlersUseLiveService
  BY DEF IInv, ServedByHeld, HeldIsConsistent, HandlersUseLiveService
<1> QED BY <1>1, InvariantHolds, PTL

(***************************************************************************)
(* Every notification in flight is handled by the registered callback.     *)
(***************************************************************************)
THEOREM RegisteredCallbackRuns == Spec => []CallbackInEffect
<1>1. IInv => CallbackInEffect
  BY DEF IInv, ServedByHeld, HeldIsConsistent, CallbackInEffect
<1> QED BY <1>1, InvariantHolds, PTL

\* What running_ says of the server the object holds.
LEMMA RunningServes ==
  ASSUME IInv, running, NEW c \in Callers
  PROVE  Serving
<1>1. pc[c] \in Labels
  BY DEF IInv, TypeOK
<1> QED BY <1>1 DEF IInv, Labels, Control, Down, Built, Serving

(***************************************************************************)
(* IsRunning() does not lie: it is true only of a server that serves.      *)
(***************************************************************************)
THEOREM RunningIsServing == Spec => []RunningMeansServing
<1>1. IInv => RunningMeansServing
  BY OneOwner, RunningServes DEF RunningMeansServing, Serving
<1> QED BY <1>1, InvariantHolds, PTL

(***************************************************************************)
(* Once the owner's call has returned and IsRunning() is false, nothing of *)
(* the server is alive: no RPC is accepted or handled, no thread remains.  *)
(***************************************************************************)
THEOREM StoppedIsQuiet == Spec => []QuietWhenStopped
<1>1. ASSUME IInv, AllIdle, ~running, NEW c \in Callers
      PROVE  ~Up /\ serverThread = 0
  BY <1>1 DEF IInv, AllIdle, Control, Down
<1>2. ASSUME IInv, ~Up, serverThread = 0
      PROVE  /\ \A g \in Generations : phase[g] \in {"absent", "stopped"}
             /\ \A g \in Generations : thr[g] \in {"none", "done"}
             /\ \A n \in Calls : ~InFlight(n)
  <2>1. ASSUME NEW g \in Generations PROVE phase[g] \in {"absent", "stopped"}
    BY <1>2, MaxStartsAssumption
       DEF IInv, TypeOK, OnlyHeldIsUp, Up, Generations
  <2>2. ASSUME NEW g \in Generations PROVE thr[g] \in {"none", "done"}
    BY <1>2, MaxStartsAssumption DEF IInv, TypeOK, ThreadIsHeld, Generations
  <2>3. ASSUME NEW n \in Calls PROVE ~InFlight(n)
    BY <1>2 DEF IInv, ServedByHeld
  <2> QED BY <2>1, <2>2, <2>3
<1>3. IInv => QuietWhenStopped
  BY <1>1, <1>2, OneOwner DEF QuietWhenStopped
<1> QED BY <1>3, InvariantHolds, PTL

(***************************************************************************)
(* While the server runs, a non-empty endpoint names the bound port.       *)
(***************************************************************************)
THEOREM EndpointNamesBoundPort == Spec => []EndpointIsBound
<1>1. IInv => EndpointIsBound
  BY OneOwner, RunningServes
  DEF EndpointIsBound, Endpoint, Serving, Up, IInv, HeldIsConsistent
<1> QED BY <1>1, InvariantHolds, PTL

(***************************************************************************)
(* A Start that reported success left a server serving, and its thread.    *)
(***************************************************************************)
THEOREM StartedIsServing == Spec => []StartedMeansServing
<1>1. IInv => StartedMeansServing
  BY RunningServes DEF StartedMeansServing, Ready, Serving, IInv, Control
<1> QED BY <1>1, InvariantHolds, PTL

-----------------------------------------------------------------------------
(***************************************************************************)
(* What the owner may conclude from the outcome of its last call.          *)
(***************************************************************************)
OutcomeTellsRunning ==
  \A c \in Callers : Ready(c) =>
    (running <=> result[c] \in {"started", "already_running", "not_supported",
                                "threw"})

HalfStarted ==
  \A c \in Callers : Ready(c) /\ result[c] = "not_supported" =>
    Serving /\ serverThread = 0

(***************************************************************************)
(* The outcome of the owner's last call tells whether the server runs.  In *)
(* particular a Start that could not bind left it down: of the failures    *)
(* only a thread that could not be created, "not_supported", leaves it up. *)
(***************************************************************************)
THEOREM OutcomesTellRunning == Spec => []OutcomeTellsRunning
<1>1. IInv => OutcomeTellsRunning
  BY DEF IInv, Control, OutcomeTellsRunning, Ready
<1> QED BY <1>1, InvariantHolds, PTL

(***************************************************************************)
(* What that failure leaves behind, always: a server that serves without a *)
(* thread that waits for it.                                               *)
(***************************************************************************)
THEOREM FailedThreadLeavesServing == Spec => []HalfStarted
<1>1. IInv => HalfStarted
  BY DEF IInv, Control, HalfStarted, Ready
<1> QED BY <1>1, InvariantHolds, PTL

-----------------------------------------------------------------------------
\* The callback, the server and the service of a handler in flight stay.
NothingReplaced ==
  (\E n \in Calls : InFlight(n)) =>
    UNCHANGED <<messageCallback, server, serviceImpl>>

LEMMA CallerReplacesNothing ==
  ASSUME IInv, Up, NEW c \in Callers, Begin(c) \/ Continue(c)
  PROVE  UNCHANGED <<messageCallback, server, serviceImpl>>
<1>1. pc[c] \notin {"assign", "service", "build", "free"}
  BY DEF IInv, Control, Down
<1>2. life # "none" \/ pc[c] # "idle"
  BY DEF IInv, Control, Down
<1>3. CASE Begin(c)
  BY <1>2, <1>3
  DEF Begin, Construct, Destroy, CreateCallbackServer, Start,
      StartWithAutoPort, StartRefused, Stop, ClearRunning,
      SetSubscriptionMessageCallback, SetRefused, implVars
<1>4. CASE Continue(c)
  BY <1>1, <1>4
  DEF Continue, SetListen, NewService, BuildSucceeds, BuildFails, Reaped,
      PublishPort, SetRunning, Spawn, SpawnFails, StopTest, StopShutdown,
      StopDrained, StopJoinable, StopJoin, Free, AssignCallback, implVars
<1> QED BY <1>3, <1>4

(***************************************************************************)
(* While any handler runs, no step of any thread replaces the callback it  *)
(* was given, the server it answers through or the service it executes in. *)
(***************************************************************************)
THEOREM NothingReplacedUnderHandlers == Spec => [][NothingReplaced]_vars
<1>1. IInv /\ [Next]_vars => [NothingReplaced]_vars
  <2> SUFFICES ASSUME IInv, Next, NEW n \in Calls, InFlight(n)
               PROVE  UNCHANGED <<messageCallback, server, serviceImpl>>
    BY DEF NothingReplaced
  <2>1. Up
    BY DEF IInv, ServedByHeld
  <2>2. ASSUME NEW g \in Generations, Thread(g) \/ Drained(g)
        PROVE  UNCHANGED <<messageCallback, server, serviceImpl>>
    BY <2>2 DEF Thread, ThreadWaits, ThreadEnds, Drained, implVars
  <2>3. ASSUME NEW m \in Calls,
               Handle(m) \/ \E g \in Generations : Push(m, g)
        PROVE  UNCHANGED <<messageCallback, server, serviceImpl>>
    BY <2>3 DEF Handle, AckWithoutCallback, InvokeCallback, CallbackReturns,
                CallbackThrows, Answer, Push, implVars
  <2> QED BY <2>1, <2>2, <2>3, CallerReplacesNothing DEF Next
<1> QED BY <1>1, InvariantHolds, PTL DEF Spec

-----------------------------------------------------------------------------
(***************************************************************************)
(* Why every call of the owner returns: the part of the argument that      *)
(* needs no fairness.                                                      *)
(***************************************************************************)
\* How many statements are left of a caller's operation, at most.
StatementsLeft(c) ==
  CASE pc[c] = "listen" -> 12
    [] pc[c] = "service" -> 11
    [] pc[c] = "build" -> 10
    [] pc[c] = "reap" -> 9
    [] pc[c] = "port" -> 8
    [] pc[c] = "running" -> 7
    [] pc[c] = "test" -> 6
    [] pc[c] = "shutdown" -> 5
    [] pc[c] = "drain" -> 4
    [] pc[c] = "joinable" -> 3
    [] pc[c] = "join" -> 2
    [] pc[c] \in {"spawn", "free", "assign"} -> 1
    [] OTHER -> 0

HandlerLeft(n) ==
  CASE call[n].state = "accepted" -> 2
    [] call[n].state = "running" -> 1
    [] OTHER -> 0

ThreadLeft(g) ==
  CASE thr[g] = "ready" -> 2
    [] thr[g] = "waiting" -> 1
    [] OTHER -> 0

\* Nobody a caller waits for waits for a caller: Shutdown waits for handlers
\* only, join for a thread whose server has stopped, a replaced server's
\* destructor for nothing.
WaitsEnd ==
  \A c \in Callers :
    /\ pc[c] = "reap" /\ frame[c].old # 0 => phase[frame[c].old] = "stopped"
    /\ pc[c] = "drain" => phase[frame[c].gen] \in {"draining", "stopped"}
    /\ pc[c] = "join" =>
         /\ serverThread # 0
         /\ \/ thr[serverThread] = "ready" /\ server # 0
            \/ /\ thr[serverThread] = "waiting"
               /\ phase[waitsOn[serverThread]] = "stopped"
            \/ thr[serverThread] = "done"

\* While a caller waits in Shutdown or join, every step takes what it waits
\* for nearer to its end.
Nearer ==
  /\ \A n \in Calls : HandlerLeft(n)' <= HandlerLeft(n)
  /\ \A g \in Generations : ThreadLeft(g)' <= ThreadLeft(g)
  /\ \/ \E n \in Calls : HandlerLeft(n)' < HandlerLeft(n)
     \/ \E g \in Generations : ThreadLeft(g)' < ThreadLeft(g)
     \/ \E g \in Generations : phase[g] = "draining" /\ phase'[g] = "stopped"

CallsRunOut ==
  \A c \in Callers : pc[c] # "idle" =>
    \/ StatementsLeft(c)' < StatementsLeft(c)
    \/ /\ UNCHANGED <<pc, frame, result>>
       /\ pc[c] \in {"drain", "join"} => Nearer

LEMMA WaitsHaveAnEnd == IInv => WaitsEnd
<1> SUFFICES ASSUME IInv, NEW c \in Callers
    PROVE
    /\ pc[c] = "reap" /\ frame[c].old # 0 => phase[frame[c].old] = "stopped"
    /\ pc[c] = "drain" => phase[frame[c].gen] \in {"draining", "stopped"}
    /\ pc[c] = "join" =>
         /\ serverThread # 0
         /\ \/ thr[serverThread] = "ready" /\ server # 0
            \/ /\ thr[serverThread] = "waiting"
               /\ phase[waitsOn[serverThread]] = "stopped"
            \/ thr[serverThread] = "done"
  BY DEF WaitsEnd
<1>1. pc[c] = "reap" /\ frame[c].old # 0 => phase[frame[c].old] = "stopped"
  BY DEF IInv, Control
<1>2. ASSUME server # 0
      PROVE  phase[server] \in {"serving", "draining", "stopped"}
  BY <1>2, Elements DEF IInv, TypeOK, OnlyHeldIsUp
<1>3. pc[c] = "drain" => phase[frame[c].gen] \in {"draining", "stopped"}
  BY <1>2 DEF IInv, Control
<1>4. ASSUME pc[c] = "join"
      PROVE  /\ serverThread # 0
             /\ \/ thr[serverThread] = "ready" /\ server # 0
                \/ /\ thr[serverThread] = "waiting"
                   /\ phase[waitsOn[serverThread]] = "stopped"
                \/ thr[serverThread] = "done"
  <2>1. serverThread # 0 /\ ~Up
    BY <1>4 DEF IInv, Control
  <2>2. /\ serverThread = server /\ server # 0
        /\ thr[server] \in {"ready", "waiting", "done"}
        /\ thr[server] = "waiting" => waitsOn[server] = server
    BY <2>1, Elements DEF IInv, TypeOK, ThreadIsHeld
  <2>3. phase[server] = "stopped"
    BY <1>2, <2>1, <2>2 DEF Up
  <2> QED BY <2>1, <2>2, <2>3
<1> QED BY <1>1, <1>3, <1>4

\* The owner's own statements: each is followed by a later one.
LEMMA StatementsRunOut ==
  ASSUME IInv, NEW c \in Callers, Continue(c)
  PROVE  StatementsLeft(c)' < StatementsLeft(c)
<1> USE DEF StatementsLeft, IInv, TypeOK, Goto, Done, Return, StopDone,
            ReplaceServer
<1>1. CASE SetListen(c) \/ NewService(c)
  BY <1>1 DEF SetListen, NewService
<1>2. CASE BuildSucceeds(c)
  BY <1>2 DEF BuildSucceeds
<1>3. CASE BuildFails(c)
  BY <1>3 DEF BuildFails
<1>4. CASE Reaped(c)
  BY <1>4 DEF Reaped
<1>5. CASE PublishPort(c) \/ SetRunning(c)
  BY <1>5 DEF PublishPort, SetRunning
<1>6. CASE Spawn(c) \/ SpawnFails(c)
  BY <1>6 DEF Spawn, SpawnFails
<1>7. CASE StopTest(c)
  BY <1>7 DEF StopTest
<1>8. CASE StopShutdown(c) \/ StopDrained(c)
  BY <1>8 DEF StopShutdown, StopDrained
<1>9. CASE StopJoinable(c)
  BY <1>9 DEF StopJoinable
<1>10. CASE StopJoin(c)
  BY <1>10 DEF StopJoin
<1>11. CASE Free(c) \/ AssignCallback(c)
  BY <1>11 DEF Free, AssignCallback
<1> QED BY <1>1, <1>2, <1>3, <1>4, <1>5, <1>6, <1>7, <1>8, <1>9, <1>10, <1>11
        DEF Continue

\* The other steps end: a thread's two, a shutdown's one, a handler's two; and
\* none begins while nothing serves.
LEMMA OthersRunOut ==
  ASSUME IInv, NEW c \in Callers, pc[c] \in {"drain", "join"},
         \/ \E g \in Generations : Thread(g) \/ Drained(g)
         \/ \E n \in Calls : Handle(n)
         \/ \E n \in Calls, g \in Generations : Push(n, g)
  PROVE  Nearer
<1>5. ASSUME NEW g \in Generations, phase[g] = "serving" PROVE FALSE
  <2>1. g = server /\ server # 0
    BY <1>5 DEF IInv, OnlyHeldIsUp, TypeOK, Generations
  <2>2. ~Serving
    BY DEF IInv, Control, Up, Serving
  <2> QED BY <1>5, <2>1, <2>2 DEF Serving
<1> USE DEF IInv, TypeOK, HandlerLeft, ThreadLeft, Nearer
<1>1. ASSUME NEW g \in Generations, Thread(g) PROVE Nearer
  BY <1>1 DEF Thread, ThreadWaits, ThreadEnds
<1>2. ASSUME NEW g \in Generations, Drained(g) PROVE Nearer
  BY <1>2 DEF Drained, threadVars
<1>3. ASSUME NEW n \in Calls, InvokeCallback(n) PROVE Nearer
  BY <1>3 DEF InvokeCallback, threadVars, Rpcs
<1>4. ASSUME NEW n \in Calls,
             AckWithoutCallback(n) \/ CallbackReturns(n) \/ CallbackThrows(n)
      PROVE  Nearer
  <2>1. PICK reply \in {"ack", "callback_failed", "unknown"} :
          call[n].state \in {"accepted", "running"} /\ Answer(n, reply)
    BY <1>4 DEF AckWithoutCallback, CallbackReturns, CallbackThrows
  <2> QED BY <2>1 DEF Answer, threadVars
<1> QED BY <1>1, <1>2, <1>3, <1>4, <1>5 DEF Handle, Push

(***************************************************************************)
(* The owner's calls run out: no wait of a call depends on the owner, its  *)
(* own statements go forward only, and while it waits in Shutdown or join  *)
(* nothing new begins - each step of a handler, of gRPC or of the server   *)
(* thread takes the wait nearer to its end.                                *)
(***************************************************************************)
THEOREM OwnersCallsRunOut == Spec => []WaitsEnd /\ [][CallsRunOut]_vars
<1>1. IInv /\ [Next]_vars => [CallsRunOut]_vars
  <2> SUFFICES ASSUME IInv, Next, NEW c \in Callers, pc[c] # "idle"
      PROVE  \/ StatementsLeft(c)' < StatementsLeft(c)
             \/ /\ UNCHANGED <<pc, frame, result>>
                /\ pc[c] \in {"drain", "join"} => Nearer
    BY DEF CallsRunOut
  <2>1. CASE \E d \in Callers : Begin(d) \/ Continue(d)
    <3>1. Begin(c) \/ Continue(c)
      BY <2>1, OneOwner
    <3>2. ~Begin(c)
      BY DEF Begin, Construct, Destroy, CreateCallbackServer, Start, Stop,
             StartWithAutoPort, StartRefused, SetRefused, Ready,
             SetSubscriptionMessageCallback
    <3> QED BY <3>1, <3>2, StatementsRunOut
  <2>2. CASE ~ \E d \in Callers : Begin(d) \/ Continue(d)
    <3>1. UNCHANGED <<pc, frame, result>>
      BY <2>2 DEF Next, Thread, ThreadWaits, ThreadEnds, Drained, Handle,
                  AckWithoutCallback, InvokeCallback, CallbackReturns,
                  CallbackThrows, Answer, Push, callerVars
    <3> QED BY <2>2, <3>1, OthersRunOut DEF Next
  <2> QED BY <2>1, <2>2
<1> QED BY <1>1, WaitsHaveAnEnd, InvariantHolds, PTL DEF Spec

-----------------------------------------------------------------------------
(***************************************************************************)
(* The refinement.                                                         *)
(***************************************************************************)
\* What the mapping reads: a step that leaves it alone is a stutter.
Mapped == <<server, phase, messageCallback, implCallback, call>>

LEMMA MappedStutter == UNCHANGED Mapped => UNCHANGED Abstract!vars
  BY DEF Mapped, Abstract!vars, ServiceState, Rpc

\* While nothing is up, the abstract service is down and no RPC is in flight.
LEMMA DownIsDown ==
  ASSUME IInv, ~Up
  PROVE  /\ ServiceState = "down"
         /\ \A n \in Calls : call[n].state = "idle"
         /\ Rpc = [n \in Calls |-> Abstract!Idle]
<1>1. ServiceState = "down"
  <2>1. server # 0 => phase[server] \in {"absent", "stopped"}
    BY Elements DEF IInv, TypeOK, Up
  <2> QED BY <2>1 DEF ServiceState
<1>2. ASSUME NEW n \in Calls PROVE call[n].state = "idle"
  BY <1>2 DEF IInv, ServedByHeld, InFlight
<1> QED BY <1>1, <1>2 DEF Rpc, Abstract!Idle

\* A step that registers a callback while the service is and stays down.
LEMMA RegisterRefines ==
  ASSUME IInv, ~Up, ServiceState' = "down", UNCHANGED <<call, implCallback>>,
         messageCallback' \in CallbackOrNone
  PROVE  Abstract!Next
<1>1. Rpc' = Rpc
  BY DEF Rpc
<1>2. Abstract!Register(messageCallback')
  BY <1>1, DownIsDown DEF Abstract!Register
<1> QED BY <1>2 DEF Abstract!Next, CallbackOrNone

\* Callers' steps: construction, registration and destruction register,
\* Build opens, Shutdown closes, the others change nothing.
LEMMA CallerRefines ==
  ASSUME IInv, IInv', NEW c \in Callers, Begin(c) \/ Continue(c)
  PROVE  [Abstract!Next]_(Abstract!vars)
<1> USE DEF implVars, grpcVars, threadVars, callerVars
<1>1. CASE UNCHANGED Mapped
  BY <1>1, MappedStutter
<1>2. ASSUME NEW port \in PortOrZero, NEW callback \in CallbackOrNone,
             CreateCallbackServer(c, port, callback)
      PROVE  Abstract!Next
  <2>1. ~Up
    BY <1>2 DEF CreateCallbackServer, IInv, Control, Down
  <2>2. ServiceState' = "down"
    BY <1>2, <2>1, DownIsDown DEF CreateCallbackServer, ServiceState
  <2> QED BY <1>2, <2>1, <2>2, RegisterRefines DEF CreateCallbackServer
<1>3. CASE AssignCallback(c)
  <2>1. ~Up
    BY <1>3 DEF AssignCallback, IInv, Control, Down
  <2>2. ServiceState' = "down"
    BY <1>3, <2>1, DownIsDown DEF AssignCallback, ServiceState
  <2>3. messageCallback' \in CallbackOrNone
    BY DEF IInv, TypeOK
  <2> QED BY <1>3, <2>1, <2>2, <2>3, RegisterRefines DEF AssignCallback
<1>4. CASE Free(c)
  <2>1. ~Up
    BY <1>4 DEF Free, IInv, Control
  <2> QED BY <1>4, <2>1, RegisterRefines, Elements DEF Free, ServiceState
<1>5. CASE NewService(c)
  <2>1. ~Up
    BY <1>5 DEF NewService, IInv, Control, Down
  <2>2. Rpc' = Rpc
    BY <1>5, <2>1, DownIsDown DEF NewService, Rpc
  <2> QED BY <1>5, <2>2 DEF NewService, ServiceState, Abstract!vars
<1>6. CASE BuildFails(c)
  <2>1. ~Up
    BY <1>6 DEF BuildFails, IInv, Control, Down
  <2>2. ServiceState' = "down" /\ Rpc' = Rpc
    BY <1>6 DEF BuildFails, ReplaceServer, ServiceState, Rpc
  <2> QED BY <1>6, <2>1, <2>2, DownIsDown
          DEF BuildFails, ReplaceServer, Abstract!vars
<1>7. CASE BuildSucceeds(c)
  <2>1. ~Up
    BY <1>7 DEF BuildSucceeds, IInv, Control, Down
  <2>2. Rpc' = Rpc /\ messageCallback' = messageCallback
    BY <1>7 DEF BuildSucceeds, ReplaceServer, Rpc
  <2>3. ServiceState' = "up"
    <3>1. frame[c].gen \in Generations
      BY <1>7, Elements DEF BuildSucceeds, IInv, TypeOK, Control, Building
    <3>2. ShutDown(phase, server) = phase
      BY <2>1 DEF ShutDown, Up
    <3>3. server' = frame[c].gen /\ phase'[server'] = "serving"
      BY <1>7, <3>1, <3>2 DEF BuildSucceeds, ReplaceServer, IInv, TypeOK
    <3>4. server' # 0
      BY <3>1, <3>3, MaxStartsAssumption DEF Generations
    <3> QED BY <3>3, <3>4 DEF ServiceState
  <2>4. Abstract!Open
    BY <2>1, <2>2, <2>3, DownIsDown DEF Abstract!Open
  <2> QED BY <2>4 DEF Abstract!Next
<1>8. CASE StopShutdown(c)
  <2>1. server # 0 /\ server \in Generations
    BY <1>8, Elements DEF StopShutdown, IInv, TypeOK, Control
  <2>2. Rpc' = Rpc /\ messageCallback' = messageCallback /\ server' = server
    BY <1>8 DEF StopShutdown, Rpc
  <2>3. CASE phase[server] = "serving"
    <3>1. phase'[server] = "draining"
      BY <1>8, <2>1, <2>3 DEF StopShutdown, ShutDown, IInv, TypeOK
    <3>2. ServiceState = "up" /\ ServiceState' = "closing"
      BY <2>1, <2>2, <2>3, <3>1 DEF ServiceState
    <3>3. Abstract!Close
      BY <2>2, <3>2 DEF Abstract!Close
    <3> QED BY <3>3 DEF Abstract!Next
  <2>4. CASE phase[server] # "serving"
    BY <1>8, <2>2, <2>4
    DEF StopShutdown, ShutDown, ServiceState, Abstract!vars
  <2> QED BY <2>3, <2>4
<1> QED
  BY <1>1, <1>2, <1>3, <1>4, <1>5, <1>6, <1>7, <1>8
  DEF Begin, Continue, Mapped, Construct, Destroy, Start, StartWithAutoPort,
      StartRefused, Stop, ClearRunning, SetSubscriptionMessageCallback,
      SetRefused, SetListen, Reaped, PublishPort, SetRunning, Spawn,
      SpawnFails, StopTest, StopDrained, StopJoinable, StopJoin

\* The server thread changes nothing; the end of gRPC's shutdown closes.
LEMMA ThreadRefines ==
  ASSUME IInv, NEW g \in Generations, Thread(g) \/ Drained(g)
  PROVE  [Abstract!Next]_(Abstract!vars)
<1>1. CASE Thread(g)
  BY <1>1, MappedStutter
  DEF Thread, ThreadWaits, ThreadEnds, Mapped, implVars, grpcVars
<1>2. CASE Drained(g)
  <2>1. g = server /\ server # 0 /\ server' = server
    BY <1>2, MaxStartsAssumption
    DEF Drained, implVars, IInv, OnlyHeldIsUp, Generations
  <2>2. ASSUME NEW n \in Calls PROVE call[n].state = "idle"
    BY <1>2, <2>1, <2>2 DEF Drained, IInv, ServedByHeld, InFlight
  <2>3. ServiceState = "closing" /\ ServiceState' = "down"
    BY <1>2, <2>1 DEF Drained, ServiceState, IInv, TypeOK
  <2>4. \A n \in Calls : Rpc[n] = Abstract!Idle
    BY <2>2 DEF Rpc, Abstract!Idle
  <2>5. Rpc' = Rpc /\ messageCallback' = messageCallback
    BY <1>2 DEF Drained, Rpc, implVars
  <2>6. Abstract!Closed
    BY <2>3, <2>4, <2>5 DEF Abstract!Closed
  <2> QED BY <2>6 DEF Abstract!Next
<1> QED BY <1>1, <1>2

\* A push arrives; a handler invokes its callback or completes.
LEMMA CallRefines ==
  ASSUME IInv, NEW n \in Calls,
         Handle(n) \/ \E g \in Generations : Push(n, g)
  PROVE  Abstract!Next
<1>1. UNCHANGED <<server, phase, messageCallback, implCallback>>
  BY DEF Handle, AckWithoutCallback, InvokeCallback, CallbackReturns,
         CallbackThrows, Answer, Push, implVars, grpcVars
<1>2. UNCHANGED <<ServiceState, messageCallback>>
  BY <1>1 DEF ServiceState
<1>3. InFlight(n) => implCallback[call[n].gen] = messageCallback
  BY DEF IInv, ServedByHeld, HeldIsConsistent
<1>4. CASE AckWithoutCallback(n) \/ CallbackReturns(n) \/ CallbackThrows(n)
  <2>0. PICK reply \in {"ack", "callback_failed", "unknown"} :
          Answer(n, reply)
    BY <1>4 DEF AckWithoutCallback, CallbackReturns, CallbackThrows
  <2>1. Rpc' = [Rpc EXCEPT ![n] = Abstract!Idle]
    BY <1>1, <2>0 DEF Answer, Rpc, Abstract!Idle, IInv, TypeOK
  <2>2. \/ Rpc[n].state = "running"
        \/ Rpc[n].state = "accepted" /\ messageCallback = NoCallback
    BY <1>3, <1>4 DEF AckWithoutCallback, CallbackReturns, CallbackThrows,
       Rpc, InFlight
  <2>3. Abstract!Complete(n)
    BY <1>2, <2>1, <2>2 DEF Abstract!Complete
  <2> QED BY <2>3 DEF Abstract!Next
<1>5. CASE InvokeCallback(n)
  <2>1. Rpc' = [Rpc EXCEPT ![n] = [state |-> "running",
                                   with |-> messageCallback]]
    BY <1>1, <1>3, <1>5 DEF InvokeCallback, InFlight, Rpc, IInv, TypeOK, Rpcs
  <2>2. Abstract!Invoke(n)
    BY <1>2, <1>3, <1>5, <2>1
    DEF InvokeCallback, InFlight, Rpc, Abstract!Invoke
  <2> QED BY <2>2 DEF Abstract!Next
<1>6. ASSUME NEW g \in Generations, Push(n, g) PROVE Abstract!Next
  <2>1. g = server /\ server # 0 /\ ServiceState = "up"
    BY <1>6, MaxStartsAssumption
    DEF Push, IInv, OnlyHeldIsUp, Generations, ServiceState
  <2>2. Rpc[n] = Abstract!Idle
    BY <1>6 DEF Push, InFlight, Rpc, Abstract!Idle
  <2>3. Rpc' = [Rpc EXCEPT ![n] = [state |-> "accepted",
                                   with |-> NoCallback]]
    BY <1>1, <1>6 DEF Push, Rpc, IInv, TypeOK
  <2>4. Abstract!Arrive(n)
    BY <1>2, <2>1, <2>2, <2>3 DEF Abstract!Arrive
  <2> QED BY <2>4 DEF Abstract!Next
<1> QED BY <1>4, <1>5, <1>6 DEF Handle

(***************************************************************************)
(* The owned server is a NotificationService: initial states and steps map *)
(* to initial states and steps.                                            *)
(***************************************************************************)
THEOREM Implementation == Spec => Abstract!Safety
<1>1. Init => Abstract!Init
  BY DEF Init, Abstract!Init, ServiceState, Rpc, Abstract!Idle
<1>2. IInv /\ IInv' /\ [Next]_vars => [Abstract!Next]_(Abstract!vars)
  <2> SUFFICES ASSUME IInv, IInv', [Next]_vars
               PROVE  [Abstract!Next]_(Abstract!vars)
    OBVIOUS
  <2>1. CASE UNCHANGED vars
    BY <2>1, MappedStutter DEF vars, Mapped, implVars, grpcVars
  <2> QED BY <2>1, CallerRefines, ThreadRefines, CallRefines DEF Next
<1> QED BY <1>1, <1>2, InvariantHolds, PTL DEF Spec, Abstract!Safety
=============================================================================
