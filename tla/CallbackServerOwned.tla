------------------------ MODULE CallbackServerOwned ------------------------
(***************************************************************************)
(* A ClientCallbackServer called from one application thread: the only     *)
(* discipline under which its operations are sound (they hold no lock; the *)
(* runs with two callers show what goes wrong without it).  Handlers, the  *)
(* server thread and gRPC still run concurrently with that thread.         *)
(***************************************************************************)
EXTENDS CallbackServer

\* One application thread calls the object.
ASSUME OneOwner == Callers # {} /\ \A c, d \in Callers : c = d

(***************************************************************************)
(* The refinement mapping to NotificationService.                          *)
(***************************************************************************)
ServiceState ==
  IF server = 0 \/ phase[server] \in {"absent", "stopped"} THEN "down"
  ELSE IF phase[server] = "serving" THEN "up" ELSE "closing"

Rpc ==
  [n \in Calls |->
     [state |-> call[n].state,
      with  |-> IF call[n].state = "running" THEN implCallback[call[n].gen]
                ELSE NoCallback]]

Abstract == INSTANCE NotificationService WITH
  service <- ServiceState, registered <- messageCallback, rpc <- Rpc

\* ClientCallbackServer, called by its owner, is a NotificationService: it
\* opens and closes as a whole, hands every notification to the registered
\* callback and is down only when the last handler has ended.
ImplementsService == Abstract!Spec

-----------------------------------------------------------------------------
(***************************************************************************)
(* The inductive invariant.  Its parts say, in turn: generations are used  *)
(* once; only the server held can be up; what is in flight is served by    *)
(* it, in the service held, with the registered callback and on the port   *)
(* published; only the joinable thread is alive; and what each location of *)
(* the owner's thread knows.                                               *)
(***************************************************************************)
Up == server # 0 /\ phase[server] \in {"serving", "draining"}

Serving == server # 0 /\ phase[server] = "serving"

FreshGenerations ==
  \A g \in Generations :
    g > attempts => phase[g] = "absent" /\ thr[g] = "none"

OnlyHeldIsUp ==
  /\ \A g \in Generations : phase[g] \in {"serving", "draining"} => g = server
  /\ server # 0 => phase[server] # "absent"

ServedByHeld ==
  \A n \in Calls :
    IF InFlight(n) THEN Up /\ call[n].gen = server ELSE call[n].gen = 0

HeldIsConsistent ==
  Up => /\ serviceImpl = server
        /\ implCallback[server] = messageCallback
        /\ listenPort \in {0, boundPort[server]}

ThreadIsHeld ==
  /\ \A g \in Generations :
       /\ thr[g] \in {"ready", "waiting"} => g = serverThread
       /\ thr[g] = "waiting" => waitsOn[g] = g
  /\ serverThread # 0 => serverThread = server /\ thr[serverThread] # "none"

\* Nothing of the server is left alive.
Down == ~running /\ ~Up /\ serverThread = 0

Building(c) == frame[c].gen = attempts /\ attempts # 0

\* The caller's server is built; listen_port_ is what Start was given, and 0
\* until StartWithAutoPort publishes the port it was assigned.
Built(c) ==
  /\ Building(c)
  /\ thr[attempts] = "none"
  /\ serverThread = 0
  /\ server = attempts /\ Serving
  /\ boundPort[server] = frame[c].port

Control(c) ==
  /\ pc[c] = "idle" =>
       IF running THEN Serving /\ life = "shared" ELSE Down
  /\ pc[c] = "idle" =>
       /\ running <=> result[c] \in {"started", "already_running",
                                    "not_supported", "threw"}
       /\ result[c] = "started" => serverThread = server
       /\ result[c] = "not_supported" => serverThread = 0
  /\ pc[c] = "assign" => Down
  /\ pc[c] \in {"listen", "service", "build"} =>
       Down /\ Building(c) /\ phase[attempts] = "absent"
            /\ thr[attempts] = "none"
  /\ pc[c] \in {"service", "build"} => listenPort = frame[c].port
  /\ pc[c] = "build" =>
       serviceImpl = attempts /\ implCallback[attempts] = messageCallback
  /\ pc[c] = "reap" =>
       /\ ~running
       /\ frame[c].old # 0 => phase[frame[c].old] = "stopped"
       /\ server # 0 => Built(c)
  /\ pc[c] \in {"port", "running"} => ~running /\ Built(c)
  /\ pc[c] = "spawn" => running /\ Built(c)
  /\ pc[c] \in {"test", "shutdown", "drain", "joinable", "join", "free"} =>
       ~running
  /\ pc[c] = "shutdown" => server # 0
  /\ pc[c] = "drain" => server # 0 /\ frame[c].gen = server
                          /\ phase[server] # "serving"
  /\ pc[c] \in {"joinable", "join", "free"} => ~Up
  /\ pc[c] = "join" => serverThread # 0
  /\ pc[c] = "free" => serverThread = 0
  /\ server # 0 /\ phase[server] = "draining" => pc[c] = "drain"
  /\ pc[c] \in {"listen", "service", "build", "reap", "port", "running",
                "spawn"} => life \in {"private", "shared"}
  /\ life \in {"none", "shared"} => pc[c] # "free"

IInv ==
  /\ TypeOK
  /\ NeverAborts
  /\ FreshGenerations
  /\ OnlyHeldIsUp
  /\ ServedByHeld
  /\ HeldIsConsistent
  /\ ThreadIsHeld
  /\ \A c \in Callers : Control(c)
=============================================================================
