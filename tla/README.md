# Formal models of the Humanoid Robot Client SDK

TLA+ modules, TLC configurations and TLAPS proofs about the C++ client library
in `src/`: what an application linking it may rely on when threads, gRPC, the
network and the robot's SDK server interleave, fail or stay silent.

    tlc -workers 2 -config MCCallbackServer.cfg MCCallbackServer.tla   # a run
    tlapm CallbackServerProofs.tla                                      # the proofs

`PROJECT.json` lists the runs, the lines each definition models, the mutants
each property detects, the findings, the hazards and the theorems.

## 1. The system

The library lets an application command a robot through an SDK server and
receive the notifications that server pushes.

| Part | State it keeps | Operations | What is hard |
|---|---|---|---|
| `ClientCallbackServer` (`client_callback_server.cpp`) | `server_`, `service_impl_`, listen address and port, atomic `running_`, `server_thread_`, `message_callback_` | `Start`, `StartWithAutoPort`, `Stop`, `SetSubscriptionMessageCallback`, observers, factory, destructor; `OnSubscriptionMessage` on gRPC's threads | no lock; a copy of the callback lives in the service; restarts replace objects others use; shutdown waits for handlers, the join for the server thread |
| `InterfacesClient` (`interfaces_client.cpp`) | `channel_`, `stub_`, `connected_`, the loaded configuration | `Connect`, `Disconnect`, `IsConnected`, `Send`, `Query`, `Action`, `Unsubscribe`, `Subscribe`, `QueryAsync` (callback or future), `GetChannelState`, `WaitForChannelReady` | no lock; detached workers share the object through `weak_ptr`; `Connect` fails half way; deadlines |
| `navigation_api`, `control_api`, `perception_api` | none: one request per call | 7 + 3 + 3 functions over `InterfacesClient::Send` | lost and late answers, half-parsed results, a different order of parsing and finishing in each profile |
| `Status`, `success_condition`, error codes | an `error_code` and a message | construction, comparison | pure values |
| `json_convert_util` | none | proto/JSON conversion | pure |
| SDK server, gRPC, configuration library (not in the repository) | - | - | external: modelled by how the code uses them |

How they meet: an application starts a `ClientCallbackServer`, sends its
`GetClientEndpoint()` in `InterfacesClient::Subscribe`, and then gets one
`OnSubscriptionMessage` RPC per notification. The module APIs take an
`InterfacesClient` by reference, open a `Send` stream on it, write one request
and read one answer. Nothing is persisted; there is no reconnection and no
retry in the code (`DESIGN_DOCUMENT.md` announces both), so none is modelled.

What makes each part correct:

* callback server: nothing it frees is in use; a handler runs the callback that
  is registered; `IsRunning`, the endpoint and the returned statuses say what
  the server really does; after `Stop` nothing is alive; every call returns and
  every accepted RPC is answered;
* client: no call goes through a stub that is gone; the object outlives its
  workers; every asynchronous request is resolved exactly once and truthfully;
  calls with a deadline return;
* channel wait: it ends, not before its deadline unless ready, at most a poll
  after it, with an answer at most a poll old;
* module APIs: a status tells what the robot did and what the result holds; no
  command is executed twice or without its data; every call returns.

## 2. Modules

| Module | What it is |
|---|---|
| `NotificationService` | abstract specification of the callback server: down, up, closing; a registered callback; RPCs accepted, run by it, completed |
| `CallbackServer` | `ClientCallbackServer`, one action per statement that touches shared state, any number of application threads |
| `CallbackServerOwned` | the same called from one thread: refinement mapping to `NotificationService` and the inductive invariant `IInv` |
| `AsyncQuery` | abstract specification of `QueryAsync`: asked, begun, answered once, or canceled by the end of the client |
| `InterfacesClient` | connection, RPC methods, `QueryAsync` workers and ownership, statement by statement; implements `AsyncQuery` |
| `Status` | the error codes the client returns, and `ConvertGrpcStatus` |
| `ChannelReady` | `WaitForChannelReady` in discrete time |
| `RobotCommand` | abstract specification of a module call: what it promises about the robot |
| `ModuleApi` | one command of the three module APIs against a server and a network that lose, delay and reject; implements `RobotCommand` |
| `Subscription` | the composition: a callback server whose start and `Stop` take their steps, a client and the SDK server, with callbacks that use the client or stop the server |
| `CallbackServerProofs`, `InterfacesClientProofs`, `ChannelReadyProofs`, `ModuleApiProofs`, `SubscriptionProofs` | theorems and proofs |
| `MCCallbackServer`, `MCCallbackServerRace`, `MCInterfacesClient`, `MCSubscription` | constants and symmetry for TLC |

How they build on each other: `CallbackServer` implements
`NotificationService` for the one thread that owns it. A callback that calls
`Stop` is a second caller, which that specification does not allow for, so
`Subscription` has the server's fields of its own; where no callback stops the
server (`CallbacksStop = FALSE`), its server is a `NotificationService` too,
which is proved. `ModuleApi` implements `RobotCommand`. `InterfacesClient` implements `AsyncQuery` and extends `Status`;
the wait inside its `Connect` is `ChannelReady`, of which it uses only that it
ends either way.

### CallbackServer

The variables are the fields of `Impl` under their own names, the objects an
attempt makes (indexed by the generation of the attempt: server, service, thread),
the RPC slots, and per application thread a program counter and locals. `Start`
and `StartWithAutoPort` share their steps as their code shares its text:
`SetListen`, `NewService`, `BuildSucceeds`/`BuildFails`, `Reaped` (the
destructor of a replaced `grpc::Server`, then `if (!server_)`), `PublishPort`
(automatic port only), `SetRunning`, `Spawn`/`SpawnFails`. `Stop` is
`ClearRunning`, `StopTest`, `StopShutdown`, `StopDrained`, `StopJoinable`,
`StopJoin`; the destructor runs the same steps and then `Free`. The factory
keeps the object private until it returns. gRPC is external: `Push` accepts an
RPC on a serving server, `Drained` ends a shutdown when no handler is left. A
handler answers at once, or runs the callback, which returns or throws.

Undefined behaviour and `std::terminate` (a server destroyed under a waiting
thread, assignment to a joinable thread, a null `server_`, a second join) set
`fault` and stop the behaviour; `NeverAborts` says they are never reached.

With one application thread everything asked of the object holds. The library
has no lock, so with two threads it does not: section 5.

### InterfacesClient

A channel is a number; `stub` is the number of the channel it was made for.
`holders` is the set of references keeping the object alive: the application
threads' and those a worker took by `weak_self.lock()`. Dropping the last one
destroys the fields, on whichever thread that happens. The five RPC methods
open alike (`Check`, `LoadStub`, `Invoke`) and are told apart by how they end:
`query` (Query, Unsubscribe) by an answer, an error or the deadline, `subscribe`
(default timeout 0) without a deadline, `stream` (Send, Action) as soon as the
stream is open. `Exclusive` states the discipline the passing runs assume:
connecting and disconnecting overlap no other call. Releasing the client is not
restricted; that is what the workers' references are for.

`Connect` is modelled with all its exits: a missing setting throws before
anything is changed, a null channel or stub leaves the earlier fields set, and a
channel that never becomes ready leaves `connected_` true, so that
`IsConnected()` is true after a refused `Connect`; gRPC goes on connecting in
the background, so such a client may become usable. `ConnectedIsUsable` says
what does hold of it.

A call ends with any gRPC code of `Endings`, which `ConvertGrpcStatus` turns
into the status; the history variable `outcome` keeps the code itself, so that
`StatusTellsOutcome` can compare what a request is told with what happened:
`operation_canceled`, in particular, stands for a call gRPC canceled and for a
client destroyed before its worker ran, and for nothing else.
`QueryAsyncUnowned` is the `bad_weak_ptr` that `shared_from_this` throws for a
client held by `unique_ptr`. `README.md:720` recommends `unique_ptr` for simple
asynchronous use, and the module APIs take nothing else; an application that
follows them cannot call `QueryAsync`.

`AsyncQuery` is what an application may rely on. `Progress` maps a request to
"begun" while its worker holds a reference and to "answered" once its callback
has run; `Life` is "destroyed" when the last reference is gone. So a begun query
keeps the client alive until it is answered, one whose worker finds no client is
told `operation_canceled`, and every accepted one is told exactly once.

### ChannelReady

Time passes only during the sleep, `Poll` ticks long (one second), and the
timeouts need not be its multiples. The channel is external: idle until asked to
connect, then connecting, ready or in transient failure, back to idle when the
connection is lost. `GetState(false)` in the loop never asks it to reconnect.

### ModuleApi

The seven navigation calls instantiate `NavigationRequestTemplate`, which
finishes the stream before it parses. The six control and perception functions
repeat one text and differ in how they parse: `EmergencyStop` and `Detection`
return at once on an unusable code, a missing field or unparsable data
(`CheckedParse`); `GetJointInfo`, `JointMotion`, `Division` and `Perception`
take a missing field for no error (`PlainParse`). Each function is an action
over the steps it shares with the others (`Exchange`). Payloads are reduced
to what the code distinguishes: a code that `std::stoi` converts to success or
to anything else, or rejects (`invalid`, `out_of_range`); data absent, good or
unparsable; the result object untouched, fresh or half written (`garbled`). The
server executes or rejects a message it receives, possibly after the caller gave
up; a success code comes only from a handler that executed the command. A stream
may end at any moment, with or without the answer that was on its way.

`RobotCommand` is what an application may conclude: a command is executed at
most once, possibly after the application gave up; a reported success reports
an execution, after which nothing is to come; every call ends. `View` maps a
call's location and status to it; any status but SUCCESS is "unknown". The
number of executions is mapped as it is, so a command sent again, which the
server executes again, is a step that `RobotCommand` refuses.

### Subscription

The owner's thread registers a callback, starts (also unsuccessfully), stops,
subscribes, unsubscribes, disconnects and reconnects. A subscription carries the
endpoint of that moment; the SDK server keeps it until it handles an
Unsubscribe, also over a restart of the callback server, and pushes to it
whenever something listens on the port. Every notification runs its callback on
a thread of its own, which may make one client call, then one of `Stop`, before
it returns.

A start takes the steps between which a callback of a surviving subscription can
run: `StartBegins` publishes the port and replaces the service, `Serve` is the
inside of `BuildAndStart`, from where on notifications come in, `Assign` stores
the server in `server_`, `Publish` sets `listen_port_` and `running_`. The
fields are kept apart from the gRPC server (`service`): `server` is what
`server_` holds, nothing, a server that was shut down, or the live one. A `Stop`
acts on what it finds there. One that comes between `Serve` and `Assign` finds
nothing and returns, or shuts down the previous server once more, which
`Assign` may destroy under it; one that comes before `Publish` shuts the server
down, and `Publish` then says that it runs. The header promises nothing of a
`Stop` by a callback; `ServingIsKnown` says where the window is, and
`ReentrantStopIsFinal` what holds of a `Stop` that finds its server.

A client call is a check, a use of the stub and a wait with or without
a deadline, as in `InterfacesClient`; connecting is one step, its races being
the subject of that module.

`StopFirst` is the order of `README.md:556`: `Stop`, then `Disconnect`. It is
what keeps the calls of callbacks away from a client without stub. A callback
whose `Stop` finds its server waits for its own end: the object has cleared
`running_` by then, so the owner is even let into `Start`, which destroys what
the callback runs in (`StartBegins` with a notification in flight: `fault` is
"server_in_use", after which the model says nothing).

## 3. Runs

| Run | Question | Bounds | Result |
|---|---|---|---|
| `callback_owner` | is the object safe in its owner's hands? | 1 owner, 2 RPCs, 2 callbacks, 2 ports, 2 starts | 8 invariants hold |
| `callback_liveness` | does everything return, does it implement `NotificationService`? | 1 owner, 1 RPC, 2 callbacks, 1 port, 2 starts | holds |
| `callback_race_abort` | and with two threads? | 2 callers | violated (finding) |
| `callback_failed_start` | is the server down after a failed start? | 1 owner | violated (finding) |
| `client_shared` | is a shared client safe around its workers? | 2 threads, 2 requests, 2 channels, 3 endings of a call | 6 invariants hold |
| `client_liveness` | does every call return, is `AsyncQuery` implemented? | 1 thread, 2 requests, both ownerships | holds |
| `client_race_disconnect` | may one disconnect with a query pending? | 1 thread, 1 request | violated (finding) |
| `subscription` | do server, client and SDK server work together around callbacks that call back? | 2 notifications, 2 ports, 2 starts | 4 invariants, 3 temporal properties hold |
| `channel_ready` | how exact is the wait? | sleep of 2 ticks, timeouts 0, 1, 2, 3, 5 | 5 invariants, 1 temporal property hold |
| `channel_ready_missed` | is readiness in time always reported? | timeout 3 | violated (finding) |
| `module_calls` | what does a status tell, does every call return, is `RobotCommand` implemented? | 7 functions, 2 successive calls | 6 invariants, 2 temporal properties hold |
| `module_incomplete` | can a command go out without its data? | one navigation call | violated (finding) |

Why the bounds are enough to meet the interesting cases. Two starts make one
restart: the second meets what the first left, after every way the first can
end. Two RPC slots let one handler drain while another arrives, two callbacks
let a registration change, two ports tell a stale endpoint from a right one.
`MaxStarts` bounds only the generations; the proofs are for any value. Two
channels make one reconnect, over a failed or a successful first `Connect`; two
threads and two workers let the last reference be dropped by either. The sleep
of two ticks is the smallest that leaves room for the channel to change inside
it, and the timeouts lie on, between and beyond its multiples. Two module calls,
one after the other, let a late message of the first meet the second. The seven
functions are all the texts there are (the navigation calls share one). The
three endings are one code converted to success, the one that shares its status
with a destroyed client, and one of the others; the proofs are for all codes. In
`subscription` two notifications let one callback stop the server while another
runs, and two starts on two ports let an old subscription meet a new session on
the same port or on another, and its callback the start of that session.

The runs of the client, of the subscription, of the channel wait and of the
module calls do not check
deadlock: an application may have released the client, the wait is over, the
calls are made. The callback server's runs check it: its application may always
construct or call something more.

Symmetry is used for callbacks, RPC slots, application threads and requests in
the safety runs only; nothing in the modules tells their members apart.

Each property of a passing run has a mutant: an operator placed before the
definition it replaces, commented `Fault:`, that changes the code as a plausible
bug would and makes TLC find the property violated.

## 4. Fairness

* A thread inside a call runs on (`WF` on each caller's `Continue`, each
  worker's `Work`, each actor's `Perform`): operating system scheduling. No
  fairness obliges an application to begin a call.
* Handlers end: `README.md:737` asks callbacks to return quickly.
* gRPC finishes a shutdown that has no RPC left and lets `Wait` return.
* A call with a deadline ends by it (`RpcExpires`, `StreamEnds`): every call of
  the code sets one, except `Subscribe` with its default timeout 0, which gets
  no such fairness and is not claimed to return.
* Time passes (`Tick`) while `WaitForChannelReady` sleeps.
* In `Subscription`, callbacks that call nothing return, and Shutdown returns
  when no handler is left; a callback's call ends by its deadline if it has one.
  `StopEnds` and `CallbacksDoNotBlockOthers` therefore except the callbacks that
  wait in `Stop` or in a `Subscribe` without timeout (`Blocked`): the code gives
  those no way out. The owner's own steps in a start have no fairness: they are
  the application's, and nothing claimed waits for them.
* The SDK server is never assumed to push, to answer or to read.

## 5. What the violated runs show

* **Two threads on one `ClientCallbackServer`** (`callback_race_abort`).
  `Start` tests `running_` at line 97 and sets it at line 130. Both threads pass
  the test; the second replaces the server the first one's thread waits on, or
  assigns to a joinable `std::thread`. `README.md:11` calls the SDK thread-safe.
  The other invariants of `callback_owner` need the single owner as well: with
  two threads a callback can be registered between the service's copy and
  `running_ = true`, and a start can slip in while `Stop` drains.
* **A failed `Start` that serves** (`callback_failed_start`). The server
  thread's creation is the last thing that can fail, after `running_ = true` and
  `BuildAndStart`. The catch returns an error; the server goes on serving.
* **`Disconnect` during `QueryAsync`** (`client_race_disconnect`). The worker
  uses `stub_` after its check.
* **Readiness during the last sleep** (`channel_ready_missed`) is not seen; the
  property of the passing run, `MissIsRecent`, bounds what can be missed.
* **A navigation command without data** (`module_incomplete`).
  `BuildSendRequest` inserts `command_id` before it serializes, so the "empty
  request" its comment speaks of is not empty and is sent.

## 6. Proofs

The theorems hold for every value of the constants: any number of threads,
callers, RPCs, requests, ports, starts, sessions, functions and calls, every
poll interval and every timeout. Most are unconditional. Those about objects
whose header promises less than thread safety are proved under the discipline
the passing runs assume, an `ASSUME` of its own; the violated runs of section 5
show that they need it.

| Theorems of | in any application | under a discipline |
|---|---|---|
| `CallbackServerProofs` | `TypeCorrect`, `ServersNeverRevive` | the others: `OneOwner`, one thread calls the object |
| `InterfacesClientProofs` | all but the next column's | `InvariantHolds`, `StubsAreLive`, `ConnectionsAreUsable`, `QueriesKeepTheirConnection`: `Exclusive` |
| `SubscriptionProofs` | all but the next column's | `OrderlyShutdown`: `StopFirst`; `UsesTheService`: `~CallbacksStop` |
| `ChannelReadyProofs`, `ModuleApiProofs` | all | |

The other assumptions used are the typing assumptions of the constants
(`PortsAssumption`, `MaxStartsAssumption`, `PollAssumption`,
`FunctionsAssumption`, `AppAssumption`, ...). TLC evaluates them in the runs.

### CallbackServerProofs

For the owner: `InvariantHolds` (`Spec => []IInv`) and, from it, each safety
property of `callback_owner`: `OwnerNeverAborts`, `NoHandlerInFreedService`,
`RegisteredCallbackRuns`, `RunningIsServing`, `StoppedIsQuiet`,
`EndpointNamesBoundPort`, `StartedIsServing`.

None of these properties is inductive: that no handler runs in a freed service
says nothing of why the service is not replaced next. `IInv` adds what each
location of the owner's thread knows (`Control`: while a start is being prepared
nothing is up; once built, the held server is this attempt's, on its port, and no
thread exists yet; after the shutdown it is not up; between calls the outcome of
the last one tells what is up), that only the held server can serve or drain
(`OnlyHeldIsUp`), that what is in flight belongs to it, to the held service, with
the registered callback (`ServedByHeld`, `HeldIsConsistent`), that the only live
thread is the joinable one (`ThreadIsHeld`), and that later generations are
unused (`FreshGenerations`). The preservation is one lemma per group of actions
(`IInvBegin`, `IInvContinue`, `IInvThread`, `IInvHandle`), one step per action.

From the same invariant, beyond the properties of the runs:

* `OutcomesTellRunning`: the outcome of the last call tells whether the server
  runs. A `Start` that could not bind left it down; of the failures only the
  thread that could not be created leaves it up, and then always, as
  `FailedThreadLeavesServing` says: the finding of `callback_failed_start`, for
  every instance.
* `NothingReplacedUnderHandlers`: while a handler is in flight no step replaces
  the callback, the server or the service it uses.
* `OwnersCallsRunOut`: see "Termination" below.

For any number of racing threads `IInv` fails, and a weaker invariant is left,
`Lineage`: no two starts share a generation, a generation has no server before its
start builds one, and an RPC is in flight only in a server that serves or drains.
From it a server shut down never serves again (`ServersNeverRevive`): what goes wrong in `callback_race_abort` is which server
the object holds, not what a server does.

`Implementation`: `Spec => Abstract!Safety`, the refinement of
`NotificationService` without its fairness, with a lemma per kind of thread
(`CallerRefines`, `ThreadRefines`, `CallRefines`): `Build` opens,
`StopShutdown` closes, `Drained` is `Closed`, registrations, construction and
destruction are `Register`, everything else leaves the mapped variables alone.

### InterfacesClientProofs

The invariant has two halves. `Consistent` is inductive in every application,
also one that connects and disconnects under its own calls: a thread's place in
the code matches its request (`PlacesMatch`), users hold references
(`UsersHold`), each request is as far as its worker (`RequestsKeepUp`) and its
status says how it ended (`StatusTellsOutcome`). From it alone: `TypeCorrect`,
`UsersKeepTheClient`, `StatusIsTrue`, the refinement `Implementation` of
`AsyncQuery` without its fairness, `AnswersAreFinal` (an answer given is not
given again or altered), `DestructionReleases` (the destructor leaves no
channel, stub or connection, whoever drops the last reference) and
`DestructionIsFinal`. A `Disconnect` under a `QueryAsync` therefore costs the
stub of `client_race_disconnect`, and never a promise about the request.

`Disciplined` needs `Exclusive`: whoever connects or disconnects is alone in the
client (`LinkingIsAlone`), stub and channel differ only between `CreateChannel`
and `CreateStub` (`FieldsAgree`), a call past its check finds the stub it was
checked for (`StubStays`), a request meets the connection it was asked on
(`RequestsMeetTheirConnection`). From it: `StubsAreLive`,
`ConnectionsAreUsable`, `QueriesKeepTheirConnection`.

The steps fall into lemmas: of a connecting thread, which meets nobody
(`LinkStep`); of a call, which meets no connecting thread (`CallStep`); of a
dropped reference, which leaves the fields alone or leaves nobody inside; of
workers and beginnings. In the refinement `Lock` is `Begin`, `Deliver` is
`Answer` or, for a worker without a reference, `Cancel`, the last reference
dropped is `Destroy`; no request sees anything else.

### ChannelReadyProofs

The five safety properties of the wait. The invariant says that the body of the
loop runs before the deadline only and that the state is the one of the last
poll, one sleep ago at most (`InLoop`); a readiness that poll did not see came
after it (`ReadyIsNews`). `EarlyReadinessIsReported` is what remains of the
header's promise (`interfaces_client.h:169`): a channel that is ready from more
than one poll before the timeout on is reported.

### ModuleApiProofs

The six invariants of `module_calls`, `SuccessIsFinal` (nothing is executed after
a reported success) and `Implementation`: `Spec => Command!Safety`. The invariant follows a message:
until a call has written, nothing of it exists anywhere (`NotYetSent`); what can
still cause an execution is counted (`AtMostOneExecution`); a success code,
wherever it is, comes from an execution (`SuccessIsBacked`). `ResultsAreFinal`:
no message handled late and no later call alters what a call returned with.

### SubscriptionProofs

The invariants of `subscription` and `ReentrantStopIsFinal`. The invariant: only
running callbacks act and a stopped server runs none (`OnlyCallbacksAct`), so who
stopped it may disconnect (`UsersAreConnected`); what was published last is bound
(`PublishedIsBound`); where the owner is in a start or a `Stop` tells what
`server_` and `running_` hold (`OwnerAt`), which server a `Stop` is in
(`StopperAt`), and that a closing server has one (`CloserStays`). Once a start
has destroyed a server in use, `OwnerAt` and `StopperAt` are no longer claimed.

* `ServingServerIsKnown`: the window in which a server serves and is not known
  to is that from `BuildAndStart` to the assignments after it.
* `UsesTheService`: `Spec => Service!Safety` where no callback calls `Stop`. The
  server of `Subscription` has none of `NotificationService`'s actions; the owner
  being the only caller (`OneCaller`) is why its steps amount to them:
  `Serve` opens, `Stop` of the live server closes, and nothing is registered
  between the service's copy of the callback and `running_ = true`, so the copy
  is the callback in effect.
* `RestartInUseIsACallbacksDoing`: `Stop` clears `running_` before it waits, so a
  start is let in meanwhile; it lets go of a server in use only under a callback
  that is itself in `Stop`, of that server or of the one before. The second
  invariant `Closing` says why: a closing server has a `Stop` in it, and the
  owner that starts is in none.

### Termination

The prover has no rule for fairness, so `CallsReturn`, `Returns`, `StopEnds` and
the other liveness properties stay with TLC. Half of each is a safety property,
and is proved: that every step of the call reduces a natural number, that while
it waits no step of another thread raises what it waits for, and that the states
in which it waits are those that have a named way out. Fairness then only has to
provide the steps.

| Theorem | The measure | What it may wait for |
|---|---|---|
| `OwnersCallsRunOut` | statements left; while it waits, what gRPC, the handlers and the server thread have left | a handler, gRPC, the thread: never the owner |
| `MethodsRunOut` | statements left of a client's method or worker, at most seven, in any application | the SDK server, until a deadline; an application's `Subscribe` for ever |
| `TheWaitRunsOut` | ticks to the last deadline, then statements | the clock; the channel's changes do not count |
| `CallsRunOut` | statements left, at most six; nothing is retried | its stream, which can end |
| `NotificationsRunOut` | for each notification of a closing server, at most eight steps, its callback's calls included | an answer of the SDK server, or its own `Stop` |

### Only model-checked

Liveness of every component and the fairness half of the three refinements: the
prover has no rule for fairness and ENABLED. The five `violation` runs are
counterexamples, which TLC finds and nothing needs to prove.

Every invariant and action formula was model-checked before it was proved. The
runs do not repeat those checks, with these instances: the halves of the client's
invariant, its termination and `AsyncQuery`'s safety without `Exclusive` on two threads with one
request (2,033,204 states) and on one thread with two requests and either
ownership (740,933); `Closing`, `NoneForgotten` and `Drains` on the instance of
`subscription` with `StopFirst` (488,396) and without it (661,828); `Service!Safety`
on that instance without callbacks that stop the server (347,384); the formulas
of the callback server's owner on that of `callback_owner` (1,332,765);
those of the module calls on that of `module_calls` (246,862). The formulas of
`Lineage` for two racing callers were searched without a violation over ten
million states, not to the end: there the proof is the evidence.

## 7. Not modelled

* A callback that destroys the callback server object (it waits for itself like
  one that calls `Stop`), or that makes several calls.
* The factories `CreateInterfacesClient`: construction followed by `Connect`,
  which are modelled.
* The read of the configuration in `InterfacesClient`'s constructor: it goes
  through `config_manager_`, which nothing creates, into a library that is not
  in the repository. The model starts from a constructed client whose settings
  are readable or not.
* The life of a stream after `Action` or `Send` handed it to the application;
  `ModuleApi` models the library's own use of `Send`.
* Exceptions thrown by a `QueryAsync` callback; out-of-memory errors.
* Numeric conversions (`stoi` prefixes, megabytes to bytes, the octal constant
  of `client_callback_server.cpp:40`), messages of `Status`, the success
  conditions (used by nothing in the library), JSON conversion: values without
  state, which unit tests reach.

## 8. Plan

Done: `CallbackServer` with its abstract specification, runs and proofs;
`InterfacesClient`, `ChannelReady` and `ModuleApi` with their invariants and
their termination arguments proved;
`RobotCommand` and `AsyncQuery` and their refinements; `Subscription`, reentrant
callbacks included, and its use of `NotificationService`.

Left:

1. Proofs: the invariant of the callback server for an object that several
   threads use one at a time, in place of `OneOwner`; what the abstract
   specifications promise, as theorems of their own, so that it holds of
   whatever implements them.
2. The streams of `Send` and `Action` in the application's hands, against a
   `Disconnect` and the release of the client.
3. A composition of `ModuleApi` with `InterfacesClient`: several threads whose
   commands share one client.
