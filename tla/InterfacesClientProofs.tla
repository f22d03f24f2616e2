------------------------ MODULE InterfacesClientProofs ------------------------
(***************************************************************************)
(* Theorems of InterfacesClient, for any number of application threads and *)
(* requests, for every gRPC code and either owner: of every application,   *)
(* and of those that keep the discipline Exclusive.                        *)
(***************************************************************************)
EXTENDS InterfacesClient, TLAPS

USE EndingsAssumption, OwnersAssumption, ExclusiveAssumption,
    MaxConnectsAssumption, ActorsAssumption

\* What a call's status tells of its code.
LEMMA Converted ==
  ASSUME NEW code \in GrpcCodes
  PROVE  /\ ConvertGrpcStatus(code) \in StatusCodes
         /\ ConvertGrpcStatus(code) \notin {"none", "not_connected"}
         /\ ConvertGrpcStatus(code) = "success" => code = "OK"
         /\ ConvertGrpcStatus(code) = "operation_canceled" => code = "CANCELLED"
  BY DEF ConvertGrpcStatus, Conversion, StatusCodes, RpcErrors, LocalErrors,
         GrpcCodes

LEMMA IInvInit == Init => IInv
<1> SUFFICES ASSUME Init PROVE IInv
  OBVIOUS
<1> USE DEF Init, Actors
<1>1. TypeOK
  <2>1. 0 \in ChannelOrNull /\ {"idle", "unused"} \subseteq Places
        /\ {"none", "query"} \subseteq Methods /\ "none" \in Results
    BY DEF ChannelOrNull, Places, Resting, Methods, CallMethods, Results
  <2>2. owner \in {"shared", "unique"} /\ configured \in BOOLEAN
    OBVIOUS
  <2>3. pc \in [Actors -> Places] /\ op \in [Actors -> Methods]
    BY <2>1
  <2>4. seen \in [Actors -> ChannelOrNull] /\ result \in [Actors -> Results]
    BY <2>1
  <2>5. /\ outcome \in [Requests -> {"unsent", "pending"} \cup GrpcCodes]
        /\ asked \in [Requests -> {"never", "connected", "disconnected"}]
        /\ callbacks \in [Requests -> 0 .. 1]
    OBVIOUS
  <2> QED BY <2>1, <2>2, <2>3, <2>4, <2>5 DEF TypeOK
<1>2. PlacesMatch /\ UsersHold /\ RequestsKeepUp /\ StatusTellsOutcome
  BY DEF PlacesMatch, UsersHold, Calling, RequestsKeepUp, StatusTellsOutcome
<1>3. LinkingIsAlone /\ FieldsAgree /\ StubStays
  BY DEF LinkingIsAlone, FieldsAgree, StubStays, IsConnected, LinkMethods
<1>4. RequestsMeetTheirConnection /\ QueryKeepsItsConnection
  BY DEF RequestsMeetTheirConnection, QueryKeepsItsConnection
<1> QED BY <1>1, <1>2, <1>3, <1>4 DEF IInv, Consistent, Disciplined

-----------------------------------------------------------------------------
(***************************************************************************)
(* What holds of every application.                                        *)
(***************************************************************************)
LEMMA Types ==
  ASSUME Consistent
  PROVE  /\ Apps \subseteq Actors /\ Requests \subseteq Actors
         /\ pc \in [Actors -> Places] /\ op \in [Actors -> Methods]
         /\ result \in [Actors -> Results] /\ seen \in [Actors -> ChannelOrNull]
         /\ outcome \in [Requests -> {"unsent", "pending"} \cup GrpcCodes]
         /\ callbacks \in [Requests -> 0 .. 1]
         /\ channel \in ChannelOrNull /\ stub \in ChannelOrNull
         /\ connected \in BOOLEAN /\ attempts \in ChannelOrNull
         /\ 0 \in ChannelOrNull
         /\ {"success", "io_error", "not_connected", "operation_canceled",
             "connection_refused"} \subseteq StatusCodes
         /\ StatusCodes \cup {"none", "bad_weak_ptr", "no_thread"} = Results
  BY DEF Consistent, TypeOK, Actors, ChannelOrNull, Results, StatusCodes,
         RpcErrors, LocalErrors

\* Connecting and disconnecting: a step of one application's own method.
LEMMA LinkMoves ==
  ASSUME Consistent, NEW a \in Apps, Connect(a) \/ Disconnect(a) \/ Continue(a)
  PROVE  /\ pc[a] \in {"idle"} \cup Linking \cup Unlinking
         /\ \/ pc'[a] = "idle" /\ op'[a] = "none"
            \/ pc'[a] \in Linking /\ op'[a] = "connect"
            \/ pc'[a] \in Unlinking /\ op'[a] = "disconnect"
         /\ pc' = [pc EXCEPT ![a] = pc'[a]] /\ op' = [op EXCEPT ![a] = op'[a]]
         /\ result' \in [Actors -> Results]
         /\ \A r \in Requests : result'[r] = result[r]
         /\ UNCHANGED <<owner, configured, holders, outcome, asked, callbacks,
                        seen, fault>>
<1>1. a \in Actors /\ a \notin Requests
  BY DEF Actors
<1> USE Types, <1>1 DEF Linking, Unlinking, At, Places, Ownership, Setting, asyncVars
<1>2. /\ pc[a] \in Linking => op[a] = "connect"
      /\ pc[a] \in Unlinking => op[a] = "disconnect"
  BY DEF Consistent, PlacesMatch, Calling
<1>3. CASE Connect(a) \/ Disconnect(a)
  BY <1>3 DEF Connect, Disconnect, Enter
<1>4. CASE CreateChannel(a) \/ CreateStub(a) \/ MarkConnected(a)
           \/ ResetStub(a) \/ ResetChannel(a)
  BY <1>2, <1>4 DEF CreateChannel, CreateStub, MarkConnected, ResetStub,
                    ResetChannel, Goto
<1>5. CASE Configure(a)
  BY <1>2, <1>5 DEF Configure, Goto, Return
<1>6. CASE ChannelFails(a) \/ StubFails(a) \/ AwaitReady(a) \/ Unmark(a)
  BY <1>6 DEF ChannelFails, StubFails, AwaitReady, Unmark, Return
<1> QED BY <1>3, <1>4, <1>5, <1>6 DEF Continue

LEMMA ConsistentLink ==
  ASSUME Consistent, NEW a \in Apps, Connect(a) \/ Disconnect(a) \/ Continue(a)
  PROVE  Consistent'
<1>1. a \in Actors /\ a \notin Requests
  BY DEF Actors
<1>2. /\ channel' \in ChannelOrNull /\ stub' \in ChannelOrNull
      /\ connected' \in BOOLEAN /\ attempts' \in ChannelOrNull
  <2> USE Types DEF fields
  <2>1. CASE Connect(a) \/ Disconnect(a) \/ Configure(a) \/ AwaitReady(a)
    BY <2>1 DEF Connect, Disconnect, Enter, Configure, AwaitReady
  <2>2. CASE CreateChannel(a)
    BY <2>2 DEF CreateChannel, ChannelOrNull
  <2>3. CASE \/ ChannelFails(a) \/ CreateStub(a) \/ StubFails(a)
             \/ MarkConnected(a) \/ ResetStub(a) \/ ResetChannel(a) \/ Unmark(a)
    BY <2>3 DEF ChannelFails, CreateStub, StubFails, MarkConnected, ResetStub,
                ResetChannel, Unmark
  <2> QED BY <2>1, <2>2, <2>3 DEF Continue
<1>3. TypeOK'
  <2>1. pc'[a] \in Places /\ op'[a] \in Methods
    BY LinkMoves DEF Places, Inside, Resting, Methods, LinkMethods
  <2> QED BY Types, <1>1, <1>2, <2>1, LinkMoves DEF Consistent, TypeOK
<1>4. PlacesMatch'
  BY Types, <1>1, LinkMoves DEF Consistent, PlacesMatch
<1>5. UsersHold'
  BY Types, <1>1, LinkMoves DEF Consistent, UsersHold, Linking, Unlinking, Calling
<1>6. RequestsKeepUp' /\ StatusTellsOutcome'
  BY Types, <1>1, LinkMoves DEF Consistent, RequestsKeepUp, StatusTellsOutcome
<1> QED BY <1>3, <1>4, <1>5, <1>6 DEF Consistent

\* A call, by an application or a worker, on whatever stub it finds.
LEMMA CallMoves ==
  ASSUME Consistent, NEW x \in Actors, Perform(x) \/ RpcEnds(x) \/ RpcExpires(x)
  PROVE  /\ pc[x] \in Calling
         /\ UNCHANGED <<owner, configured, holders, asked, callbacks, channel,
                        stub, connected, attempts>>
         /\ pc' = [pc EXCEPT ![x] = pc'[x]]
         /\ op' = [op EXCEPT ![x] = op'[x]]
         /\ result' = [result EXCEPT ![x] = result'[x]]
         /\ seen' = [seen EXCEPT ![x] = seen'[x]] /\ seen'[x] \in ChannelOrNull
         /\ outcome' \in [Requests -> {"unsent", "pending"} \cup GrpcCodes]
         /\ \A r \in Requests \ {x} : outcome'[r] = outcome[r]
         /\ \/ /\ pc'[x] = IF x \in Apps THEN "idle" ELSE "deliver"
               /\ op'[x] = IF x \in Apps THEN "none" ELSE op[x]
               /\ result'[x] \in StatusCodes
            \/ /\ pc'[x] \in {"load", "invoke", "wait"} /\ op'[x] = op[x]
               /\ result'[x] = result[x]
         /\ x \in Requests =>
              /\ pc'[x] \in {"load", "invoke"} => outcome'[x] = "unsent"
              /\ pc'[x] = "deliver" =>
                   /\ result'[x] = "success" => outcome'[x] = "OK"
                   /\ result'[x] = "not_connected" => outcome'[x] = "unsent"
                   /\ result'[x] = "operation_canceled" => outcome'[x] = "CANCELLED"
<1> USE Types DEF Ownership, Setting, asyncVars, fields, At, Calling
<1>1. x \in Requests => op[x] = "query"
  BY DEF Consistent, PlacesMatch
<1>2. CASE Check(x)
  <2>1. x \in Requests => outcome[x] = "unsent"
    BY <1>2 DEF Check, Consistent, RequestsKeepUp
  <2> QED BY <1>2, <2>1 DEF Check, Goto, Return, Actors
<1>3. CASE LoadStub(x)
  <2>1. x \in Requests => outcome[x] = "unsent"
    BY <1>3 DEF LoadStub, Consistent, RequestsKeepUp
  <2> QED BY <1>3, <2>1 DEF LoadStub, Goto, Actors
<1>4. CASE Invoke(x) /\ op[x] = "stream"
  BY <1>1, <1>4 DEF Invoke, Return, Actors
<1>5. CASE Invoke(x) /\ op[x] # "stream"
  <2>1. /\ pc' = [pc EXCEPT ![x] = "wait"] /\ UNCHANGED <<op, result>>
        /\ outcome' = IF x \in Requests THEN [outcome EXCEPT ![x] = "pending"]
                      ELSE outcome
    BY <1>5 DEF Invoke, Goto, Becomes
  <2> QED BY <1>5, <2>1 DEF Invoke, Actors
<1>6. CASE RpcEnds(x)
  <2>1. PICK code \in GrpcCodes :
          Return(x, ConvertGrpcStatus(code)) /\ Becomes(x, code)
    BY <1>6 DEF RpcEnds
  <2> QED BY <1>6, <2>1, Converted DEF RpcEnds, Return, Becomes, Actors
<1>7. CASE RpcExpires(x)
  <2>1. "DEADLINE_EXCEEDED" \in GrpcCodes
    BY DEF GrpcCodes
  <2> QED BY <1>7, <2>1, Converted DEF RpcExpires, Return, Becomes, Actors
<1> QED BY <1>2, <1>3, <1>4, <1>5, <1>6, <1>7 DEF Perform

LEMMA ConsistentCall ==
  ASSUME Consistent, NEW x \in Actors, Perform(x) \/ RpcEnds(x) \/ RpcExpires(x)
  PROVE  Consistent'
<1> USE Types, CallMoves
<1>1. TypeOK'
  <2>1. pc'[x] \in Places /\ op'[x] \in Methods /\ result'[x] \in Results
    BY DEF Places, Inside, Calling, Resting, Methods
  <2>2. fault' \in {"none", "null_stub", "freed_stub"}
    BY DEF Perform, Check, LoadStub, Invoke, RpcEnds, RpcExpires, Consistent, TypeOK
  <2> QED BY <2>1, <2>2 DEF Consistent, TypeOK
<1>2. PlacesMatch'
  BY DEF Consistent, PlacesMatch, Calling, Linking, Unlinking
<1>3. UsersHold'
  BY DEF Consistent, UsersHold, Calling
<1>4. RequestsKeepUp'
  BY DEF Consistent, RequestsKeepUp, Calling
<1>5. StatusTellsOutcome'
  BY DEF Consistent, StatusTellsOutcome, RequestsKeepUp
<1> QED BY <1>1, <1>2, <1>3, <1>4, <1>5 DEF Consistent

\* Dropping a reference leaves the client to those who still hold it, or
\* destroys it.
LEMMA Dropped ==
  ASSUME Consistent, NEW x \in Actors, NEW label \in {"gone", "finished"},
         x \in Apps => pc[x] = "idle" /\ label = "gone",
         x \in Requests => pc[x] = "drop" /\ label = "finished",
         DropReference(x), Goto(x, label)
  PROVE  /\ pc' = [pc EXCEPT ![x] = label] /\ holders' = holders \ {x}
         /\ UNCHANGED <<owner, configured, asked, callbacks, outcome, attempts,
                        seen, fault, op, result>>
         /\ \A y \in Actors : pc'[y] \in Inside => y \in holders'
         /\ \/ UNCHANGED <<channel, stub, connected>>
            \/ /\ holders' = {}
               /\ channel' = 0 /\ stub' = 0 /\ connected' = FALSE
<1>1. /\ pc' = [pc EXCEPT ![x] = label] /\ holders' = holders \ {x}
      /\ UNCHANGED <<owner, configured, asked, callbacks, outcome, attempts,
                     seen, fault, op, result>>
      /\ \/ UNCHANGED <<channel, stub, connected>>
         \/ /\ holders' = {}
            /\ channel' = 0 /\ stub' = 0 /\ connected' = FALSE
  BY DEF DropReference, Goto, Setting, asyncVars
<1>2. \A y \in Actors : pc'[y] = IF y = x THEN label ELSE pc[y]
  BY Types, <1>1
<1>3. \A y \in Actors : pc'[y] \in Inside => y \in holders'
  BY <1>1, <1>2 DEF Consistent, UsersHold, PlacesMatch, Actors, Inside, Linking,
                    Unlinking, Calling
<1> QED BY <1>1, <1>3

LEMMA ConsistentDrop ==
  ASSUME Consistent, NEW x \in Actors, NEW label \in {"gone", "finished"},
         x \in Apps => pc[x] = "idle" /\ label = "gone",
         x \in Requests => pc[x] = "drop" /\ label = "finished",
         DropReference(x), Goto(x, label)
  PROVE  Consistent'
<1>1. /\ pc' = [pc EXCEPT ![x] = label] /\ holders' = holders \ {x}
      /\ UNCHANGED <<owner, configured, asked, callbacks, outcome, attempts,
                     seen, fault, op, result>>
      /\ \A y \in Actors : pc'[y] \in Inside => y \in holders'
      /\ \/ UNCHANGED <<channel, stub, connected>>
         \/ channel' = 0 /\ stub' = 0 /\ connected' = FALSE
  BY Dropped, ZenonT(30)
<1> USE Types, <1>1
<1>2. label \in Places
  BY DEF Places, Resting
<1>3. TypeOK'
  BY <1>2 DEF Consistent, TypeOK
<1>4. PlacesMatch'
  BY DEF Consistent, PlacesMatch, Linking, Unlinking, Calling
<1>5. UsersHold'
  BY DEF Consistent, UsersHold, Inside
<1>6. RequestsKeepUp' /\ StatusTellsOutcome'
  BY DEF Consistent, RequestsKeepUp, StatusTellsOutcome, Calling
<1> QED BY <1>3, <1>4, <1>5, <1>6 DEF Consistent

\* The worker of a QueryAsync, around its call.
LEMMA ConsistentWork ==
  ASSUME Consistent, NEW r \in Requests, Work(r)
  PROVE  Consistent'
<1>1. /\ r \in Actors /\ r \notin Apps /\ op[r] = "query"
      /\ {"check", "deliver", "drop", "finished"} \subseteq Places
  BY Types DEF Actors, Consistent, PlacesMatch, Places, Inside, Calling, Resting
<1> USE Types, <1>1 DEF Setting, asyncVars, fields, At
<1>2. CASE Lock(r) /\ holders # {}
  <2>1. /\ pc' = [pc EXCEPT ![r] = "check"] /\ holders' = holders \cup {r}
        /\ UNCHANGED <<owner, configured, asked, callbacks, outcome, fields,
                       seen, fault, op, result>>
        /\ pc[r] = "lock"
    BY <1>2 DEF Lock, Goto
  <2>2. TypeOK' /\ PlacesMatch'
    BY <2>1 DEF Consistent, TypeOK, PlacesMatch, Calling
  <2>3. UsersHold'
    BY <1>2, <2>1 DEF Consistent, UsersHold, Calling
  <2>4. RequestsKeepUp' /\ StatusTellsOutcome'
    BY <1>2, <2>1 DEF Consistent, RequestsKeepUp, StatusTellsOutcome, Calling
  <2> QED BY <2>2, <2>3, <2>4 DEF Consistent
<1>3. CASE Lock(r) /\ holders = {}
  <2>1. /\ pc' = [pc EXCEPT ![r] = "deliver"] /\ op' = [op EXCEPT ![r] = op[r]]
        /\ result' = [result EXCEPT ![r] = "operation_canceled"]
        /\ UNCHANGED <<owner, configured, holders, asked, callbacks, outcome,
                       fields, seen, fault>>
        /\ pc[r] = "lock"
    BY <1>3 DEF Lock, Return
  <2>2. TypeOK' /\ PlacesMatch'
    BY <2>1 DEF Consistent, TypeOK, PlacesMatch, Calling
  <2>3. UsersHold'
    BY <1>3, <2>1 DEF Consistent, UsersHold, Calling
  <2>4. RequestsKeepUp' /\ StatusTellsOutcome'
    BY <1>3, <2>1 DEF Consistent, RequestsKeepUp, StatusTellsOutcome, Calling
  <2> QED BY <2>2, <2>3, <2>4 DEF Consistent
<1>4. CASE Deliver(r)
  <2>1. callbacks[r] = 0
    BY <1>4 DEF Deliver, Consistent, RequestsKeepUp
  <2>2. /\ pc' = [pc EXCEPT ![r] = "drop"] /\ pc[r] = "deliver"
        /\ callbacks' = [callbacks EXCEPT ![r] = 1]
        /\ UNCHANGED <<owner, configured, holders, asked, outcome, fields,
                       seen, fault, op, result>>
    BY <1>4, <2>1 DEF Deliver, Goto
  <2>3. TypeOK' /\ PlacesMatch'
    BY <2>2 DEF Consistent, TypeOK, PlacesMatch, Calling
  <2>4. UsersHold'
    BY <2>2 DEF Consistent, UsersHold, Calling
  <2>5. RequestsKeepUp' /\ StatusTellsOutcome'
    BY <2>2 DEF Consistent, RequestsKeepUp, StatusTellsOutcome, Calling
  <2> QED BY <2>3, <2>4, <2>5 DEF Consistent
<1>5. CASE Drop(r)
  BY <1>5, ConsistentDrop DEF Drop
<1> QED BY <1>2, <1>3, <1>4, <1>5 DEF Work

\* What an application begins that leaves the connection alone.
LEMMA ConsistentBegin ==
  ASSUME Consistent, NEW a \in Apps,
         \/ Call(a) \/ Release(a) \/ QueryAsyncUnowned(a) \/ QueryAsyncNoThread(a)
         \/ \E r \in Requests : QueryAsync(a, r)
  PROVE  Consistent'
<1>1. /\ a \in Actors /\ a \notin Requests /\ CallMethods \subseteq Methods
      /\ {"check", "lock", "idle"} \subseteq Places
  BY DEF Actors, Places, Inside, Calling, Resting, Methods
<1>2. pc[a] = "idle" /\ op[a] = "none" /\ a \in holders
  BY DEF Call, Enter, Release, QueryAsyncUnowned, QueryAsyncNoThread, QueryAsync,
         At, Consistent, PlacesMatch, Linking, Unlinking, Calling, UsersHold
<1> USE Types, <1>1 DEF Ownership, Setting, asyncVars, fields, At
<1>3. CASE Call(a)
  <2>1. PICK method \in CallMethods : Enter(a, method, "check")
    BY <1>3 DEF Call
  <2>2. /\ pc' = [pc EXCEPT ![a] = "check"] /\ op' = [op EXCEPT ![a] = method]
        /\ UNCHANGED <<owner, configured, holders, asked, callbacks, outcome,
                       fields, seen, result, fault>>
    BY <2>1 DEF Enter
  <2>3. TypeOK' /\ PlacesMatch' /\ UsersHold'
    BY <1>2, <2>2 DEF Consistent, TypeOK, PlacesMatch, Calling, UsersHold
  <2>4. RequestsKeepUp' /\ StatusTellsOutcome'
    BY <2>2 DEF Consistent, RequestsKeepUp, StatusTellsOutcome
  <2> QED BY <2>3, <2>4 DEF Consistent
<1>4. CASE Release(a)
  BY <1>2, <1>4, ConsistentDrop DEF Release
<1>5. CASE QueryAsyncUnowned(a) \/ QueryAsyncNoThread(a)
  <2>1. PICK value \in {"bad_weak_ptr", "no_thread"} :
             result' = [result EXCEPT ![a] = value]
    BY <1>5 DEF QueryAsyncUnowned, QueryAsyncNoThread, Return
  <2>2. UNCHANGED <<owner, configured, holders, asked, callbacks, outcome,
                    fields, seen, fault, pc, op>>
    BY <1>2, <1>5 DEF QueryAsyncUnowned, QueryAsyncNoThread, Return
  <2>3. TypeOK' /\ PlacesMatch' /\ UsersHold'
    BY <2>1, <2>2 DEF Consistent, TypeOK, PlacesMatch, UsersHold
  <2>4. RequestsKeepUp' /\ StatusTellsOutcome'
    BY <2>1, <2>2 DEF Consistent, RequestsKeepUp, StatusTellsOutcome
  <2> QED BY <2>3, <2>4 DEF Consistent
<1>6. ASSUME NEW r \in Requests, QueryAsync(a, r) PROVE Consistent'
  <2>1. /\ pc' = [pc EXCEPT ![r] = "lock"] /\ pc[r] = "unused"
        /\ result' = [result EXCEPT ![a] = "success"]
        /\ asked' = [asked EXCEPT
                       ![r] = IF IsConnected THEN "connected" ELSE "disconnected"]
        /\ UNCHANGED <<owner, configured, holders, callbacks, outcome, fields,
                       op, seen, fault>>
    BY <1>6 DEF QueryAsync
  <2>2. TypeOK' /\ PlacesMatch' /\ UsersHold'
    BY <2>1 DEF Consistent, TypeOK, PlacesMatch, Calling, UsersHold
  <2>3. RequestsKeepUp' /\ StatusTellsOutcome'
    BY <2>1 DEF Consistent, RequestsKeepUp, TypeOK, Calling, StatusTellsOutcome
  <2> QED BY <2>2, <2>3 DEF Consistent
<1> QED BY <1>3, <1>4, <1>5, <1>6

LEMMA ConsistentStep == Consistent /\ [Next]_vars => Consistent'
<1> SUFFICES ASSUME Consistent, [Next]_vars PROVE Consistent'
  OBVIOUS
<1>1. CASE UNCHANGED vars
  BY <1>1 DEF vars, fields, asyncVars, Consistent, TypeOK, PlacesMatch, UsersHold,
              RequestsKeepUp, StatusTellsOutcome
<1>2. CASE Next
  BY <1>2, ConsistentLink, ConsistentBegin, ConsistentWork, ConsistentCall
  DEF Next, Begin
<1> QED BY <1>1, <1>2

-----------------------------------------------------------------------------
(***************************************************************************)
(* What the discipline Exclusive adds.                                     *)
(***************************************************************************)
\* Connecting and disconnecting: no other actor is inside the client.
LEMMA LinkStep ==
  ASSUME Exclusive, IInv, Consistent', NEW a \in Apps,
         Connect(a) \/ Disconnect(a) \/ Continue(a)
  PROVE  Disciplined'
<1> USE Types, LinkMoves DEF IInv, Consistent, Disciplined
<1>1. /\ \A x \in Actors \ {a} : AtRest(x)
      /\ pc[a] \notin Calling
      /\ a \in Actors /\ a \notin Requests
  <2>1. CASE Connect(a) \/ Disconnect(a)
    BY <2>1 DEF Connect, Disconnect, Enter, At, MayReconnect, Actors, Calling
  <2>2. CASE Continue(a)
    <3>1. pc[a] \in Linking \cup Unlinking
      BY <2>2 DEF Continue, Configure, CreateChannel, ChannelFails, CreateStub,
                  StubFails, MarkConnected, AwaitReady, ResetStub,
                  ResetChannel, Unmark, At, Linking, Unlinking
    <3> QED BY <3>1 DEF PlacesMatch, Linking, Unlinking, Calling, LinkMethods,
                        LinkingIsAlone, Actors
  <2> QED BY <2>1, <2>2
<1>2. FieldsAgree'
  <2>1. \A b \in Apps \ {a} : pc[b] \notin Linking /\ pc'[b] \notin Linking
    BY <1>1 DEF Actors, AtRest, Resting, Linking
  <2>2. /\ IsConnected /\ pc[a] # "stub" => stub = channel
        /\ pc[a] \in {"mark", "ready"} => stub = channel
    BY <2>1 DEF FieldsAgree, Linking
  <2> SUFFICES /\ IsConnected' /\ pc'[a] # "stub" => stub' = channel'
               /\ pc'[a] \in {"mark", "ready"} => stub' = channel'
    BY <2>1 DEF FieldsAgree, Linking
  <2> USE <1>1, <2>2 DEF IsConnected, At, fields
  <2>4. CASE Connect(a) \/ Disconnect(a)
    BY <2>4 DEF Connect, Disconnect, Enter
  <2>5. CASE Configure(a) \/ AwaitReady(a)
    BY <2>5 DEF Configure, AwaitReady, Goto, Return
  <2>6. CASE CreateChannel(a) \/ CreateStub(a) \/ MarkConnected(a)
    BY <2>6 DEF CreateChannel, CreateStub, MarkConnected, Goto
  <2>7. CASE ChannelFails(a) \/ StubFails(a)
    BY <2>7 DEF ChannelFails, StubFails, Return
  <2>8. CASE ResetStub(a) \/ ResetChannel(a) \/ Unmark(a)
    BY <2>8 DEF ResetStub, ResetChannel, Unmark, Goto, Return
  <2> QED BY <2>4, <2>5, <2>6, <2>7, <2>8 DEF Continue
<1>3. LinkingIsAlone'
  BY <1>1 DEF LinkingIsAlone, PlacesMatch, AtRest, Actors, LinkMethods,
              Linking, Unlinking, Calling, CallMethods, Resting
<1>4. StubStays'
  BY <1>1 DEF StubStays, AtRest, Resting, Linking, Unlinking
<1>5. RequestsMeetTheirConnection'
  BY <1>1 DEF RequestsMeetTheirConnection, AtRest, Resting, Actors
<1>6. QueryKeepsItsConnection'
  BY DEF QueryKeepsItsConnection
<1> QED BY <1>2, <1>3, <1>4, <1>5, <1>6

\* A call, by an application or a worker: nobody connects or disconnects.
LEMMA CallStep ==
  ASSUME Exclusive, IInv, Consistent', NEW x \in Actors,
         Perform(x) \/ RpcEnds(x) \/ RpcExpires(x)
  PROVE  Disciplined'
<1> USE Types, CallMoves DEF IInv, Consistent, Disciplined
<1>1. /\ \A a \in Apps : op[a] \notin LinkMethods
      /\ \A a \in Apps : pc[a] \notin Linking \cup Unlinking
      /\ IsConnected => stub = channel
  <2>1. ASSUME NEW a \in Apps PROVE op[a] \notin LinkMethods
    BY DEF PlacesMatch, LinkingIsAlone, AtRest, Resting, Calling, Linking,
           Unlinking, Actors, LinkMethods, CallMethods
  <2>2. \A a \in Apps : pc[a] \notin Linking \cup Unlinking
    BY <2>1 DEF PlacesMatch, LinkMethods, Calling, Linking, Unlinking
  <2> QED BY <2>1, <2>2 DEF FieldsAgree, Linking
<1>2. /\ fault' = "none"
      /\ pc'[x] \in {"load", "invoke"} => stub # 0
      /\ pc'[x] = "invoke" => seen'[x] = stub
  <2> USE DEF At, fields, StubStays
  <2>1. CASE Check(x)
    BY <2>1 DEF Check, Goto, Return, IsConnected
  <2>2. CASE LoadStub(x)
    BY <2>2 DEF LoadStub, Goto
  <2>3. CASE Invoke(x)
    BY <2>3 DEF Invoke, Goto, Return
  <2>4. CASE RpcEnds(x) \/ RpcExpires(x)
    BY <2>4 DEF RpcEnds, RpcExpires, Return
  <2> QED BY <2>1, <2>2, <2>3, <2>4 DEF Perform
<1>3. ASSUME x \in Requests
      PROVE  /\ asked[x] = "disconnected" =>
                  /\ pc'[x] = "deliver" /\ result'[x] = "not_connected"
                  /\ outcome'[x] = "unsent"
             /\ result'[x] = "not_connected" => asked[x] = "disconnected"
  <2> USE <1>3 DEF At, fields, Ownership, RequestsMeetTheirConnection, RequestsKeepUp
  <2>1. CASE Check(x)
    <3>1. asked[x] = IF IsConnected THEN "connected" ELSE "disconnected"
      BY <2>1 DEF Check, TypeOK
    <3> QED BY <2>1, <3>1 DEF Check, Goto, Return, Calling, Actors
  <2>2. CASE LoadStub(x)
    BY <2>2 DEF LoadStub, Goto, Calling
  <2>3. CASE Invoke(x)
    <3>1. op[x] # "stream"
      BY DEF PlacesMatch
    <3> QED BY <2>3, <3>1 DEF Invoke, Goto, Calling
  <2>4. CASE RpcEnds(x)
    <3>1. PICK code \in GrpcCodes : Return(x, ConvertGrpcStatus(code))
      BY <2>4 DEF RpcEnds
    <3> QED BY <2>4, <3>1, Converted DEF RpcEnds, Return
  <2>5. CASE RpcExpires(x)
    <3>1. "DEADLINE_EXCEEDED" \in GrpcCodes
      BY DEF GrpcCodes
    <3> QED BY <2>5, <3>1, Converted DEF RpcExpires, Return
  <2> QED BY <2>1, <2>2, <2>3, <2>4, <2>5 DEF Perform
<1>4. LinkingIsAlone'
  BY <1>1 DEF LinkingIsAlone, LinkMethods
<1>5. FieldsAgree'
  BY <1>1 DEF FieldsAgree, IsConnected
<1>6. StubStays'
  BY <1>2 DEF StubStays
<1>7. RequestsMeetTheirConnection'
  BY <1>3 DEF RequestsMeetTheirConnection, IsConnected, Actors
<1>8. QueryKeepsItsConnection'
  BY <1>3 DEF QueryKeepsItsConnection
<1> QED BY <1>4, <1>5, <1>6, <1>7, <1>8

LEMMA DropStep ==
  ASSUME Exclusive, IInv, NEW x \in Actors, NEW label \in {"gone", "finished"},
         x \in Apps => pc[x] = "idle" /\ label = "gone",
         x \in Requests => pc[x] = "drop" /\ label = "finished",
         DropReference(x), Goto(x, label)
  PROVE  Disciplined'
<1>1. /\ pc' = [pc EXCEPT ![x] = label] /\ holders' = holders \ {x}
      /\ UNCHANGED <<owner, configured, asked, callbacks, outcome, attempts,
                     seen, fault, op, result>>
      /\ \/ UNCHANGED <<channel, stub, connected>>
         \/ ((\A y \in Actors : pc'[y] \notin Inside) /\ ~IsConnected'
             /\ holders' = {})
  BY Dropped, ZenonT(30) DEF IInv, IsConnected
<1> USE Types DEF IInv, Consistent, Disciplined
<1>2. LinkingIsAlone'
  BY <1>1 DEF LinkingIsAlone, AtRest, Resting
<1>3. FieldsAgree'
  BY <1>1 DEF FieldsAgree, IsConnected, Inside, Linking
<1>4. StubStays'
  BY <1>1 DEF StubStays, Inside, Calling
<1>5. RequestsMeetTheirConnection'
  BY <1>1 DEF RequestsMeetTheirConnection, IsConnected, Inside, Calling
<1>6. QueryKeepsItsConnection'
  BY <1>1 DEF QueryKeepsItsConnection
<1> QED BY <1>2, <1>3, <1>4, <1>5, <1>6

\* The worker of a QueryAsync, around its call.
LEMMA WorkStep ==
  ASSUME Exclusive, IInv, NEW r \in Requests, Work(r)
  PROVE  Disciplined'
<1> USE Types DEF IInv, Consistent, Disciplined, Setting, asyncVars, fields, At
<1>1. r \in Actors /\ r \notin Apps
  BY DEF Actors
<1>2. CASE Lock(r)
  <2>1. \A a \in Apps : op[a] \notin LinkMethods
    BY <1>1, <1>2 DEF Lock, LinkingIsAlone, AtRest, Resting
  <2>2. /\ pc[r] = "lock" /\ op' = op /\ result[r] = "none"
        /\ \/ /\ pc' = [pc EXCEPT ![r] = "check"] /\ UNCHANGED result
              /\ holders # {} /\ holders' = holders \cup {r}
           \/ /\ pc' = [pc EXCEPT ![r] = "deliver"] /\ UNCHANGED holders
              /\ result' = [result EXCEPT ![r] = "operation_canceled"]
        /\ UNCHANGED <<asked, outcome, fields, seen, fault>>
    BY <1>1, <1>2 DEF Lock, Goto, Return, RequestsKeepUp
  <2>3. LinkingIsAlone' /\ FieldsAgree' /\ StubStays'
    BY <1>1, <2>1, <2>2 DEF LinkingIsAlone, FieldsAgree, StubStays, IsConnected
  <2>4. RequestsMeetTheirConnection' /\ QueryKeepsItsConnection'
    BY <1>1, <2>2 DEF RequestsMeetTheirConnection, RequestsKeepUp, IsConnected,
                      QueryKeepsItsConnection
  <2> QED BY <2>3, <2>4
<1>3. CASE Deliver(r)
  <2>1. /\ pc' = [pc EXCEPT ![r] = "drop"] /\ pc[r] = "deliver"
        /\ UNCHANGED <<holders, asked, outcome, fields, seen, fault, op, result>>
    BY <1>3 DEF Deliver, Goto
  <2>2. LinkingIsAlone' /\ FieldsAgree' /\ StubStays'
    BY <1>1, <2>1 DEF LinkingIsAlone, FieldsAgree, StubStays, IsConnected, AtRest,
                      Resting
  <2>3. RequestsMeetTheirConnection' /\ QueryKeepsItsConnection'
    BY <1>1, <2>1 DEF RequestsMeetTheirConnection, QueryKeepsItsConnection,
                      IsConnected
  <2> QED BY <2>2, <2>3
<1>4. CASE Drop(r)
  BY <1>1, <1>4, DropStep DEF Drop
<1> QED BY <1>2, <1>3, <1>4 DEF Work

\* What an application begins that leaves the connection alone.
LEMMA BeginStep ==
  ASSUME Exclusive, IInv, NEW a \in Apps,
         \/ Call(a) \/ Release(a) \/ QueryAsyncUnowned(a) \/ QueryAsyncNoThread(a)
         \/ \E r \in Requests : QueryAsync(a, r)
  PROVE  Disciplined'
<1> USE Types DEF IInv, Consistent, Disciplined, Ownership, Setting, asyncVars,
                  fields, At
<1>1. a \in Actors /\ a \notin Requests
  BY DEF Actors
<1>2. pc[a] = "idle" /\ op[a] = "none"
  BY DEF Call, Enter, Release, QueryAsyncUnowned, QueryAsyncNoThread, QueryAsync,
         PlacesMatch, Linking, Unlinking, Calling
<1>3. CASE Call(a)
  <2>1. PICK method \in CallMethods : Enter(a, method, "check") /\ MayCall
    BY <1>3 DEF Call
  <2>2. /\ pc' = [pc EXCEPT ![a] = "check"] /\ op' = [op EXCEPT ![a] = method]
        /\ UNCHANGED <<holders, asked, outcome, fields, seen, result, fault>>
        /\ \A b \in Apps : op[b] \notin LinkMethods
    BY <2>1 DEF Enter, MayCall
  <2>3. LinkingIsAlone' /\ FieldsAgree' /\ StubStays'
    BY <1>1, <1>2, <2>2 DEF LinkingIsAlone, LinkMethods, CallMethods, FieldsAgree,
                            StubStays, IsConnected
  <2>4. RequestsMeetTheirConnection' /\ QueryKeepsItsConnection'
    BY <1>1, <2>2 DEF RequestsMeetTheirConnection, QueryKeepsItsConnection,
                      IsConnected
  <2> QED BY <2>3, <2>4
<1>4. CASE Release(a)
  BY <1>1, <1>2, <1>4, DropStep DEF Release
<1>5. CASE QueryAsyncUnowned(a) \/ QueryAsyncNoThread(a)
  <2>1. /\ UNCHANGED <<holders, asked, outcome, fields, seen, fault, pc, op>>
        /\ \A r \in Requests : result'[r] = result[r]
    BY <1>1, <1>2, <1>5 DEF QueryAsyncUnowned, QueryAsyncNoThread, Return
  <2>2. LinkingIsAlone' /\ FieldsAgree' /\ StubStays'
    BY <2>1 DEF LinkingIsAlone, AtRest, FieldsAgree, StubStays, IsConnected
  <2>3. RequestsMeetTheirConnection' /\ QueryKeepsItsConnection'
    BY <2>1 DEF RequestsMeetTheirConnection, QueryKeepsItsConnection, IsConnected
  <2> QED BY <2>2, <2>3
<1>6. ASSUME NEW r \in Requests, QueryAsync(a, r) PROVE Disciplined'
  <2>1. /\ pc' = [pc EXCEPT ![r] = "lock"] /\ pc[r] = "unused"
        /\ \A q \in Requests : result'[q] = result[q]
        /\ asked' = [asked EXCEPT
                       ![r] = IF IsConnected THEN "connected" ELSE "disconnected"]
        /\ UNCHANGED <<holders, outcome, fields, op, seen, fault>>
        /\ \A b \in Apps : op[b] \notin LinkMethods
    BY <1>1, <1>6 DEF QueryAsync, MayCall
  <2>2. LinkingIsAlone' /\ FieldsAgree' /\ StubStays'
    BY <2>1 DEF LinkingIsAlone, FieldsAgree, StubStays, IsConnected
  <2>3. result[r] = "none" /\ outcome[r] = "unsent"
    BY <2>1 DEF RequestsKeepUp
  <2>4. RequestsMeetTheirConnection'
    BY <2>1 DEF RequestsMeetTheirConnection, IsConnected, TypeOK
  <2>5. QueryKeepsItsConnection'
    BY <2>1, <2>3 DEF QueryKeepsItsConnection, TypeOK
  <2> QED BY <2>2, <2>4, <2>5
<1> QED BY <1>3, <1>4, <1>5, <1>6

LEMMA IInvStep == Exclusive /\ IInv /\ [Next]_vars => IInv'
<1> SUFFICES ASSUME Exclusive, IInv, [Next]_vars PROVE Disciplined'
  BY ConsistentStep DEF IInv
<1>1. Consistent'
  BY ConsistentStep DEF IInv
<1>2. CASE UNCHANGED vars
  BY <1>2 DEF vars, fields, asyncVars, IInv, Disciplined, LinkingIsAlone,
              FieldsAgree, StubStays, RequestsMeetTheirConnection, AtRest,
              QueryKeepsItsConnection, IsConnected
<1>3. CASE Next
  BY <1>1, <1>3, LinkStep, BeginStep, WorkStep, CallStep DEF Next, Begin
<1> QED BY <1>2, <1>3

-----------------------------------------------------------------------------
\* Whatever the threads do to each other's connection, what the client, its
\* workers and their requests say of each other stays true.
THEOREM ConsistencyHolds == Spec => []Consistent
<1>1. Init => Consistent
  BY IInvInit DEF IInv
<1> QED BY <1>1, ConsistentStep, PTL DEF Spec

\* With connecting and disconnecting kept apart from the calls, the whole
\* invariant is inductive.
THEOREM InvariantHolds ==
  ASSUME Exclusive PROVE Spec => []IInv
<1>1. IInv /\ [Next]_vars => IInv'
  BY IInvStep
<1> QED BY IInvInit, <1>1, PTL DEF Spec

\* The client's fields, its threads and its requests keep their types, also in
\* an application that calls, connects and disconnects at once.
THEOREM TypeCorrect == Spec => []TypeOK
<1>1. Consistent => TypeOK
  BY DEF Consistent
<1> QED BY <1>1, ConsistencyHolds, PTL

\* The client is not destroyed under a thread inside one of its methods, in any
\* application.
THEOREM UsersKeepTheClient == Spec => []ClientOutlivesUse
<1>1. Consistent => ClientOutlivesUse
  BY DEF Consistent, PlacesMatch, UsersHold, ClientOutlivesUse, Inside, Linking,
         Unlinking, Calling, Actors
<1> QED BY <1>1, ConsistencyHolds, PTL

\* A request's status says how its call ended, whatever code gRPC gave it and
\* whatever became of the connection.
THEOREM StatusIsTrue == Spec => []StatusTellsOutcome
<1>1. Consistent => StatusTellsOutcome
  BY DEF Consistent
<1> QED BY <1>1, ConsistencyHolds, PTL

\* No call goes through a stub that was never made, or was reset under it.
THEOREM StubsAreLive ==
  ASSUME Exclusive PROVE Spec => []CallsUseLiveStub
<1>1. IInv => CallsUseLiveStub
  BY DEF IInv, Disciplined, StubStays, CallsUseLiveStub
<1> QED BY <1>1, InvariantHolds, PTL

\* Between connections the stub is one of the channel whose state is reported.
THEOREM ConnectionsAreUsable ==
  ASSUME Exclusive PROVE Spec => []ConnectedIsUsable
<1>1. IInv => ConnectedIsUsable
  BY DEF IInv, Consistent, Disciplined, PlacesMatch, FieldsAgree,
         ConnectedIsUsable, Linking, Unlinking, Calling, CallMethods
<1> QED BY <1>1, InvariantHolds, PTL

\* A query sees the connection it was asked on.
THEOREM QueriesKeepTheirConnection ==
  ASSUME Exclusive PROVE Spec => []QueryKeepsItsConnection
<1>1. IInv => QueryKeepsItsConnection
  BY DEF IInv, Disciplined
<1> QED BY <1>1, InvariantHolds, PTL

-----------------------------------------------------------------------------
(***************************************************************************)
(* What holds of the steps of any application, disciplined or not.         *)
(***************************************************************************)
\* The steps of Next, in the groups the lemmas below are about.
LEMMA Steps ==
  ASSUME Next
  PROVE  \/ \E a \in Apps : Connect(a) \/ Disconnect(a) \/ Continue(a)
         \/ \E a \in Apps : \/ Call(a) \/ Release(a)
                            \/ QueryAsyncUnowned(a) \/ QueryAsyncNoThread(a)
                            \/ \E r \in Requests : QueryAsync(a, r)
         \/ \E r \in Requests : Work(r)
         \/ \E x \in Actors : Perform(x) \/ RpcEnds(x) \/ RpcExpires(x)
  BY DEF Next, Begin

\* A request whose callback has run is done: nothing changes what it was told.
AnswersStay ==
  \A r \in Requests : callbacks[r] = 1 =>
    callbacks'[r] = 1 /\ result'[r] = result[r] /\ outcome'[r] = outcome[r]

\* The answer a callback was given is the request's last: it is not run again,
\* and no other thread, also none that meets the same client, alters its status.
THEOREM AnswersAreFinal == Spec => [][AnswersStay]_vars
<1>1. ASSUME Consistent, Next PROVE AnswersStay
  <2> SUFFICES ASSUME NEW r \in Requests, callbacks[r] = 1
               PROVE  /\ callbacks'[r] = 1 /\ result'[r] = result[r]
                      /\ outcome'[r] = outcome[r]
    BY DEF AnswersStay
  <2> USE <1>1 DEF Ownership, Setting, asyncVars, fields, At
  <2>1. r \in Actors /\ r \notin Apps /\ pc[r] \in {"drop", "finished"}
    BY ActorsAssumption DEF Actors, Consistent, RequestsKeepUp
  <2>2. ASSUME NEW a \in Apps, Connect(a) \/ Disconnect(a) \/ Continue(a)
        PROVE  /\ result'[r] = result[r] /\ UNCHANGED <<callbacks, outcome>>
    BY <2>2, LinkMoves
  <2>3. ASSUME NEW a \in Apps,
               \/ Call(a) \/ Release(a)
               \/ QueryAsyncUnowned(a) \/ QueryAsyncNoThread(a)
               \/ \E q \in Requests : QueryAsync(a, q)
        PROVE  /\ result'[r] = result[r] /\ UNCHANGED <<callbacks, outcome>>
    BY <2>1, <2>3, Types
    DEF Call, Enter, Release, DropReference, Goto, QueryAsyncUnowned,
        QueryAsyncNoThread, Return, QueryAsync
  <2>4. ASSUME NEW x \in Actors, Perform(x) \/ RpcEnds(x) \/ RpcExpires(x)
        PROVE  /\ result'[r] = result[r] /\ UNCHANGED callbacks
               /\ outcome'[r] = outcome[r]
    BY <2>1, <2>4, Types, CallMoves DEF Calling
  <2>5. ASSUME NEW q \in Requests, Work(q)
        PROVE  /\ result'[r] = result[r] /\ callbacks'[r] = callbacks[r]
               /\ UNCHANGED outcome
    BY <2>1, <2>5, Types
    DEF Work, Lock, Deliver, Drop, DropReference, Goto, Return
  <2> QED BY <1>1, <2>2, <2>3, <2>4, <2>5, Steps
<1>2. Consistent /\ [Next]_vars => [AnswersStay]_vars
  BY <1>1
<1> QED BY <1>2, ConsistencyHolds, PTL DEF Spec

\* A client nobody holds has given up its channel and its stub.
DestroyedIsReleased ==
  holders = {} => channel = 0 /\ stub = 0 /\ ~connected

\* And nothing brings it back: it is not held, connected or called again.
NothingAfterDestruction ==
  holders = {} => UNCHANGED <<holders, fields, outcome>>

LEMMA DestructionStep ==
  ASSUME Consistent, DestroyedIsReleased, Next
  PROVE  NothingAfterDestruction /\ DestroyedIsReleased'
<1> USE DEF Ownership, Setting, asyncVars, fields, At, DestroyedIsReleased,
            NothingAfterDestruction
<1>1. ASSUME NEW a \in Apps, Connect(a) \/ Disconnect(a) \/ Continue(a)
      PROVE  a \in holders /\ UNCHANGED holders
  BY <1>1, LinkMoves
  DEF Consistent, UsersHold, Linking, Unlinking
<1>2. ASSUME NEW a \in Apps,
             \/ Call(a) \/ QueryAsyncUnowned(a) \/ QueryAsyncNoThread(a)
             \/ \E q \in Requests : QueryAsync(a, q)
      PROVE  UNCHANGED <<holders, fields, outcome>>
  BY <1>2
  DEF Call, Enter, QueryAsyncUnowned, QueryAsyncNoThread, QueryAsync
<1>3. ASSUME NEW x \in Actors, Perform(x) \/ RpcEnds(x) \/ RpcExpires(x)
      PROVE  x \in holders /\ UNCHANGED <<holders, fields>>
  BY <1>3, CallMoves
  DEF Consistent, UsersHold, Calling, Actors
<1>4. ASSUME NEW x \in Actors, DropReference(x)
      PROVE  NothingAfterDestruction /\ DestroyedIsReleased'
  <2>1. holders' = holders \ {x} /\ UNCHANGED <<attempts, outcome>>
    BY <1>4 DEF DropReference
  <2>2. holders' = {} => channel' = 0 /\ stub' = 0 /\ connected' = FALSE
    BY <1>4 DEF DropReference
  <2>3. holders = {} => holders' = {}
    BY <2>1
  <2>4. holders = {} => channel = 0 /\ stub = 0 /\ connected = FALSE
    BY Types
  <2> QED BY <2>1, <2>2, <2>3, <2>4
<1>5. ASSUME NEW r \in Requests, Lock(r) \/ Deliver(r)
      PROVE  /\ holders = {} => UNCHANGED holders
             /\ holders' = {} => holders = {}
             /\ UNCHANGED <<fields, outcome>>
  BY <1>5 DEF Lock, Deliver
<1>6. ASSUME NEW a \in Apps, Release(a)
      PROVE  a \in Actors /\ DropReference(a)
  BY <1>6 DEF Release, Actors
<1>7. ASSUME NEW r \in Requests, Drop(r)
      PROVE  r \in Actors /\ DropReference(r)
  BY <1>7 DEF Drop, Actors
<1> QED BY <1>1, <1>2, <1>3, <1>4, <1>5, <1>6, <1>7, Steps DEF Work

\* The destructor, on whichever thread the last reference was dropped, leaves
\* no channel and no stub behind, also when the last user was a worker.
THEOREM DestructionReleases == Spec => []DestroyedIsReleased
<1>1. Init => DestroyedIsReleased
  BY DEF Init, DestroyedIsReleased
<1>2. Consistent /\ DestroyedIsReleased /\ [Next]_vars => DestroyedIsReleased'
  BY DestructionStep DEF vars, fields, DestroyedIsReleased
<1> QED BY <1>1, <1>2, ConsistencyHolds, PTL DEF Spec

\* Destruction is final: a worker that finds the client gone does not revive
\* it, and no call is made after it.
THEOREM DestructionIsFinal == Spec => [][NothingAfterDestruction]_vars
<1>1. Consistent /\ DestroyedIsReleased /\ [Next]_vars =>
        [NothingAfterDestruction]_vars
  BY DestructionStep
<1> QED BY <1>1, ConsistencyHolds, DestructionReleases, PTL DEF Spec

-----------------------------------------------------------------------------
(***************************************************************************)
(* The methods, and the workers, come to their end.                        *)
(***************************************************************************)
\* Whoever waits for an answer has a deadline, unless it is an application's
\* Subscribe; a Send or an Action waits for none.
WaitsHaveDeadlines ==
  \A x \in Actors : pc[x] = "wait" =>
    HasDeadline(op[x]) \/ (x \in Apps /\ op[x] = "subscribe")

\* The statements an actor has before it, a worker's callback included.
StatementsLeft(x) ==
  CASE pc[x] = "lock" -> 7
    [] pc[x] = "check" -> 6
    [] pc[x] \in {"load", "configure"} -> 5
    [] pc[x] \in {"invoke", "channel"} -> 4
    [] pc[x] \in {"wait", "stub", "reset_stub"} -> 3
    [] pc[x] \in {"deliver", "mark", "reset_channel"} -> 2
    [] pc[x] \in {"drop", "ready", "unmark"} -> 1
    [] OTHER -> 0

\* A step leaves an actor where it is, begins its method or its worker, or
\* takes it nearer its end.
ActorsRunOut ==
  \A x \in Actors :
    \/ pc'[x] = pc[x]
    \/ pc[x] \in {"idle", "unused"}
    \/ StatementsLeft(x)' < StatementsLeft(x)

\* Each statement is followed by a later one, or by the method's return.
LEMMA ActorsStep ==
  ASSUME Consistent, Next
  PROVE  ActorsRunOut
<1> USE DEF At, Goto, Return, Enter, HasDeadline
<1>1. pc \in [Actors -> Places] /\ Apps \subseteq Actors /\ Requests \subseteq Actors
  BY Types
<1>2. ASSUME NEW a \in Apps, Begin(a)
      PROVE  \E x \in Actors :
               pc' = [pc EXCEPT ![x] = pc'[x]] /\ pc[x] \in {"idle", "unused"}
  BY <1>1, <1>2
  DEF Begin, Connect, Disconnect, Call, Release, QueryAsyncUnowned,
      QueryAsyncNoThread, QueryAsync
<1>3. ASSUME NEW a \in Apps, Continue(a)
      PROVE  StatementsLeft(a)' < StatementsLeft(a)
             /\ pc' = [pc EXCEPT ![a] = pc'[a]]
  <2> USE <1>1 DEF StatementsLeft
  <2>1. CASE Configure(a)
    BY <2>1 DEF Configure
  <2>2. CASE CreateChannel(a) \/ ChannelFails(a)
    BY <2>2 DEF CreateChannel, ChannelFails
  <2>3. CASE CreateStub(a) \/ StubFails(a)
    BY <2>3 DEF CreateStub, StubFails
  <2>4. CASE MarkConnected(a)
    <3>1. /\ pc[a] = "mark" /\ pc'[a] = "ready"
          /\ pc' = [pc EXCEPT ![a] = pc'[a]]
      BY <2>4 DEF MarkConnected
    <3>2. StatementsLeft(a) = 2 /\ StatementsLeft(a)' = 1
      BY <3>1
    <3> QED BY <3>1, <3>2
  <2>5. CASE AwaitReady(a)
    BY <2>5 DEF AwaitReady
  <2>6. CASE ResetStub(a) \/ ResetChannel(a) \/ Unmark(a)
    BY <2>6 DEF ResetStub, ResetChannel, Unmark
  <2> QED BY <1>3, <2>1, <2>2, <2>3, <2>4, <2>5, <2>6 DEF Continue
<1>4. ASSUME NEW r \in Requests, Work(r)
      PROVE  StatementsLeft(r)' < StatementsLeft(r)
             /\ pc' = [pc EXCEPT ![r] = pc'[r]]
  <2> USE <1>1 DEF StatementsLeft
  <2>1. r \notin Apps
    BY ActorsAssumption
  <2>2. CASE Lock(r)
    BY <2>1, <2>2 DEF Lock
  <2>3. CASE Deliver(r)
    <3>1. /\ pc[r] = "deliver" /\ pc'[r] = "drop"
          /\ pc' = [pc EXCEPT ![r] = pc'[r]]
      BY <2>3 DEF Deliver
    <3>2. StatementsLeft(r) = 2 /\ StatementsLeft(r)' = 1
      BY <3>1
    <3> QED BY <3>1, <3>2
  <2>4. CASE Drop(r)
    <3>1. /\ pc[r] = "drop" /\ pc'[r] = "finished"
          /\ pc' = [pc EXCEPT ![r] = pc'[r]]
      BY <2>4 DEF Drop
    <3>2. StatementsLeft(r) = 1 /\ StatementsLeft(r)' = 0
      BY <3>1
    <3> QED BY <3>1, <3>2
  <2> QED BY <1>4, <2>2, <2>3, <2>4 DEF Work
<1>5. ASSUME NEW x \in Actors, Perform(x) \/ RpcEnds(x) \/ RpcExpires(x)
      PROVE  StatementsLeft(x)' < StatementsLeft(x)
             /\ pc' = [pc EXCEPT ![x] = pc'[x]]
  <2> USE <1>1 DEF StatementsLeft
  <2>1. CASE Check(x)
    BY <2>1 DEF Check
  <2>2. CASE LoadStub(x)
    BY <2>2 DEF LoadStub
  <2>3. CASE Invoke(x)
    BY <2>3 DEF Invoke
  <2>4. CASE RpcEnds(x)
    BY <2>4 DEF RpcEnds
  <2>5. CASE RpcExpires(x)
    BY <2>5 DEF RpcExpires
  <2> QED BY <1>5, <2>1, <2>2, <2>3, <2>4, <2>5 DEF Perform
<1>6. ASSUME NEW x \in Actors, pc' = [pc EXCEPT ![x] = pc'[x]],
             pc[x] \in {"idle", "unused"}
               \/ StatementsLeft(x)' < StatementsLeft(x)
      PROVE  ActorsRunOut
  BY <1>1, <1>6 DEF ActorsRunOut
<1> QED BY <1>1, <1>2, <1>3, <1>4, <1>5, <1>6 DEF Next

\* A call that waits was sent with the deadline of its method.
LEMMA DeadlinesInit == Init => WaitsHaveDeadlines
  BY DEF Init, WaitsHaveDeadlines, Actors

LEMMA DeadlinesStep ==
  ASSUME Consistent, WaitsHaveDeadlines, Next
  PROVE  WaitsHaveDeadlines'
<1> USE DEF At, Goto, Return, Enter, HasDeadline, WaitsHaveDeadlines
<1>1. pc \in [Actors -> Places] /\ op \in [Actors -> Methods]
      /\ Apps \subseteq Actors /\ Requests \subseteq Actors
  BY Types
<1>2. ASSUME NEW a \in Apps, Begin(a) PROVE WaitsHaveDeadlines'
  BY <1>1, <1>2
  DEF Begin, Connect, Disconnect, Call, Release, QueryAsyncUnowned,
      QueryAsyncNoThread, QueryAsync, Ownership, Setting
<1>3. ASSUME NEW a \in Apps, Continue(a) PROVE WaitsHaveDeadlines'
  BY <1>1, <1>3
  DEF Continue, Configure, CreateChannel, ChannelFails, CreateStub, StubFails,
      MarkConnected, AwaitReady, ResetStub, ResetChannel, Unmark
<1>4. ASSUME NEW r \in Requests, Work(r) PROVE WaitsHaveDeadlines'
  BY <1>1, <1>4 DEF Work, Lock, Deliver, Drop
<1>5. ASSUME NEW x \in Actors, Perform(x) \/ RpcEnds(x) \/ RpcExpires(x)
      PROVE  WaitsHaveDeadlines'
  <2>1. x \in Requests => op[x] = "query"
    BY DEF Consistent, PlacesMatch
  <2>2. pc[x] \in Calling /\ x \in Apps => op[x] \in CallMethods
    BY DEF Consistent, PlacesMatch, Linking, Unlinking, Calling
  <2>3. CASE Invoke(x)
    BY <1>1, <2>1, <2>2, <2>3 DEF Invoke, Calling, CallMethods, Actors
  <2>4. CASE ~Invoke(x)
    BY <1>1, <1>5, <2>4
    DEF Perform, Check, LoadStub, RpcEnds, RpcExpires
  <2> QED BY <2>3, <2>4
<1> QED BY <1>2, <1>3, <1>4, <1>5 DEF Next

\* Whatever the threads do at the same time: every method and every worker has
\* at most seven statements before it, no other thread sends it back, and where
\* it waits for the SDK server a deadline ends the wait, an application's
\* Subscribe excepted.
THEOREM MethodsRunOut == Spec => []WaitsHaveDeadlines /\ [][ActorsRunOut]_vars
<1>1. Consistent /\ [Next]_vars => [ActorsRunOut]_vars
  BY ActorsStep
<1>2. Consistent /\ WaitsHaveDeadlines /\ [Next]_vars => WaitsHaveDeadlines'
  BY DeadlinesStep DEF vars, WaitsHaveDeadlines
<1> QED BY <1>1, <1>2, DeadlinesInit, ConsistencyHolds, PTL DEF Spec

-----------------------------------------------------------------------------
(***************************************************************************)
(* InterfacesClient implements AsyncQuery.                                 *)
(***************************************************************************)
\* Only these changes of a request are seen in AsyncQuery.
LEMMA Unseen ==
  ASSUME NEW r \in Requests, UNCHANGED callbacks[r],
         UNCHANGED (pc[r] = "unused"), UNCHANGED (r \in holders),
         callbacks[r] # 1 \/ UNCHANGED result[r]
  PROVE  UNCHANGED <<Progress(r), Told(r)>>
  BY DEF Progress, Told

\* A client destroyed, or not, by a step that no request sees.
LEMMA HoldersRefine ==
  ASSUME \A r \in Requests : UNCHANGED <<Progress(r), Told(r)>>,
         holders' \subseteq holders
  PROVE  [Query!Next]_(Query!vars)
<1> DEFINE Seen ==
      <<[r \in Requests |-> Progress(r)], [r \in Requests |-> Told(r)]>>
<1>1. UNCHANGED Seen
  OBVIOUS
<1>2. CASE UNCHANGED Life
  BY <1>1, <1>2 DEF Query!vars
<1>3. CASE ~UNCHANGED Life
  <2>1. Life = "alive" /\ Life' = "destroyed" /\ holders' = {}
    BY <1>3 DEF Life
  <2>2. \A r \in Requests : Progress(r)' # "begun"
    BY <2>1 DEF Progress
  <2> QED BY <1>1, <2>1, <2>2 DEF Query!Next, Query!Destroy
<1> QED BY <1>2, <1>3

LEMMA AppRefines ==
  ASSUME Consistent, NEW a \in Apps, Begin(a) \/ Continue(a)
  PROVE  [Query!Next]_(Query!vars)
<1> USE DEF Ownership, Setting, asyncVars, fields, At
<1>1. /\ a \in Actors /\ a \notin Requests /\ Requests \subseteq Actors
      /\ pc \in [Actors -> Places] /\ result \in [Actors -> Results]
  BY DEF Consistent, TypeOK, Actors
<1>2. CASE \A r \in Requests : ~QueryAsync(a, r)
  <2>1. UNCHANGED callbacks /\ holders' \in {holders, holders \ {a}}
    BY <1>2 DEF Begin, Continue, Connect, Disconnect, Call, Enter, Release,
         DropReference, QueryAsyncUnowned, QueryAsyncNoThread, Configure,
         CreateChannel, ChannelFails, CreateStub, StubFails, MarkConnected,
         AwaitReady, ResetStub, ResetChannel, Unmark
  <2>2. \A r \in Requests : UNCHANGED <<pc[r], result[r]>>
    BY <1>1, <1>2 DEF Begin, Continue, Connect, Disconnect, Call, Enter, Release,
         QueryAsyncUnowned, QueryAsyncNoThread, Configure, CreateChannel,
         ChannelFails, CreateStub, StubFails, MarkConnected, AwaitReady,
         ResetStub, ResetChannel, Unmark, Goto, Return
  <2>3. \A r \in Requests : UNCHANGED <<Progress(r), Told(r)>>
    BY <1>1, <2>1, <2>2, Unseen
  <2> QED BY <2>1, <2>3, HoldersRefine
<1>3. ASSUME NEW r \in Requests, QueryAsync(a, r)
      PROVE  Query!Ask(r)
  <2>1. pc' = [pc EXCEPT ![r] = "lock"] /\ pc[r] = "unused"
        /\ result' = [result EXCEPT ![a] = "success"]
        /\ UNCHANGED <<holders, callbacks>>
    BY <1>3 DEF QueryAsync
  <2>2. \A q \in Requests \ {r} : UNCHANGED <<Progress(q), Told(q)>>
    BY <1>1, <2>1, Unseen
  <2>3. Progress(r) = "new" /\ Progress(r)' = "asked" /\ UNCHANGED Told(r)
    BY <1>1, <2>1 DEF Progress, Told, Consistent, RequestsKeepUp, UsersHold, Calling
  <2>4. Life = "alive" /\ UNCHANGED Life
    BY <1>3, <2>1 DEF QueryAsync, Consistent, UsersHold, Life
  <2> QED BY <2>2, <2>3, <2>4 DEF Query!Ask
<1> QED BY <1>2, <1>3 DEF Query!Next

LEMMA CallRefines ==
  ASSUME Consistent, NEW x \in Actors, Perform(x) \/ RpcEnds(x) \/ RpcExpires(x)
  PROVE  [Query!Next]_(Query!vars)
<1> USE DEF Ownership, Setting, asyncVars, fields, At
<1>1. /\ UNCHANGED <<callbacks, holders>>
      /\ \A r \in Requests \ {x} : UNCHANGED <<pc[r], result[r]>>
      /\ pc[x] \in Calling /\ pc'[x] # "unused"
  BY Types, CallMoves
<1>2. x \in Requests => callbacks[x] # 1
  BY <1>1 DEF Consistent, RequestsKeepUp, Calling
<1>3. \A r \in Requests : UNCHANGED <<Progress(r), Told(r)>>
  BY <1>1, <1>2, Unseen DEF Calling
<1> QED BY <1>1, <1>3, HoldersRefine

LEMMA WorkRefines ==
  ASSUME Consistent, NEW r \in Requests, Work(r)
  PROVE  [Query!Next]_(Query!vars)
<1> USE DEF Setting, asyncVars, fields, At
<1>1. /\ r \in Actors /\ Requests \subseteq Actors
      /\ pc \in [Actors -> Places] /\ result \in [Actors -> Results]
      /\ callbacks \in [Requests -> 0 .. 1]
  BY DEF Consistent, TypeOK, Actors
<1>2. CASE Lock(r) /\ holders = {}
  <2>1. pc[r] = "lock" /\ pc' = [pc EXCEPT ![r] = pc'[r]] /\ pc'[r] # "unused"
        /\ UNCHANGED <<holders, callbacks>>
        /\ \A q \in Requests \ {r} : UNCHANGED result[q]
    BY <1>1, <1>2 DEF Lock, Return
  <2>2. callbacks[r] # 1
    BY <2>1 DEF Consistent, RequestsKeepUp
  <2>3. \A q \in Requests : UNCHANGED <<Progress(q), Told(q)>>
    BY <1>1, <2>1, <2>2, Unseen
  <2> QED BY <2>1, <2>3, HoldersRefine
<1>3. CASE Lock(r) /\ holders # {}
  <2>1. pc[r] = "lock" /\ pc' = [pc EXCEPT ![r] = "check"]
        /\ holders' = holders \cup {r} /\ UNCHANGED <<callbacks, result>>
    BY <1>3 DEF Lock, Goto
  <2>2. \A q \in Requests \ {r} : UNCHANGED <<Progress(q), Told(q)>>
    BY <1>1, <2>1, Unseen
  <2>3. Progress(r) = "asked" /\ Progress(r)' = "begun" /\ UNCHANGED Told(r)
    BY <1>1, <2>1 DEF Progress, Told, Consistent, RequestsKeepUp, UsersHold, Calling
  <2>4. Life = "alive" /\ UNCHANGED Life
    BY <1>3, <2>1 DEF Life
  <2>5. Query!Begin(r)
    BY <2>2, <2>3, <2>4 DEF Query!Begin
  <2> QED BY <2>5 DEF Query!Next, Query!Resolve
<1>4. CASE Deliver(r)
  <2>1. pc[r] = "deliver" /\ pc' = [pc EXCEPT ![r] = "drop"]
        /\ callbacks[r] = 0 /\ callbacks' = [callbacks EXCEPT ![r] = 1]
        /\ UNCHANGED <<holders, result>>
    <3>1. callbacks[r] = 0
      BY <1>4 DEF Deliver, Consistent, RequestsKeepUp
    <3>2. callbacks' = [callbacks EXCEPT ![r] = 1]
      BY <1>4, <3>1 DEF Deliver
    <3> QED BY <1>4, <3>1, <3>2 DEF Deliver, Goto
  <2>2. \A q \in Requests \ {r} : UNCHANGED <<Progress(q), Told(q)>>
    BY <1>1, <2>1, Unseen
  <2>3. /\ Progress(r) = IF r \in holders THEN "begun" ELSE "asked"
        /\ Progress(r)' = "answered"
        /\ Told(r)' = result[r] /\ result[r] \in StatusCodes
    BY <1>1, <2>1 DEF Progress, Told, Consistent, RequestsKeepUp
  <2>4. Query!Tell(r, result[r])
    BY <2>1, <2>2, <2>3 DEF Query!Tell, Life
  <2>5. CASE r \in holders
    BY <2>3, <2>4, <2>5 DEF Query!Answer, Query!Next, Query!Resolve
  <2>6. CASE r \notin holders
    <3>1. result[r] = "operation_canceled" /\ Life = "destroyed"
      BY <2>1, <2>6 DEF Consistent, UsersHold, Life
    <3> QED BY <2>3, <2>4, <2>6, <3>1 DEF Query!Cancel, Query!Next, Query!Resolve
  <2> QED BY <2>5, <2>6
<1>5. CASE Drop(r)
  <2>1. pc[r] = "drop" /\ pc' = [pc EXCEPT ![r] = "finished"]
        /\ holders' = holders \ {r} /\ UNCHANGED <<callbacks, result>>
    BY <1>5 DEF Drop, DropReference, Goto
  <2>2. \A q \in Requests \ {r} : UNCHANGED <<Progress(q), Told(q)>>
    BY <1>1, <2>1, Unseen
  <2>3. UNCHANGED <<Progress(r), Told(r)>>
    BY <1>1, <2>1 DEF Progress, Told, Consistent, RequestsKeepUp
  <2> QED BY <2>1, <2>2, <2>3, HoldersRefine
<1> QED BY <1>2, <1>3, <1>4, <1>5 DEF Work

\* QueryAsync is what AsyncQuery promises, its liveness aside: an accepted query
\* is answered once at most, one that has begun keeps the client alive until
\* then, and only one that finds the client destroyed goes without a call. It
\* needs no discipline of the application.
THEOREM Implementation == Spec => Query!Safety
<1>1. Init => Query!Init
  <2> SUFFICES ASSUME Init PROVE Query!Init
    OBVIOUS
  <2>1. \A r \in Requests : Progress(r) = "new" /\ Told(r) = "none"
    BY DEF Init, Progress, Told, Actors
  <2>2. Life = "alive"
    BY DEF Init, Life
  <2> QED BY <2>1, <2>2 DEF Query!Init
<1>2. Consistent /\ [Next]_vars => [Query!Next]_(Query!vars)
  <2> SUFFICES ASSUME Consistent, [Next]_vars
               PROVE  [Query!Next]_(Query!vars)
    OBVIOUS
  <2>1. CASE UNCHANGED vars
    BY <2>1 DEF vars, asyncVars, Query!vars, Life, Progress, Told
  <2>2. CASE Next
    BY <2>2, AppRefines, WorkRefines, CallRefines DEF Next
  <2> QED BY <2>1, <2>2
<1> QED BY <1>1, <1>2, ConsistencyHolds, PTL DEF Spec, Query!Safety
=============================================================================
