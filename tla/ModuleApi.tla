------------------------------ MODULE ModuleApi ------------------------------
(***************************************************************************)
(* One request of navigation_api, control_api or perception_api: build the *)
(* message, open a Send stream on the shared client, write, read one       *)
(* answer, parse it, finish (source/robot/modules/*.cpp).                  *)
(*                                                                         *)
(* The thirteen functions differ in the order of parsing and finishing and *)
(* in what each failure returns; they fall into the three profiles below.  *)
(*                                                                         *)
(* The SDK server and the network are external: a message written may be   *)
(* lost, handled late - even after the caller gave up - or rejected, an    *)
(* answer may be lost, and the stream ends at its deadline at the latest.  *)
(* Payloads are abstracted to what the code tells apart; the timeouts are  *)
(* the event StreamEnds.                                                   *)
(***************************************************************************)
EXTENDS Integers

CONSTANTS
  Functions,   \* the API functions called
  MaxCalls     \* bound: calls of a behaviour, made one after another

\* NavigationRequestTemplate is behind the seven navigation calls.
NavigationCalls ==
  {"GetCurrentPose", "GetGridMap2D", "NavigationTo",
   "GetRemainingPathDistance", "CancelNavigationTask", "StartChargingTask",
   "StopChargingTask"}

CheckedCalls == {"EmergencyStop", "Detection"}

PlainCalls == {"GetJointInfo", "JointMotion", "Division", "Perception"}

ASSUME FunctionsAssumption ==
  Functions \subseteq NavigationCalls \cup CheckedCalls \cup PlainCalls
ASSUME MaxCallsAssumption == MaxCalls \in Nat

CallIds == 1 .. MaxCalls

Codes == {"success", "failure", "invalid", "out_of_range"}

Answers == [code : Codes, data : {"absent", "good", "garbage"}]

NoAnswer == [code |-> "none", data |-> "absent"]

Statuses == {"SUCCESS", "FAILURE", "DATA_GET_FAILED", "PARSE_FAILED",
             "UNKNOWN_SERVICE"}

VARIABLES
  pc, api,      \* each call's next step and function
  keys,         \* the fields of send_req: command_id, data
  stream,       \* none, open, ended
  resp,         \* send_resp
  status,       \* res_status
  out,          \* the caller's result object: untouched, fresh, garbled
  wire,         \* messages written that the server has not handled
  handled,      \* the server's handler: none, executed, rejected
  answer,       \* the answer on its way back
  executions    \* times the robot executed the command

clientVars == <<pc, api, keys, stream, resp, status, out>>
serverVars == <<wire, handled, answer, executions>>
vars == <<clientVars, serverVars>>

TypeOK ==
  /\ pc \in [CallIds -> {"unused", "build", "open", "write", "read", "parse",
                         "finish", "done"}]
  /\ api \in [CallIds -> Functions \cup {"none"}]
  /\ keys \in [CallIds -> SUBSET {"command_id", "data"}]
  /\ stream \in [CallIds -> {"none", "open", "ended"}]
  /\ resp \in [CallIds -> Answers \cup {NoAnswer}]
  /\ status \in [CallIds -> Statuses]
  /\ out \in [CallIds -> {"untouched", "fresh", "garbled"}]
  /\ wire \in [CallIds -> Nat]
  /\ handled \in [CallIds -> {"none", "executed", "rejected"}]
  /\ answer \in [CallIds -> Answers \cup {NoAnswer}]
  /\ executions \in [CallIds -> Nat]

Init ==
  /\ pc = [k \in CallIds |-> "unused"]
  /\ api = [k \in CallIds |-> "none"]
  /\ keys = [k \in CallIds |-> {}]
  /\ stream = [k \in CallIds |-> "none"]
  /\ resp = [k \in CallIds |-> NoAnswer]
  /\ status = [k \in CallIds |-> "DATA_GET_FAILED"]
  /\ out = [k \in CallIds |-> "untouched"]
  /\ wire = [k \in CallIds |-> 0]
  /\ handled = [k \in CallIds |-> "none"]
  /\ answer = [k \in CallIds |-> NoAnswer]
  /\ executions = [k \in CallIds |-> 0]

-----------------------------------------------------------------------------
Navigation(k) == api[k] \in NavigationCalls

Goto(k, label) == pc' = [pc EXCEPT ![k] = label]

\* Returning destroys stream and context, which cancels an open call.
Return(k, value) ==
  /\ Goto(k, "done")
  /\ status' = [status EXCEPT ![k] = value]
  /\ stream' = [stream EXCEPT ![k] = IF @ = "open" THEN "ended" ELSE @]

\* The application makes its calls one after another.
Begin(k) ==
  /\ pc[k] = "unused"
  /\ \A j \in CallIds : j < k => pc[j] = "done"
  /\ \E f \in Functions : api' = [api EXCEPT ![k] = f]
  /\ Goto(k, "build")
  /\ UNCHANGED <<keys, stream, resp, status, out, serverVars>>

(***************************************************************************)
(* Building the request: command_id first, then the serialized data.       *)
(***************************************************************************)
SerializeSucceeds(k) ==
  /\ pc[k] = "build"
  /\ keys' = [keys EXCEPT ![k] = {"command_id", "data"}]
  /\ Goto(k, "open")
  /\ UNCHANGED <<api, stream, resp, status, out, serverVars>>

\* Fault: a failed serialization is not checked.
SerializeUnchecked(k) ==
  /\ pc[k] = "build"
  /\ keys' = [keys EXCEPT ![k] = {"command_id"}]
  /\ Goto(k, "open")
  /\ UNCHANGED <<api, stream, resp, status, out, serverVars>>

SerializeFails(k) ==
  /\ pc[k] = "build"
  /\ keys' = [keys EXCEPT ![k] = {"command_id"}]
  /\ Return(k, "PARSE_FAILED")
  /\ UNCHANGED <<api, resp, out, serverVars>>

\* BuildSendRequest hands back what it had built, and the template stops only
\* when that request is empty.
NavSerializeFails(k) ==
  /\ pc[k] = "build"
  /\ keys' = [keys EXCEPT ![k] = {"command_id"}]
  /\ IF keys'[k] = {}
     THEN Return(k, "PARSE_FAILED")
     ELSE Goto(k, "open") /\ UNCHANGED <<status, stream>>
  /\ UNCHANGED <<api, resp, out, serverVars>>

(***************************************************************************)
(* The stream.                                                             *)
(***************************************************************************)
\* InterfacesClient::Send succeeds, or the client is not connected.
OpenStream(k) ==
  /\ pc[k] = "open"
  /\ stream' = [stream EXCEPT ![k] = "open"]
  /\ Goto(k, "write")
  /\ UNCHANGED <<api, keys, resp, status, out, serverVars>>

OpenFails(k) ==
  /\ pc[k] = "open"
  /\ Return(k, status[k])
  /\ UNCHANGED <<api, keys, resp, out, serverVars>>

Write(k) ==
  /\ pc[k] = "write" /\ stream[k] = "open"
  /\ wire' = [wire EXCEPT ![k] = @ + 1]
  /\ Goto(k, "read")
  /\ UNCHANGED <<api, keys, stream, resp, status, out, handled, answer,
                 executions>>

\* Write returns false on a stream that has ended: WritesDone, Finish, return.
WriteFails(k) ==
  /\ pc[k] = "write" /\ stream[k] = "ended"
  /\ Goto(k, "finish")
  /\ UNCHANGED <<api, keys, stream, resp, status, out, serverVars>>

\* The navigation template finishes the stream before it parses.
Read(k) ==
  /\ pc[k] = "read" /\ answer[k] # NoAnswer
  /\ resp' = [resp EXCEPT ![k] = answer[k]]
  /\ answer' = [answer EXCEPT ![k] = NoAnswer]
  /\ Goto(k, IF Navigation(k) THEN "finish" ELSE "parse")
  /\ UNCHANGED <<api, keys, stream, status, out, wire, handled, executions>>

\* Fault: a request that may have been executed, but was not answered, is
\* written once more on a new stream.
ReadRetries(k) ==
  /\ pc[k] = "read" /\ answer[k] = NoAnswer /\ stream[k] = "ended"
  /\ \/ /\ wire[k] + executions[k] = 1
        /\ stream' = [stream EXCEPT ![k] = "open"]
        /\ Goto(k, "write") /\ UNCHANGED status
     \/ /\ wire[k] + executions[k] # 1
        /\ Return(k, status[k])
  /\ UNCHANGED <<api, keys, resp, out, serverVars>>

\* Read returns false when the stream ends without a message; only the
\* template calls Finish then.
ReadFails(k) ==
  /\ pc[k] = "read" /\ answer[k] = NoAnswer /\ stream[k] = "ended"
  /\ IF Navigation(k)
     THEN Goto(k, "finish") /\ UNCHANGED <<status, stream>>
     ELSE Return(k, status[k])
  /\ UNCHANGED <<api, keys, resp, out, serverVars>>

\* Fault: Finish waits for the server instead of the deadline.
FinishWaitsForServer(k) ==
  /\ pc[k] = "finish" /\ stream[k] = "ended" /\ wire[k] = 0
  /\ IF Navigation(k) /\ resp[k] # NoAnswer
     THEN Goto(k, "parse") /\ UNCHANGED <<status, stream>>
     ELSE Return(k, status[k])
  /\ UNCHANGED <<api, keys, resp, out, serverVars>>

\* WritesDone and Finish: Finish blocks until the call has a final status,
\* which nothing looks at.
Finish(k) ==
  /\ pc[k] = "finish" /\ stream[k] = "ended"
  /\ IF Navigation(k) /\ resp[k] # NoAnswer
     THEN Goto(k, "parse") /\ UNCHANGED <<status, stream>>
     ELSE Return(k, status[k])
  /\ UNCHANGED <<api, keys, resp, out, serverVars>>

-----------------------------------------------------------------------------
(***************************************************************************)
(* Parsing.  The code is a string that std::stoi converts, or rejects with *)
(* an exception; an object ParseFromString fails on is left half written.  *)
(***************************************************************************)
\* Fault: the code itself is handed back as the status.
CodeStatusUnconverted(code) == code

CodeStatus(code) == IF code = "success" THEN "SUCCESS" ELSE "FAILURE"

Throws(code) == code \in {"invalid", "out_of_range"}

ParseData(k) ==
  out' = [out EXCEPT ![k] = IF resp[k].data = "good" THEN "fresh"
                            ELSE "garbled"]

\* Fault: data is parsed whatever the code says.
NavParseAlways(k) ==
  /\ pc[k] = "parse"
  /\ ParseData(k)
  /\ IF Throws(resp[k].code) THEN Return(k, status[k])
                             ELSE Return(k, CodeStatus(resp[k].code))
  /\ UNCHANGED <<api, keys, resp, serverVars>>

NavParse(k) ==
  /\ pc[k] = "parse"
  /\ CASE Throws(resp[k].code) ->
            Return(k, status[k]) /\ UNCHANGED out
       [] CodeStatus(resp[k].code) # "SUCCESS" /\ ~Throws(resp[k].code) ->
            Return(k, "FAILURE") /\ UNCHANGED out
       [] resp[k].code = "success" /\ resp[k].data = "absent" ->
            Return(k, "DATA_GET_FAILED") /\ UNCHANGED out
       [] OTHER ->
            /\ ParseData(k)
            /\ Return(k, IF resp[k].data = "good" THEN "SUCCESS"
                         ELSE "PARSE_FAILED")
  /\ UNCHANGED <<api, keys, resp, serverVars>>

\* EmergencyStop and Detection: an unusable code, a missing field and
\* unparsable data return at once, without Finish.
CheckedParse(k) ==
  /\ pc[k] = "parse"
  /\ CASE Throws(resp[k].code) ->
            Return(k, "UNKNOWN_SERVICE") /\ UNCHANGED out
       [] ~Throws(resp[k].code) /\ resp[k].data = "absent" ->
            Return(k, CodeStatus(resp[k].code)) /\ UNCHANGED out
       [] ~Throws(resp[k].code) /\ resp[k].data = "garbage" ->
            Return(k, "PARSE_FAILED") /\ ParseData(k)
       [] OTHER ->
            /\ ParseData(k)
            /\ Goto(k, "finish")
            /\ status' = [status EXCEPT ![k] = CodeStatus(resp[k].code)]
            /\ UNCHANGED stream
  /\ UNCHANGED <<api, keys, resp, serverVars>>

\* Fault: whether the data could be parsed is not looked at.
PlainParseUnchecked(k) ==
  /\ pc[k] = "parse"
  /\ IF Throws(resp[k].code)
     THEN Return(k, status[k]) /\ UNCHANGED out
     ELSE /\ ParseData(k)
          /\ Goto(k, "finish")
          /\ status' = [status EXCEPT ![k] = CodeStatus(resp[k].code)]
          /\ UNCHANGED stream
  /\ UNCHANGED <<api, keys, resp, serverVars>>

\* The others: the exception of an unusable code leaves the initial status,
\* and a missing field is no error.
PlainParse(k) ==
  /\ pc[k] = "parse"
  /\ CASE Throws(resp[k].code) ->
            Return(k, status[k]) /\ UNCHANGED out
       [] ~Throws(resp[k].code) /\ resp[k].data = "garbage" ->
            Return(k, "PARSE_FAILED") /\ ParseData(k)
       [] OTHER ->
            /\ IF resp[k].data = "good" THEN ParseData(k) ELSE UNCHANGED out
            /\ Goto(k, "finish")
            /\ status' = [status EXCEPT ![k] = CodeStatus(resp[k].code)]
            /\ UNCHANGED stream
  /\ UNCHANGED <<api, keys, resp, serverVars>>

-----------------------------------------------------------------------------
(***************************************************************************)
(* External: the SDK server and the network.                               *)
(***************************************************************************)
\* A success code is answered only by a handler that executed the command.
AnswersFor(outcome) ==
  {a \in Answers : outcome = "rejected" => a.code # "success"}

ServerHandles(k) ==
  /\ wire[k] > 0 /\ handled[k] = "none"
  /\ wire' = [wire EXCEPT ![k] = @ - 1]
  /\ \/ /\ handled' = [handled EXCEPT ![k] = "executed"]
        /\ executions' = [executions EXCEPT ![k] = @ + 1]
     \/ /\ handled' = [handled EXCEPT ![k] = "rejected"]
        /\ UNCHANGED executions
  /\ UNCHANGED <<clientVars, answer>>

ServerAnswers(k) ==
  /\ handled[k] # "none" /\ stream[k] = "open" /\ answer[k] = NoAnswer
  /\ resp[k] = NoAnswer
  /\ answer' \in {[answer EXCEPT ![k] = a] : a \in AnswersFor(handled[k])}
  /\ handled' = [handled EXCEPT ![k] = "none"]
  /\ UNCHANGED <<clientVars, wire, executions>>

\* The stream ends - closed by the server, broken or past its deadline - and
\* what was on its way to the client may be lost.
StreamEnds(k) ==
  /\ stream[k] = "open"
  /\ stream' = [stream EXCEPT ![k] = "ended"]
  /\ \/ UNCHANGED answer
     \/ answer[k] # NoAnswer /\ answer' = [answer EXCEPT ![k] = NoAnswer]
  /\ UNCHANGED <<pc, api, keys, resp, status, out, wire, handled, executions>>

MessageLost(k) ==
  /\ wire[k] > 0 /\ stream[k] = "ended"
  /\ wire' = [wire EXCEPT ![k] = @ - 1]
  /\ UNCHANGED <<clientVars, handled, answer, executions>>

-----------------------------------------------------------------------------
(***************************************************************************)
(* The functions.  Control and perception repeat their profile's code, each *)
(* with its own command and message types.                                 *)
(***************************************************************************)
Exchange(k) ==
  \/ SerializeSucceeds(k) \/ OpenStream(k) \/ OpenFails(k)
  \/ Write(k) \/ WriteFails(k) \/ Read(k) \/ ReadFails(k) \/ Finish(k)

NavigationRequestTemplate(k) ==
  Navigation(k) /\ (Exchange(k) \/ NavSerializeFails(k) \/ NavParse(k))

CheckedCall(k, function) ==
  api[k] = function /\ (Exchange(k) \/ SerializeFails(k) \/ CheckedParse(k))

PlainCall(k, function) ==
  api[k] = function /\ (Exchange(k) \/ SerializeFails(k) \/ PlainParse(k))

EmergencyStop(k) == CheckedCall(k, "EmergencyStop")

Detection(k) == CheckedCall(k, "Detection")

GetJointInfo(k) == PlainCall(k, "GetJointInfo")

JointMotion(k) == PlainCall(k, "JointMotion")

Division(k) == PlainCall(k, "Division")

Perception(k) == PlainCall(k, "Perception")

Client(k) ==
  \/ NavigationRequestTemplate(k)
  \/ EmergencyStop(k) \/ GetJointInfo(k) \/ JointMotion(k)
  \/ Detection(k) \/ Division(k) \/ Perception(k)

Environment(k) ==
  \/ ServerHandles(k) \/ ServerAnswers(k) \/ StreamEnds(k) \/ MessageLost(k)

Next == \E k \in CallIds : Begin(k) \/ Client(k) \/ Environment(k)

Spec == Init /\ [][Next]_vars

(***************************************************************************)
(* The calling thread runs, and every stream ends by its deadline (Send    *)
(* sets one).  Nothing is assumed of the server.                           *)
(***************************************************************************)
FairSpec ==
  Spec /\ \A k \in CallIds : WF_vars(Client(k)) /\ WF_vars(StreamEnds(k))

-----------------------------------------------------------------------------
Returned(k) == pc[k] = "done"

\* A call that reports success had its command executed, exactly once: the
\* SDK never writes a request twice, whatever was lost.
SuccessWasExecutedOnce ==
  \A k \in CallIds :
    Returned(k) /\ status[k] = "SUCCESS" => executions[k] = 1

\* No call makes the robot execute its command twice, in any outcome.
AtMostOneExecution == \A k \in CallIds : executions[k] + wire[k] <= 1

\* A navigation call that reports success filled its result with this call's
\* answer; any other status but PARSE_FAILED left the result untouched.
NavResultMatchesStatus ==
  \A k \in CallIds : Returned(k) /\ Navigation(k) =>
    /\ status[k] = "SUCCESS" <=> out[k] = "fresh"
    /\ status[k] # "SUCCESS" /\ status[k] # "PARSE_FAILED" =>
         out[k] = "untouched"

\* What the other calls say of their result: an object left half written is
\* reported, whichever step failed, and after SUCCESS the object holds this
\* call's answer unless the answer carried no data (they report no error then).
ResultMatchesAnswer ==
  \A k \in CallIds : Returned(k) /\ ~Navigation(k) =>
    /\ out[k] = "garbled" => status[k] = "PARSE_FAILED"
    /\ status[k] = "SUCCESS" =>
         (resp[k].data # "absent" <=> out[k] = "fresh")

\* No command reaches the server without its data (navigation_api.cpp:133 and
\* 242: a failed serialization gives an empty request, which is not sent).
IncompleteNeverSent ==
  \A k \in CallIds :
    wire[k] > 0 \/ executions[k] > 0 => "data" \in keys[k]

\* Of the control and perception calls this holds: a command the robot
\* executes or may still execute came with its data, whatever failed.
ControlCommandsAreComplete ==
  \A k \in CallIds : ~Navigation(k) /\ executions[k] + wire[k] > 0 =>
    "data" \in keys[k]

\* After a call has reported success its command is not executed any more:
\* what the application calls next really comes next.
NoExecutionAfterSuccess ==
  [][\A k \in CallIds : Returned(k) /\ status[k] = "SUCCESS" =>
       executions'[k] = executions[k]]_vars

\* Every call returns, even when the server never answers.
CallsReturn == \A k \in CallIds : pc[k] = "build" ~> Returned(k)

(***************************************************************************)
(* What the application may think of a call and of the robot is what       *)
(* RobotCommand promises.                                                  *)
(***************************************************************************)
View(k) ==
  CASE pc[k] = "unused" -> "new"
    [] pc[k] = "done" /\ status[k] = "SUCCESS" -> "succeeded"
    [] pc[k] = "done" /\ status[k] # "SUCCESS" -> "unknown"
    [] OTHER -> "pending"

Command == INSTANCE RobotCommand
  WITH Commands <- CallIds,
       call <- [k \in CallIds |-> View(k)],
       executed <- executions

\* A call is a command of RobotCommand: executed once at most, never after it
\* was reported successful, and always reported in the end.
ImplementsCommand == Command!Spec

-----------------------------------------------------------------------------
(***************************************************************************)
(* The inductive invariant.                                                *)
(***************************************************************************)
\* Before its write a call has reached nobody.
NotYetSent(k) ==
  pc[k] \in {"unused", "build", "open", "write"} =>
    /\ wire[k] = 0 /\ executions[k] = 0 /\ handled[k] = "none"
    /\ answer[k] = NoAnswer /\ resp[k] = NoAnswer

\* A success code, wherever it is, comes from an execution.
SuccessReported(k) ==
  \/ handled[k] = "executed" \/ answer[k].code = "success"
  \/ resp[k].code = "success" \/ status[k] = "SUCCESS"

SuccessIsBacked(k) == SuccessReported(k) => executions[k] = 1

\* Navigation: all is decided by the step that returns.
NavUndecided(k) ==
  Navigation(k) /\ ~Returned(k) =>
    status[k] = "DATA_GET_FAILED" /\ out[k] = "untouched"

\* The others: parsing decides, then Finish returns what it decided.
PlainUndecided(k) ==
  ~Navigation(k) /\ pc[k] \notin {"finish", "done"} =>
    status[k] = "DATA_GET_FAILED" /\ out[k] = "untouched"

PlainDecided(k) ==
  ~Navigation(k) /\ pc[k] \in {"finish", "done"} =>
    /\ out[k] = "garbled" => status[k] = "PARSE_FAILED"
    /\ status[k] = "SUCCESS" =>
         (resp[k].data # "absent" <=> out[k] = "fresh")

\* Past its serialization a control or perception request has its data, and
\* one that stopped there was never written.
PlainIsComplete(k) ==
  ~Navigation(k) => \/ "data" \in keys[k]
                    \/ wire[k] = 0 /\ executions[k] = 0

CompleteBeforeOpen(k) ==
  ~Navigation(k) /\ pc[k] \notin {"unused", "build", "done"} =>
    "data" \in keys[k]

IInv ==
  /\ TypeOK
  /\ AtMostOneExecution
  /\ NavResultMatchesStatus
  /\ \A k \in CallIds :
       /\ pc[k] # "unused" => api[k] \in Functions
       /\ NotYetSent(k) /\ SuccessIsBacked(k)
       /\ NavUndecided(k) /\ PlainUndecided(k) /\ PlainDecided(k)
       /\ PlainIsComplete(k) /\ CompleteBeforeOpen(k)
=============================================================================
