--------------------------- MODULE ModuleApiProofs ---------------------------
(***************************************************************************)
(* Theorems of ModuleApi, for any set of API functions and any number of   *)
(* calls.  A step belongs to one call, so the inductive invariant is       *)
(* proved call by call: the acting call by cases on its step, the others   *)
(* because nothing of theirs changes.                                      *)
(***************************************************************************)
EXTENDS ModuleApi, TLAPS

\* A step of a call.
CallStep(k) == Begin(k) \/ Client(k) \/ Environment(k)

\* What the inductive invariant says of one call.
CallInv(k) ==
  /\ executions[k] + wire[k] <= 1
  /\ Returned(k) /\ Navigation(k) =>
       /\ status[k] = "SUCCESS" <=> out[k] = "fresh"
       /\ status[k] # "SUCCESS" /\ status[k] # "PARSE_FAILED" =>
            out[k] = "untouched"
  /\ pc[k] # "unused" => api[k] \in Functions
  /\ NotYetSent(k) /\ SuccessIsBacked(k)
  /\ NavUndecided(k) /\ PlainUndecided(k) /\ PlainDecided(k)
  /\ PlainIsComplete(k) /\ CompleteBeforeOpen(k)

LEMMA IInvByCall == IInv <=> TypeOK /\ \A k \in CallIds : CallInv(k)
  BY DEF IInv, CallInv, AtMostOneExecution, NavResultMatchesStatus

\* Every step of a client is one of the exchange's steps, a failed
\* serialization or a parse of its own kind.
LEMMA ClientSteps ==
  ASSUME NEW k, Client(k)
  PROVE  \/ Exchange(k)
         \/ Navigation(k) /\ (NavSerializeFails(k) \/ NavParse(k))
         \/ ~Navigation(k)
            /\ (SerializeFails(k) \/ CheckedParse(k) \/ PlainParse(k))
<1>1. CASE NavigationRequestTemplate(k)
  BY <1>1 DEF NavigationRequestTemplate
<1>2. CASE EmergencyStop(k) \/ Detection(k)
  <2>1. PICK f \in {"EmergencyStop", "Detection"} : CheckedCall(k, f)
    BY <1>2 DEF EmergencyStop, Detection
  <2>2. ~Navigation(k)
    BY <2>1 DEF CheckedCall, Navigation, NavigationCalls
  <2> QED BY <2>1, <2>2 DEF CheckedCall
<1>3. CASE GetJointInfo(k) \/ JointMotion(k) \/ Division(k) \/ Perception(k)
  <2>1. PICK f \in PlainCalls : PlainCall(k, f)
    BY <1>3 DEF GetJointInfo, JointMotion, Division, Perception, PlainCalls
  <2>2. ~Navigation(k)
    BY <2>1 DEF PlainCall, Navigation, NavigationCalls, PlainCalls
  <2> QED BY <2>1, <2>2 DEF PlainCall
<1> QED BY <1>1, <1>2, <1>3 DEF Client

\* The answers a call may get.
LEMMA AnswerFields ==
  /\ NoAnswer.code = "none" /\ NoAnswer.data = "absent"
  /\ \A a \in Answers : /\ a.code \in Codes /\ a # NoAnswer
                        /\ a.data \in {"absent", "good", "garbage"}
  /\ \A o, a : a \in AnswersFor(o) =>
       a \in Answers /\ (o = "rejected" => a.code # "success")
  BY DEF Answers, NoAnswer, Codes, AnswersFor

LEMMA CodeStatusType ==
  \A code : /\ CodeStatus(code) \in {"SUCCESS", "FAILURE"}
            /\ CodeStatus(code) = "SUCCESS" <=> code = "success"
  BY DEF CodeStatus

-----------------------------------------------------------------------------
\* Type correctness.
LEMMA TypeInit == Init => TypeOK
  BY DEF Init, TypeOK, Statuses

LEMMA TypeStep ==
  ASSUME TypeOK, NEW k \in CallIds, CallStep(k) PROVE TypeOK'
<1> USE AnswerFields, CodeStatusType
    DEF TypeOK, clientVars, serverVars, Goto, Return, ParseData, Statuses
<1>1. CASE Begin(k)
  BY <1>1 DEF Begin
<1>2. CASE SerializeSucceeds(k) \/ SerializeFails(k) \/ NavSerializeFails(k)
  BY <1>2 DEF SerializeSucceeds, SerializeFails, NavSerializeFails
<1>3. CASE OpenStream(k) \/ OpenFails(k)
  BY <1>3 DEF OpenStream, OpenFails
<1>4. CASE Write(k) \/ WriteFails(k)
  BY <1>4 DEF Write, WriteFails
<1>5. CASE Read(k)
  BY <1>5 DEF Read
<1>6. CASE ReadFails(k) \/ Finish(k)
  BY <1>6 DEF ReadFails, Finish
<1>7. CASE NavParse(k)
  BY <1>7 DEF NavParse
<1>8. CASE CheckedParse(k)
  BY <1>8 DEF CheckedParse
<1>9. CASE PlainParse(k)
  BY <1>9 DEF PlainParse
<1>10. CASE ServerHandles(k)
  BY <1>10 DEF ServerHandles
<1>11. CASE ServerAnswers(k)
  BY <1>11 DEF ServerAnswers
<1>12. CASE StreamEnds(k)
  BY <1>12 DEF StreamEnds
<1>13. CASE MessageLost(k)
  BY <1>13 DEF MessageLost
<1> QED BY <1>1, <1>2, <1>3, <1>4, <1>5, <1>6, <1>7, <1>8, <1>9, <1>10,
           <1>11, <1>12, <1>13, ClientSteps
        DEF CallStep, Environment, Exchange

\* A step of one call changes nothing of another.
OfCall(k) == <<pc[k], api[k], keys[k], stream[k], resp[k], status[k], out[k],
               wire[k], handled[k], answer[k], executions[k]>>

LEMMA OthersUnchanged ==
  ASSUME TypeOK, NEW k \in CallIds, NEW j \in CallIds \ {k}, CallStep(k)
  PROVE  UNCHANGED OfCall(j)
<1> USE DEF TypeOK, clientVars, serverVars, Goto, Return, ParseData, OfCall
<1>1. CASE Begin(k)
  BY <1>1 DEF Begin
<1>2. CASE SerializeSucceeds(k) \/ SerializeFails(k) \/ NavSerializeFails(k)
  BY <1>2 DEF SerializeSucceeds, SerializeFails, NavSerializeFails
<1>3. CASE OpenStream(k) \/ OpenFails(k) \/ Write(k) \/ WriteFails(k)
  BY <1>3 DEF OpenStream, OpenFails, Write, WriteFails
<1>4. CASE Read(k) \/ ReadFails(k) \/ Finish(k)
  BY <1>4 DEF Read, ReadFails, Finish
<1>5. CASE NavParse(k) \/ CheckedParse(k) \/ PlainParse(k)
  BY <1>5 DEF NavParse, CheckedParse, PlainParse
<1>6. CASE ServerHandles(k) \/ ServerAnswers(k)
  BY <1>6 DEF ServerHandles, ServerAnswers
<1>7. CASE StreamEnds(k) \/ MessageLost(k)
  BY <1>7 DEF StreamEnds, MessageLost
<1> QED BY <1>1, <1>2, <1>3, <1>4, <1>5, <1>6, <1>7, ClientSteps
        DEF CallStep, Environment, Exchange

-----------------------------------------------------------------------------
LEMMA IInvInit == Init => IInv
<1>1. Init => \A k \in CallIds : CallInv(k)
  BY AnswerFields
  DEF Init, CallInv, Navigation, NavigationCalls, Returned, NotYetSent,
      SuccessIsBacked, SuccessReported, NavUndecided, PlainUndecided,
      PlainDecided, PlainIsComplete, CompleteBeforeOpen
<1> QED BY <1>1, TypeInit, IInvByCall

\* Before the write: building the request and opening the stream.
LEMMA OwnSend ==
  ASSUME TypeOK, NEW k \in CallIds, CallInv(k),
         \/ Begin(k) \/ SerializeSucceeds(k) \/ OpenStream(k) \/ OpenFails(k)
         \/ Write(k) \/ WriteFails(k)
         \/ SerializeFails(k) /\ ~Navigation(k)
         \/ NavSerializeFails(k) /\ Navigation(k)
  PROVE  CallInv(k)'
<1> USE AnswerFields
    DEF TypeOK, clientVars, serverVars, Goto, Return, Statuses, CallInv,
        Navigation, Returned, NotYetSent, SuccessIsBacked,
        SuccessReported, NavUndecided, PlainUndecided, PlainDecided,
        PlainIsComplete, CompleteBeforeOpen
<1>1. CASE Begin(k)
  BY <1>1 DEF Begin
<1>2. CASE SerializeSucceeds(k)
  BY <1>2 DEF SerializeSucceeds
<1>3. CASE OpenStream(k)
  BY <1>3 DEF OpenStream
<1>4. CASE OpenFails(k)
  BY <1>4 DEF OpenFails
<1>5. CASE Write(k)
  BY <1>5 DEF Write
<1>6. CASE WriteFails(k)
  BY <1>6 DEF WriteFails
<1>7. CASE SerializeFails(k) /\ ~Navigation(k)
  BY <1>7 DEF SerializeFails
<1>8. CASE NavSerializeFails(k) /\ Navigation(k)
  BY <1>8 DEF NavSerializeFails
<1> QED BY <1>1, <1>2, <1>3, <1>4, <1>5, <1>6, <1>7, <1>8

\* A step that neither executes nor invents a success keeps it backed.
LEMMA StaysBacked ==
  ASSUME NEW k, SuccessIsBacked(k), UNCHANGED executions,
         SuccessReported(k)' => SuccessReported(k)
  PROVE  SuccessIsBacked(k)'
  BY DEF SuccessIsBacked, SuccessReported

\* After the write: the answer, its parsing and the end of the stream.
LEMMA OwnAnswer ==
  ASSUME TypeOK, NEW k \in CallIds, CallInv(k),
         \/ Read(k) \/ ReadFails(k) \/ Finish(k)
         \/ NavParse(k) /\ Navigation(k)
         \/ (CheckedParse(k) \/ PlainParse(k)) /\ ~Navigation(k)
  PROVE  CallInv(k)'
<1> USE AnswerFields, CodeStatusType
    DEF TypeOK, clientVars, serverVars, Goto, Return, Statuses, CallInv,
        Navigation, Returned, NotYetSent, SuccessIsBacked,
        SuccessReported, NavUndecided, PlainUndecided, PlainDecided,
        PlainIsComplete, CompleteBeforeOpen,
        ParseData, Throws, Codes
<1>1. CASE Read(k)
  <2>1. resp'[k] = answer[k] /\ answer'[k] = NoAnswer
    BY <1>1 DEF Read
  <2>2. pc'[k] = IF Navigation(k) THEN "finish" ELSE "parse"
    BY <1>1 DEF Read
  <2>3. status[k] = "DATA_GET_FAILED" /\ out[k] = "untouched"
    BY <1>1 DEF Read
  <2>4. SuccessIsBacked(k)'
    <3>1. UNCHANGED <<handled, status, executions>>
      BY <1>1 DEF Read
    <3>2. SuccessReported(k)' => SuccessReported(k)
      BY <2>1, <3>1 DEF SuccessReported
    <3> QED BY <3>1, <3>2, StaysBacked
  <2>5. CompleteBeforeOpen(k)' /\ PlainIsComplete(k)'
    BY <1>1, <2>2 DEF Read
  <2> HIDE DEF SuccessIsBacked, CompleteBeforeOpen, PlainIsComplete
  <2> QED BY <1>1, <2>1, <2>2, <2>3, <2>4, <2>5 DEF Read
<1>2. CASE ReadFails(k)
  BY <1>2 DEF ReadFails
<1>3. CASE Finish(k)
  BY <1>3 DEF Finish
<1>4. CASE NavParse(k) /\ Navigation(k)
  BY <1>4 DEF NavParse
<1>5. CASE CheckedParse(k) /\ ~Navigation(k)
  BY <1>5 DEF CheckedParse
<1>6. CASE PlainParse(k) /\ ~Navigation(k)
  BY <1>6 DEF PlainParse
<1> QED BY <1>1, <1>2, <1>3, <1>4, <1>5, <1>6

\* The server and the network.
LEMMA OwnEnvironment ==
  ASSUME TypeOK, NEW k \in CallIds, CallInv(k), Environment(k)
  PROVE  CallInv(k)'
<1> USE AnswerFields
    DEF TypeOK, clientVars, serverVars, CallInv,
        Navigation, Returned, NotYetSent, SuccessIsBacked,
        SuccessReported, NavUndecided, PlainUndecided, PlainDecided,
        PlainIsComplete, CompleteBeforeOpen
<1>1. CASE ServerHandles(k)
  BY <1>1 DEF ServerHandles
<1>2. CASE ServerAnswers(k)
  <2>1. PICK a \in AnswersFor(handled[k]) :
          answer' = [answer EXCEPT ![k] = a]
    BY <1>2 DEF ServerAnswers
  <2>2. answer'[k] = a
    BY <2>1
  <2>3. a.code = "success" => handled[k] = "executed"
    BY <1>2, <2>1 DEF ServerAnswers
  <2>4. handled[k] # "none" /\ executions' = executions /\ wire' = wire
    BY <1>2 DEF ServerAnswers
  <2>5. SuccessIsBacked(k)'
    <3>1. handled'[k] = "none" /\ UNCHANGED <<resp, status>>
      BY <1>2 DEF ServerAnswers
    <3>2. SuccessReported(k)' => SuccessReported(k)
      BY <2>2, <2>3, <3>1 DEF SuccessReported
    <3> QED BY <2>4, <3>2, StaysBacked
  <2>6. NotYetSent(k)'
    BY <1>2, <2>4 DEF ServerAnswers
  <2> HIDE DEF SuccessIsBacked, NotYetSent
  <2> QED BY <1>2, <2>4, <2>5, <2>6 DEF ServerAnswers
<1>3. CASE StreamEnds(k)
  <2>1. answer'[k] \in {answer[k], NoAnswer}
    BY <1>3 DEF StreamEnds
  <2>2. UNCHANGED <<pc, api, keys, resp, status, out, wire, handled,
                    executions>>
    BY <1>3 DEF StreamEnds
  <2>3. SuccessIsBacked(k)'
    <3>1. SuccessReported(k)' => SuccessReported(k)
      BY <2>1, <2>2 DEF SuccessReported
    <3> QED BY <2>2, <3>1, StaysBacked
  <2>4. NotYetSent(k)'
    BY <2>1, <2>2
  <2> HIDE DEF SuccessIsBacked, NotYetSent
  <2> QED BY <2>2, <2>3, <2>4
<1>4. CASE MessageLost(k)
  BY <1>4 DEF MessageLost
<1> QED BY <1>1, <1>2, <1>3, <1>4 DEF Environment

LEMMA IInvStep == IInv /\ [Next]_vars => IInv'
<1> SUFFICES ASSUME IInv, [Next]_vars PROVE IInv'
  OBVIOUS
<1>0. TypeOK /\ \A k \in CallIds : CallInv(k)
  BY IInvByCall
<1>1. CASE UNCHANGED vars
  BY <1>1
  DEF vars, clientVars, serverVars, IInv, TypeOK, AtMostOneExecution,
      NavResultMatchesStatus, Navigation, Returned, NotYetSent,
      SuccessIsBacked, SuccessReported, NavUndecided, PlainUndecided,
      PlainDecided, PlainIsComplete, CompleteBeforeOpen
<1>2. ASSUME NEW k \in CallIds, CallStep(k) PROVE IInv'
  <2>1. TypeOK'
    BY <1>0, <1>2, TypeStep
  <2>2. CallInv(k)'
    BY <1>0, <1>2, OwnSend, OwnAnswer, OwnEnvironment, ClientSteps
    DEF CallStep, Exchange
  <2>3. ASSUME NEW j \in CallIds \ {k} PROVE CallInv(j)'
    <3>1. UNCHANGED OfCall(j)
      BY <1>0, <1>2, OthersUnchanged
    <3> QED
      BY <1>0, <3>1
      DEF OfCall, CallInv, Navigation, Returned, NotYetSent,
          SuccessIsBacked, SuccessReported, NavUndecided, PlainUndecided,
          PlainDecided, PlainIsComplete, CompleteBeforeOpen
  <2>4. \A j \in CallIds : CallInv(j)'
    BY <2>2, <2>3
  <2> QED BY <2>1, <2>4
          DEF IInv, CallInv, AtMostOneExecution, NavResultMatchesStatus
<1> QED BY <1>1, <1>2 DEF Next, CallStep

-----------------------------------------------------------------------------
\* The inductive invariant holds of any number of calls to any functions.
THEOREM InvariantHolds == Spec => []IInv
  BY IInvInit, IInvStep, PTL DEF Spec

\* Type correctness of the calls, the wire and the server.
THEOREM TypeCorrect == Spec => []TypeOK
<1>1. IInv => TypeOK
  BY DEF IInv
<1> QED BY <1>1, InvariantHolds, PTL

\* No call has the robot execute its command twice, whatever is lost, late or
\* rejected.
THEOREM NoCommandRunsTwice == Spec => []AtMostOneExecution
<1>1. IInv => AtMostOneExecution
  BY DEF IInv
<1> QED BY <1>1, InvariantHolds, PTL

\* SUCCESS is reported only of a command that was executed, exactly once.
THEOREM SuccessIsAnExecution == Spec => []SuccessWasExecutedOnce
<1>1. IInv => SuccessWasExecutedOnce
  BY DEF IInv, SuccessWasExecutedOnce, SuccessIsBacked, SuccessReported
<1> QED BY <1>1, InvariantHolds, PTL

\* The status of a navigation call says whether its result was filled.
THEOREM NavStatusTellsResult == Spec => []NavResultMatchesStatus
<1>1. IInv => NavResultMatchesStatus
  BY DEF IInv
<1> QED BY <1>1, InvariantHolds, PTL

\* The status of the other calls says whether their result can be used.
THEOREM StatusTellsResult == Spec => []ResultMatchesAnswer
<1>1. IInv => ResultMatchesAnswer
  BY DEF IInv, ResultMatchesAnswer, PlainDecided, Returned
<1> QED BY <1>1, InvariantHolds, PTL

\* A control or perception command that may reach the robot has its data.
THEOREM CommandsAreComplete == Spec => []ControlCommandsAreComplete
<1>1. IInv => ControlCommandsAreComplete
  BY DEF IInv, TypeOK, ControlCommandsAreComplete, PlainIsComplete
<1> QED BY <1>1, InvariantHolds, PTL

-----------------------------------------------------------------------------
\* Once a call is done, only the server and the network act for it.
LEMMA DoneIsDone ==
  ASSUME TypeOK, NEW k \in CallIds, Returned(k), CallStep(k)
  PROVE  Environment(k)
  BY ClientSteps
  DEF CallStep, Returned, Begin, Exchange, SerializeSucceeds, OpenStream,
      OpenFails, Write, WriteFails, Read, ReadFails, Finish,
      NavSerializeFails, NavParse, SerializeFails, CheckedParse, PlainParse

\* A command reported successful is never executed again, so what the
\* application asks for next comes after it.
THEOREM SuccessIsFinal == Spec => NoExecutionAfterSuccess
<1>1. IInv /\ [Next]_vars =>
        [\A k \in CallIds : Returned(k) /\ status[k] = "SUCCESS" =>
           executions'[k] = executions[k]]_vars
  <2> SUFFICES ASSUME IInv, Next, NEW j \in CallIds,
                      Returned(j), status[j] = "SUCCESS"
               PROVE  executions'[j] = executions[j]
    OBVIOUS
  <2>1. PICK k \in CallIds : CallStep(k)
    BY DEF Next, CallStep
  <2>2. CASE j # k
    BY <2>1, <2>2, OthersUnchanged DEF IInv, OfCall
  <2>3. CASE j = k
    <3>1. wire[j] = 0
      BY DEF IInv, TypeOK, AtMostOneExecution, SuccessIsBacked,
             SuccessReported
    <3>2. Environment(j)
      BY <2>1, <2>3, DoneIsDone DEF IInv
    <3> QED BY <3>1, <3>2
            DEF Environment, ServerHandles, ServerAnswers, StreamEnds,
                MessageLost, clientVars
  <2> QED BY <2>2, <2>3
<1> QED BY <1>1, InvariantHolds, PTL DEF Spec, NoExecutionAfterSuccess

\* What a call returned with stays with it, whatever reaches the robot or comes
\* back from it later.
ResultStays ==
  \A k \in CallIds : Returned(k) =>
    UNCHANGED <<pc[k], api[k], keys[k], resp[k], status[k], out[k]>>

\* The result of a call is final: a message handled late, an answer on its way
\* and the calls that follow do not alter what it told the application.
THEOREM ResultsAreFinal == Spec => [][ResultStays]_vars
<1>1. IInv /\ [Next]_vars => [ResultStays]_vars
  <2> SUFFICES ASSUME IInv, Next, NEW j \in CallIds, Returned(j)
      PROVE  UNCHANGED <<pc[j], api[j], keys[j], resp[j], status[j], out[j]>>
    BY DEF ResultStays
  <2>1. PICK k \in CallIds : CallStep(k)
    BY DEF Next, CallStep
  <2>2. CASE j # k
    BY <2>1, <2>2, OthersUnchanged DEF IInv, OfCall
  <2>3. CASE j = k
    <3>1. Environment(j)
      BY <2>1, <2>3, DoneIsDone DEF IInv
    <3> QED BY <3>1
            DEF Environment, ServerHandles, ServerAnswers, StreamEnds,
                MessageLost, clientVars
  <2> QED BY <2>2, <2>3
<1> QED BY <1>1, InvariantHolds, PTL DEF Spec

-----------------------------------------------------------------------------
(***************************************************************************)
(* Why every call returns: the part of the argument that needs no          *)
(* fairness.                                                               *)
(***************************************************************************)
\* How many steps of its thread a call has left, at most.
StepsLeft(k) ==
  CASE pc[k] = "unused" -> 7
    [] pc[k] = "build" -> 6
    [] pc[k] = "open" -> 5
    [] pc[k] = "write" -> 4
    [] pc[k] = "read" -> 3
    [] pc[k] = "finish" /\ Navigation(k) -> 2
    [] pc[k] = "parse" /\ ~Navigation(k) -> 2
    [] pc[k] = "parse" /\ Navigation(k) -> 1
    [] pc[k] = "finish" /\ ~Navigation(k) -> 1
    [] OTHER -> 0

\* A call that writes, reads or finishes has a stream; as the stream ends, so
\* does what it may wait for.
HasStream ==
  \A k \in CallIds :
    /\ pc[k] \in {"unused", "build", "open"} => stream[k] = "none"
    /\ pc[k] \in {"write", "read", "parse", "finish"} => stream[k] # "none"

\* No step repeats an earlier one of its call, and no stream is opened again.
StepsRunOut ==
  \A k \in CallIds :
    /\ pc'[k] # pc[k] => StepsLeft(k)' < StepsLeft(k)
    /\ stream[k] = "ended" => stream'[k] = "ended"

LEMMA OwnStepsRunOut ==
  ASSUME TypeOK, HasStream, NEW k \in CallIds, Begin(k) \/ Client(k)
  PROVE  /\ StepsLeft(k)' < StepsLeft(k)
         /\ stream[k] = "ended" => stream'[k] = "ended"
         /\ pc'[k] \in {"unused", "build", "open"} => stream'[k] = "none"
         /\ pc'[k] \in {"write", "read", "parse", "finish"} =>
              stream'[k] # "none"
<1> USE DEF TypeOK, HasStream, Goto, Return, StepsLeft
<1>1. CASE Begin(k)
  BY <1>1 DEF Begin
<1>2. ASSUME Client(k) PROVE Navigation(k)' = Navigation(k)
  BY <1>2, ClientSteps
  DEF Exchange, SerializeSucceeds, OpenStream, OpenFails, Write, WriteFails,
      Read, ReadFails, Finish, NavSerializeFails, NavParse, SerializeFails,
      CheckedParse, PlainParse, Navigation
<1>3. CASE SerializeSucceeds(k)
  BY <1>3 DEF SerializeSucceeds
<1>4. CASE SerializeFails(k)
  BY <1>4 DEF SerializeFails
<1>5. CASE NavSerializeFails(k)
  BY <1>5 DEF NavSerializeFails
<1>6. CASE OpenStream(k)
  BY <1>6 DEF OpenStream
<1>7. CASE OpenFails(k)
  BY <1>7 DEF OpenFails
<1>8. CASE Write(k) \/ WriteFails(k)
  BY <1>8 DEF Write, WriteFails
<1>9. CASE Client(k) /\ Read(k)
  BY <1>2, <1>9 DEF Read
<1>10. CASE ReadFails(k)
  BY <1>10 DEF ReadFails
<1>11. CASE Client(k) /\ Finish(k)
  BY <1>2, <1>11 DEF Finish
<1>12. CASE NavParse(k) /\ Navigation(k)
  BY <1>12 DEF NavParse
<1>13. CASE Client(k) /\ ~Navigation(k) /\ CheckedParse(k)
  BY <1>2, <1>13 DEF CheckedParse
<1>14. CASE Client(k) /\ ~Navigation(k) /\ PlainParse(k)
  BY <1>2, <1>14 DEF PlainParse
<1> QED BY <1>1, <1>3, <1>4, <1>5, <1>6, <1>7, <1>8, <1>9, <1>10, <1>11,
           <1>12, <1>13, <1>14, ClientSteps DEF Exchange

LEMMA EnvironmentWaits ==
  ASSUME TypeOK, NEW k \in CallIds, Environment(k)
  PROVE  /\ pc' = pc
         /\ \/ stream'[k] = stream[k]
            \/ stream[k] = "open" /\ stream'[k] = "ended"
  BY DEF TypeOK, Environment, ServerHandles, ServerAnswers, StreamEnds,
         MessageLost, clientVars

LEMMA RunOutStep ==
  ASSUME IInv, HasStream, [Next]_vars PROVE HasStream' /\ [StepsRunOut]_vars
<1>1. CASE UNCHANGED vars
  BY <1>1 DEF vars, clientVars, HasStream
<1>2. ASSUME NEW k \in CallIds, CallStep(k), NEW j \in CallIds
      PROVE  /\ pc'[j] # pc[j] => StepsLeft(j)' < StepsLeft(j)
             /\ stream[j] = "ended" => stream'[j] = "ended"
             /\ pc'[j] \in {"unused", "build", "open"} => stream'[j] = "none"
             /\ pc'[j] \in {"write", "read", "parse", "finish"} =>
                  stream'[j] # "none"
  <2>1. CASE j # k
    BY <1>2, <2>1, OthersUnchanged DEF IInv, OfCall, HasStream
  <2>2. CASE j = k /\ Environment(k)
    BY <2>2, EnvironmentWaits DEF IInv, HasStream
  <2>3. CASE j = k /\ (Begin(k) \/ Client(k))
    BY <2>3, OwnStepsRunOut DEF IInv
  <2> QED BY <1>2, <2>1, <2>2, <2>3 DEF CallStep
<1> QED BY <1>1, <1>2 DEF Next, CallStep, HasStream, StepsRunOut

\* A call makes at most six steps once begun - it retries nothing - and where
\* it may have to wait, in Write, Read and Finish, it has a stream, which once
\* ended stays ended and lets each of them return.
THEOREM CallsRunOut == Spec => []HasStream /\ [][StepsRunOut]_vars
<1>1. Init => HasStream
  BY DEF Init, HasStream
<1>2. IInv /\ HasStream /\ [Next]_vars => HasStream' /\ [StepsRunOut]_vars
  BY RunOutStep
<1> QED BY <1>1, <1>2, InvariantHolds, PTL DEF Spec

-----------------------------------------------------------------------------
(***************************************************************************)
(* The calls implement RobotCommand.                                       *)
(***************************************************************************)
\* The mapped state of RobotCommand.
Views == [k \in CallIds |-> View(k)]

\* A step of a running client neither begins nor touches a finished call.
LEMMA ClientMoves ==
  ASSUME TypeOK, NEW k \in CallIds, Client(k)
  PROVE  /\ pc[k] \notin {"unused", "done"} /\ pc'[k] # "unused"
         /\ UNCHANGED executions
  BY ClientSteps
  DEF TypeOK, serverVars, Goto, Return, ParseData, Exchange,
      SerializeSucceeds, OpenStream, OpenFails, Write, WriteFails, Read,
      ReadFails, Finish, NavSerializeFails, NavParse, SerializeFails,
      CheckedParse, PlainParse

\* Only the acting call is seen differently.
LEMMA OthersSeenTheSame ==
  ASSUME TypeOK, NEW k \in CallIds, CallStep(k)
  PROVE  Views' = [Views EXCEPT ![k] = View(k)']
<1>1. ASSUME NEW j \in CallIds \ {k} PROVE UNCHANGED Views[j]
  BY OthersUnchanged DEF OfCall, Views, View
<1> QED BY <1>1 DEF Views

LEMMA BeginRefines ==
  ASSUME TypeOK, NEW k \in CallIds, Begin(k) PROVE Command!Issue(k)
<1>1. View(k) = "new"
  BY DEF Begin, View
<1>2. View(k)' = "pending"
  BY DEF Begin, Goto, TypeOK, View
<1>3. UNCHANGED executions
  BY DEF Begin, serverVars
<1> QED BY <1>1, <1>2, <1>3, OthersSeenTheSame
        DEF CallStep, Command!Issue, Views

LEMMA ClientRefines ==
  ASSUME IInv, IInv', NEW k \in CallIds, Client(k)
  PROVE  [Command!Next]_(Command!vars)
<1>1. View(k) = "pending"
  BY ClientMoves DEF IInv, View
<1>2. UNCHANGED executions
  BY ClientMoves DEF IInv
<1>3. Views' = [Views EXCEPT ![k] = View(k)']
  BY OthersSeenTheSame DEF IInv, CallStep
<1>4. CASE ~Returned(k)'
  <2>1. View(k)' = "pending"
    BY <1>4, ClientMoves DEF IInv, View, Returned
  <2>2. UNCHANGED Views
    BY <1>1, <1>3, <2>1 DEF Views
  <2> QED BY <1>2, <2>2 DEF Command!vars, Views
<1>5. CASE Returned(k)' /\ status'[k] = "SUCCESS"
  <2>1. View(k)' = "succeeded"
    BY <1>5 DEF View, Returned
  <2>2. executions'[k] = 1
    BY <1>5 DEF IInv, SuccessIsBacked, SuccessReported
  <2>3. Command!Succeed(k)
    BY <1>1, <1>2, <1>3, <2>1, <2>2
    DEF Command!Succeed, Views
  <2> QED BY <2>3 DEF Command!Next
<1>6. CASE Returned(k)' /\ status'[k] # "SUCCESS"
  <2>1. View(k)' = "unknown"
    BY <1>6 DEF View, Returned
  <2>2. Command!GiveUp(k)
    BY <1>1, <1>2, <1>3, <2>1 DEF Command!GiveUp, Views
  <2> QED BY <2>2 DEF Command!Next
<1> QED BY <1>4, <1>5, <1>6

LEMMA EnvironmentRefines ==
  ASSUME IInv, NEW k \in CallIds, Environment(k)
  PROVE  [Command!Next]_(Command!vars)
<1>1. UNCHANGED Views
  BY DEF Environment, ServerHandles, ServerAnswers, StreamEnds, MessageLost,
         clientVars, Views, View
<1>2. CASE UNCHANGED executions
  BY <1>1, <1>2 DEF Command!vars, Views
<1>3. CASE ~UNCHANGED executions
  <2>1. wire[k] > 0 /\ executions' = [executions EXCEPT ![k] = @ + 1]
    BY <1>3 DEF Environment, ServerHandles, ServerAnswers, StreamEnds,
                MessageLost
  <2>2. executions[k] = 0
    BY <2>1 DEF IInv, TypeOK, AtMostOneExecution
  <2>3. View(k) \in {"pending", "unknown"}
    BY <2>1, <2>2
    DEF IInv, NotYetSent, SuccessIsBacked, SuccessReported, View
  <2>4. executions' = [executions EXCEPT ![k] = 1]
    BY <2>1, <2>2
  <2>5. Command!Execute(k)
    BY <1>1, <2>2, <2>3, <2>4 DEF Command!Execute, Views
  <2> QED BY <2>5 DEF Command!Next
<1> QED BY <1>2, <1>3

\* Whatever the functions called, a call is a RobotCommand: its initial states
\* and steps map to initial states, steps or stutters.
THEOREM Implementation == Spec => Command!Safety
<1>1. Init => Command!Init
  <2> SUFFICES ASSUME Init PROVE Command!Init
    OBVIOUS
  <2>1. \A k \in CallIds : View(k) = "new"
    BY DEF Init, View
  <2> QED BY <2>1 DEF Init, Command!Init
<1>2. IInv /\ IInv' /\ [Next]_vars => [Command!Next]_(Command!vars)
  <2> SUFFICES ASSUME IInv, IInv', [Next]_vars
               PROVE  [Command!Next]_(Command!vars)
    OBVIOUS
  <2>1. CASE UNCHANGED vars
    BY <2>1 DEF vars, clientVars, serverVars, Command!vars, View
  <2>2. ASSUME NEW k \in CallIds, Begin(k)
        PROVE  [Command!Next]_(Command!vars)
    BY <2>2, BeginRefines DEF IInv, Command!Next
  <2> QED BY <2>1, <2>2, ClientRefines, EnvironmentRefines DEF Next
<1> QED BY <1>1, <1>2, InvariantHolds, PTL DEF Spec, Command!Safety
=============================================================================
