---------------------------- MODULE RobotCommand ----------------------------
(***************************************************************************)
(* What a module API call promises the application about the robot: the    *)
(* command is executed at most once, perhaps only after the application    *)
(* gave up on it; a call that reports success reports an execution that    *)
(* has happened, so nothing of it is still to come; every call ends.       *)
(***************************************************************************)
EXTENDS Naturals

CONSTANT Commands

VARIABLES
  call,      \* the application's view: new, pending, succeeded, unknown
  executed   \* how often the robot has executed the command

vars == <<call, executed>>

Init ==
  /\ call = [k \in Commands |-> "new"]
  /\ executed = [k \in Commands |-> 0]

Issue(k) ==
  /\ call[k] = "new"
  /\ call' = [call EXCEPT ![k] = "pending"]
  /\ UNCHANGED executed

Execute(k) ==
  /\ call[k] \in {"pending", "unknown"} /\ executed[k] = 0
  /\ executed' = [executed EXCEPT ![k] = 1]
  /\ UNCHANGED call

Succeed(k) ==
  /\ call[k] = "pending" /\ executed[k] = 1
  /\ call' = [call EXCEPT ![k] = "succeeded"]
  /\ UNCHANGED executed

\* Any other status: the application does not know what the robot did.
GiveUp(k) ==
  /\ call[k] = "pending"
  /\ call' = [call EXCEPT ![k] = "unknown"]
  /\ UNCHANGED executed

Next == \E k \in Commands : Issue(k) \/ Execute(k) \/ Succeed(k) \/ GiveUp(k)

Safety == Init /\ [][Next]_vars

Spec == Safety /\ \A k \in Commands : WF_vars(Succeed(k) \/ GiveUp(k))
=============================================================================
