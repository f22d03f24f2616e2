SPECIFICATION FairSpec
CONSTANTS
  Functions = {"NavigationTo", "EmergencyStop", "Detection", "GetJointInfo", "JointMotion", "Division", "Perception"}
  MaxCalls = 2
INVARIANTS
  TypeOK
  SuccessWasExecutedOnce
  AtMostOneExecution
  NavResultMatchesStatus
  ControlCommandsAreComplete
  ResultMatchesAnswer
PROPERTIES
  CallsReturn
  ImplementsCommand
CHECK_DEADLOCK FALSE
