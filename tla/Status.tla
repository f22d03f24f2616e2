-------------------------------- MODULE Status --------------------------------
(***************************************************************************)
(* The error codes in the Status values that InterfacesClient returns      *)
(* (source/robot/common/status.cpp), and their origin in gRPC's            *)
(* (InterfacesClient::ConvertGrpcStatus).  Messages are left out.          *)
(***************************************************************************)

\* grpc::StatusCode.
GrpcCodes ==
  {"OK", "CANCELLED", "UNKNOWN", "INVALID_ARGUMENT", "DEADLINE_EXCEEDED",
   "NOT_FOUND", "ALREADY_EXISTS", "PERMISSION_DENIED", "UNAUTHENTICATED",
   "RESOURCE_EXHAUSTED", "FAILED_PRECONDITION", "ABORTED", "OUT_OF_RANGE",
   "UNIMPLEMENTED", "INTERNAL", "UNAVAILABLE", "DATA_LOSS"}

Conversion ==
  [OK                |-> "success",
   CANCELLED         |-> "operation_canceled",
   DEADLINE_EXCEEDED |-> "timed_out",
   NOT_FOUND         |-> "no_such_file_or_directory",
   ALREADY_EXISTS    |-> "file_exists",
   PERMISSION_DENIED |-> "permission_denied",
   UNAVAILABLE       |-> "host_unreachable",
   UNIMPLEMENTED     |-> "function_not_supported"]

\* Fault: a server that cannot be reached counts as not connected.
ConvertUnreachable(code) ==
  IF code = "UNAVAILABLE" THEN "not_connected"
  ELSE IF code \in DOMAIN Conversion THEN Conversion[code] ELSE "io_error"

\* What a call on the stub may be answered.
ConvertGrpcStatus(code) ==
  IF code \in DOMAIN Conversion THEN Conversion[code] ELSE "io_error"

RpcErrors ==
  {"operation_canceled", "timed_out", "no_such_file_or_directory",
   "file_exists", "permission_denied", "host_unreachable",
   "function_not_supported", "io_error"}

\* What the client answers without a call.
LocalErrors == {"not_connected", "connection_refused", "operation_canceled"}

StatusCodes == {"success"} \cup RpcErrors \cup LocalErrors
=============================================================================
