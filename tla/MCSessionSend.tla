---------------------------- MODULE MCSessionSend ----------------------------
(* SessionSend for TLC: the logic thread and one gRPC thread send. *)
EXTENDS SessionSend

CONSTANTS logic, rpc   \* model values for the threads that send

MCSenders == {logic, rpc}
==============================================================================
