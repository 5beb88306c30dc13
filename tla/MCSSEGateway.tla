------------------------------ MODULE MCSSEGateway ------------------------------
(* Small instances of SSEGateway for TLC. *)
EXTENDS SSEGateway

AllKinds == {"allowed", "blocked", "failing", "notification", "invalid"}

===============================================================================
