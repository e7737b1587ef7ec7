---------------------------- MODULE MCMcpConnection ----------------------------
(* The instance of McpConnection that TLC checks. *)
EXTENDS McpConnection
=============================================================================
