---------------------------- MODULE MCMcpClient ----------------------------
(* Instances for TLC: all policies, a cap of two chunks, of which a header   *)
(* takes one.                                                               *)
EXTENDS McpClient

AllPolicies == {"none", "pin", "modernOnly"}
=============================================================================
