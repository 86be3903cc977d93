---------------------------- MODULE MCStdioLoop ----------------------------
(* Instances of StdioLoop for TLC: two upstreams to wrap around, or none.          *)
EXTENDS StdioLoop

TwoTargets == {"up", "other"}
=============================================================================
