--------------------------- MODULE MCHostLifecycle ---------------------------
(* Instances of HostLifecycle for TLC: no requests, only streams.          *)
EXTENDS HostLifecycle

CONSTANTS l1, l2

NoListener == {}
TwoListeners == {l1, l2}
NothingBroken == {}
StartStop == {"start", "stop"}
StartReload == {"start", "reload"}
NoOverlap == {}

=============================================================================
