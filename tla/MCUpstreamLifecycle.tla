------------------------- MODULE MCUpstreamLifecycle -------------------------
(* Instances of UpstreamLifecycle for TLC.                                 *)
EXTENDS UpstreamLifecycle

CONSTANTS u1, u2, u3, c1, c2

OneUpstream == {u1}
TwoUpstreams == {u1, u2}
ThreeUpstreams == {u1, u2, u3}
TwoClients == {c1, c2}

=============================================================================
