--------------------------- MODULE MCElicitBridge ---------------------------
(* Instances of ElicitBridge for TLC.                                      *)
EXTENDS ElicitBridge

CONSTANTS a, b, x, p, q, u, v

TwoCalls == {a, b}
OneRaw == {x}
TwoQuestions == {p, q}
TwoUpstreams == {u, v}

=============================================================================
