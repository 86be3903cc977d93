--------------------------- MODULE MCHttpRequests ---------------------------
(* Instances of HttpRequests for TLC.                                      *)
EXTENDS HttpRequests, TLC

CONSTANTS l1, l2, i1, i2

OneConn == {l1}
TwoConns == {l1, l2}
NoIssuer == {}
TwoIssuers == {i1, i2}
AnyRequest == {"call", "ask", "sse", "listen"}
StreamsOnly == {"sse", "listen"}
NothingBroken == {}
SecondBroken == {2}
StartOnly == {"start"}
AnyCall == {"start", "stop", "reload"}
NoOverlap == {}
SafeOverlaps == {<<"reload", "reload">>, <<"stop", "start">>, <<"stop", "stop">>}
ConnSymmetry == Permutations(TwoConns) \cup Permutations(TwoIssuers)

=============================================================================
