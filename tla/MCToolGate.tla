------------------------------ MODULE MCToolGate ------------------------------
(* Instances of ToolGate for TLC: three gates and one PostToolUse hook.    *)
EXTENDS ToolGate

CONSTANTS a, b

OneProxied == {a}
TwoCalls == {a, b}
FourHooks == 1..4
ThreePreOnePost == [h \in FourHooks |-> IF h = 4 THEN "Post" ELSE "Pre"]

AllOn == [h \in FourHooks |-> "fires"]
OneOff == [AllOn EXCEPT ![2] = "off"]
OneUnreadable == [AllOn EXCEPT ![3] = "unreadable", ![4] = "off"]
SomeManifests == {AllOn, OneOff, OneUnreadable}

=============================================================================
