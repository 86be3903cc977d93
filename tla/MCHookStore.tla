------------------------------ MODULE MCHookStore ------------------------------
(* Instances for TLC.  Tools t and s: s is named "t", so both reach gate t. *)
(* Hook h carries t's own script at gate t, hook g a foreign one.           *)
EXTENDS HookStore, TLC

CONSTANTS h, g, t, s, ui, p

TwoHooks == {h, g}
TwoTools == {t, s}
Gates == [k \in {h, g, t, s} |-> t]
Commands == (h :> t) @@ (g :> g) @@ (t :> t) @@ (s :> s)
OneScript == {p}
=============================================================================
